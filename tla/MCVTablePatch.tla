---------------------------- MODULE MCVTablePatch ---------------------------
(***************************************************************************)
(* Three slots, each with an original and three functions of its own to    *)
(* redirect it to, and up to three entries, several for one slot included. *)
(***************************************************************************)
EXTENDS VTablePatch

MCSlots == 1 .. 3
MCFnsFor == [s \in Slots |-> {10 * s + 1, 10 * s + 2, 10 * s + 3}]
MCOriginalFn == [s \in Slots |-> 10 * s]

=============================================================================
