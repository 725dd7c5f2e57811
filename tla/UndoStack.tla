------------------------------ MODULE UndoStack -----------------------------
(***************************************************************************)
(* What applying and rolling back patches promises: every change pushes    *)
(* the previous values of what it touches, and undoing the last change     *)
(* puts exactly those back.  A change takes effect when it ends, an undo   *)
(* when it begins; while either is under way nothing else happens.  While  *)
(* none is, single items may be set from outside.                          *)
(***************************************************************************)
EXTENDS Sequences, Integers

CONSTANT Items

VARIABLES
    live,       \* the value of every item
    undo,       \* one map per change: touched item -> previous value
    phase       \* "quiet", "changing" or "undoing"

undoVars == <<live, undo, phase>>

UndoInit == undo = <<>> /\ phase = "quiet"

BeginChange ==
    /\ phase = "quiet" /\ phase' = "changing"
    /\ UNCHANGED <<live, undo>>

\* The change touches the items in S, whatever their new values are.
EndChange(S) ==
    /\ phase = "changing" /\ phase' = "quiet"
    /\ \A k \in Items \ S : live'[k] = live[k]
    /\ undo' = Append(undo, [k \in S |-> live[k]])

BeginUndo ==
    /\ phase = "quiet" /\ phase' = "undoing"
    /\ undo # <<>>
    /\ LET saved == undo[Len(undo)]
       IN  live' = [k \in Items |-> IF k \in DOMAIN saved THEN saved[k] ELSE live[k]]
    /\ undo' = SubSeq(undo, 1, Len(undo) - 1)

EndUndo ==
    /\ phase = "undoing" /\ phase' = "quiet"
    /\ UNCHANGED <<live, undo>>

SetOutside(k) ==
    /\ phase = "quiet"
    /\ \A j \in Items \ {k} : live'[j] = live[j]
    /\ UNCHANGED <<undo, phase>>

UndoNext ==
    \/ BeginChange
    \/ \E S \in SUBSET Items : EndChange(S)
    \/ BeginUndo
    \/ EndUndo
    \/ \E k \in Items : SetOutside(k)

UndoSpec == UndoInit /\ [][UndoNext]_undoVars

=============================================================================
