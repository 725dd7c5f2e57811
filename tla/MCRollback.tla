----------------------------- MODULE MCRollback -----------------------------
(***************************************************************************)
(* PatchManager without the restriction on patches, on the smallest patch  *)
(* whose rollback is not an undo: a function that has a wrapper and no     *)
(* bytecode is modified, as in the README's example.                       *)
(***************************************************************************)
EXTENDS PatchUndo, TLC

CONSTANTS base, mul

OneFunction == {0}
OneSigOf == [b \in Bodies |-> CHOOSE s \in Sigs : TRUE]
NoBodies == {}

Entry(action, f) == [action |-> action, func_id |-> f, body |-> mul]
MCNativeFirst == {<<Entry(kModified, 0)>>}

=============================================================================
