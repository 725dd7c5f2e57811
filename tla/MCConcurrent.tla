---------------------------- MODULE MCConcurrent ----------------------------
(***************************************************************************)
(* A caller against one patching thread.  MCModified: patches that modify  *)
(* one of two functions or add the other; MCModifyOne: the one function.   *)
(***************************************************************************)
EXTENDS ConcurrentDispatch, TLC

CONSTANTS base, mul

OneFunction == {0}
TwoFunctions == {0, 1}
OnlyBase == {base}
OneSigOf == [b \in Bodies |-> CHOOSE s \in Sigs : TRUE]

Entry(action, f, body) == [action |-> action, func_id |-> f, body |-> body]
MCModified == {<<Entry(kModified, 0, mul)>>, <<Entry(kAdded, 1, mul)>>}
MCModifyOne == {<<Entry(kModified, 0, mul)>>}

=============================================================================
