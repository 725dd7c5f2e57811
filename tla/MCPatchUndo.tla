----------------------------- MODULE MCPatchUndo ----------------------------
(***************************************************************************)
(* Two functions, two slots and up to two stacked patches: modified and    *)
(* removed functions in one or two entries, to either of two bodies with   *)
(* different signatures.                                                   *)
(***************************************************************************)
EXTENDS FunctionPatch, TLC

CONSTANTS base, mul, sub, two_args, one_arg

MCFuncIds == {0, 1}
MCSigOf == (base :> two_args) @@ (mul :> two_args) @@ (sub :> one_arg)
MCBaseBodies == {base}

Entry(action, f, body) == [action |-> action, func_id |-> f, body |-> body]
Modify(b) == {Entry(kModified, f, b) : f \in FuncIds}
Remove    == {Entry(kRemoved, f, base) : f \in FuncIds}
MCManifests ==
    {<<e>> : e \in Modify(mul) \cup Modify(sub) \cup Remove}
    \cup {<<d, e>> : d \in Modify(mul), e \in Modify(sub) \cup Remove}

=============================================================================
