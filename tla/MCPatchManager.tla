--------------------------- MODULE MCPatchManager ---------------------------
(***************************************************************************)
(* Two functions, two slots, two bodies, up to two patches of up to two    *)
(* entries each: modified, added and removed mixed, the same function      *)
(* twice included.                                                         *)
(***************************************************************************)
EXTENDS PatchManager, TLC

CONSTANTS base, patched

MCFuncIds == {0, 1}
MCSigOf == [b \in Bodies |-> CHOOSE s \in Sigs : TRUE]
MCBaseBodies == {base}

Entry(action, f) == [action |-> action, func_id |-> f, body |-> patched]
Entries == {Entry(a, f) : a \in {kModified, kAdded, kRemoved}, f \in FuncIds}

\* Every single entry; of the pairs, those that mix two functions in either
\* vector's favour and those that treat one function twice.
MCManifests ==
    {<<e>> : e \in Entries}
    \cup {<<Entry(a, 0), Entry(kModified, 1)>> : a \in {kModified, kAdded, kRemoved}}
    \cup {<<Entry(kModified, 0), Entry(a, 0)>> : a \in {kModified, kRemoved}}
    \cup {<<Entry(kRemoved, 1), Entry(a, 1)>> : a \in {kModified, kAdded}}

=============================================================================
