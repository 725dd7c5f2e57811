----------------------------- MODULE ModuleDiff -----------------------------
(***************************************************************************)
(* hotdiff (src/tools/hotdiff/diff.cpp): compares two modules function by  *)
(* function, by name, and lists what a patch has to change.                *)
(***************************************************************************)
EXTENDS SequencesExt

Names(mod) == {mod.functions[k].name : k \in DOMAIN mod.functions}

\* old_funcs[name], new_funcs[name]: of two functions of one name the last.
Named(mod, name) ==
    mod.functions[CHOOSE k \in DOMAIN mod.functions :
                     /\ mod.functions[k].name = name
                     /\ \A j \in DOMAIN mod.functions : mod.functions[j].name = name => j <= k]

\* Mutant of FunctionsEqual: the lengths are compared, not the instructions.
FunctionsEqualLength(a, b) ==
    /\ Len(a.code) = Len(b.code)
    /\ Len(a.param_kinds) = Len(b.param_kinds)
    /\ a.ret_kind = b.ret_kind

\* Kinds of parameters, number of registers and unwind entries do not count.
FunctionsEqual(a, b) ==
    /\ a.code = b.code
    /\ Len(a.param_kinds) = Len(b.param_kinds)
    /\ a.ret_kind = b.ret_kind

\* What ModuleHash goes by.
ModuleHash(mod) ==
    [k \in DOMAIN mod.functions |-> <<mod.functions[k].name, Len(mod.functions[k].code)>>]

RemovedEntry(old, name, none) ==
    [action |-> "kRemoved", func_name |-> name, func_id |-> Named(old, name).func_id,
     new_func |-> none]

\* The function keeps the old module's id; the ids that its code calls are the
\* new module's.
ModifiedEntry(old, new, name) ==
    LET id == Named(old, name).func_id
    IN  [action |-> "kModified", func_name |-> name, func_id |-> id,
         new_func |-> [Named(new, name) EXCEPT !.func_id = id]]

AddedEntry(new, name) ==
    [action |-> "kAdded", func_name |-> name, func_id |-> Named(new, name).func_id,
     new_func |-> Named(new, name)]

\* The manifests Diff may return: the maps are walked in any order, the old
\* functions before the added ones.
Diff(old, new, none) ==
    LET removed  == Names(old) \ Names(new)
        modified == {n \in Names(old) \cap Names(new) :
                        ~ FunctionsEqual(Named(old, n), Named(new, n))}
        gone    == {RemovedEntry(old, n, none) : n \in removed}
        changed == {ModifiedEntry(old, new, n) : n \in modified}
        added   == {AddedEntry(new, n) : n \in Names(new) \ Names(old)}
    IN  {[version |-> 1, base_version_hash |-> ModuleHash(old), entries |-> lists[1] \o lists[2]] :
            lists \in SetToSeqs(gone \cup changed) \X SetToSeqs(added)}

=============================================================================
