---------------------------- MODULE FunctionPatch ---------------------------
(***************************************************************************)
(* The function patch table (src/patch/function_patch.cpp) beside the      *)
(* patch manager: it remembers the binding of a wrapper that a program is  *)
(* about to redirect, and puts it back.  Both rebind the same wrappers, so *)
(* the answer to "when is a rollback an undo?" has a second half: a        *)
(* redirection and a patch must be nested.                                 *)
(***************************************************************************)
EXTENDS PatchUndo

VARIABLE entries        \* entries_: function -> what Unpatch will restore

\* made_at is the version at which the entry was made; the code has no such
\* field, and the program has to know.
NoEntries == EmptyMap

functionPatchVars == <<in_use, bind_info, next_free, alloc_count, dispatch_table, functions,
                       history, current_version, pc, todo, record, cursor, entries>>

IsPatched(f) == f \in DOMAIN entries

\* Mutant of Patch: the entry's binding is left as it was made.
PatchSavesNothing(f, wid) ==
    /\ entries' = IF wid \in UsedSlots
                  THEN Put(entries, f, [wrapper_id |-> wid, original_bind |-> DefaultBind,
                                        made_at |-> current_version])
                  ELSE entries
    /\ UNCHANGED vars

\* An earlier entry of the function is overwritten.
Patch(f, wid) ==
    /\ entries' = IF wid \in UsedSlots
                  THEN Put(entries, f, [wrapper_id |-> wid, original_bind |-> bind_info[wid],
                                        made_at |-> current_version])
                  ELSE entries
    /\ UNCHANGED vars

Unpatch(f) ==
    /\ IsPatched(f)
    /\ Rebind(entries[f].wrapper_id, entries[f].original_bind)
    /\ entries' = Erase(entries, f)
    /\ UNCHANGED <<dispatch_table, functions, patchVars>>

-----------------------------------------------------------------------------
(* A careful program: it saves before it redirects, and once; it puts back *)
(* at the version at which it saved; it does not roll back below that; and *)
(* it registers no redirected function anew, whose redirection a rollback  *)
(* would otherwise put into the new wrapper.                               *)

ProgramPatches(f) == pc = "idle" /\ ~ IsPatched(f) /\ Patch(f, GetWrapperForFunc(f))

\* Its call of RebindWrapper: f runs its bytecode from now on.
ProgramRedirects(f) ==
    /\ pc = "idle" /\ IsPatched(f) /\ HasBytecode(f)
    /\ Rebind(entries[f].wrapper_id, VmBind(f, functions[f]))
    /\ UNCHANGED <<dispatch_table, functions, patchVars, entries>>

ProgramUnpatches(f) ==
    /\ pc = "idle" /\ IsPatched(f) /\ entries[f].made_at = current_version
    /\ Unpatch(f)

\* A step that begins a rollback leaves no entry behind.
OnlyNested ==
    pc = "idle" /\ pc' = "restore_code" =>
        \A f \in DOMAIN entries : entries[f].made_at < current_version

SameWrappers ==
    \A f \in DOMAIN entries : GetWrapperForFunc(f)' = entries[f].wrapper_id

CarefulInit == Init /\ entries = NoEntries

CarefulNext ==
    \/ Next /\ OnlyUndoable /\ OnlyNested /\ SameWrappers /\ UNCHANGED entries
    \/ \E f \in FuncIds : ProgramPatches(f) \/ ProgramRedirects(f) \/ ProgramUnpatches(f)

CarefulSpec == CarefulInit /\ [][CarefulNext]_functionPatchVars

-----------------------------------------------------------------------------

\* At version 0 with every redirection taken back the program is the original
\* one, whatever patches were applied and rolled back over and under the
\* redirections (function_patch.h:17 "Unpatch: restore original binding").
UnpatchedIsOriginal == entries = NoEntries => VersionZeroIsOriginal

-----------------------------------------------------------------------------
(* The inductive invariants, beside IInv and UndoInv. *)

FunctionEntry == [wrapper_id : WrapperIds, original_bind : BindInfo, made_at : Nat]

\* The version that a rollback in progress goes back to.
SafeVersion ==
    IF pc \in {"restore_code", "restore_binds"} THEN Len(history) - 1 ELSE Len(history)

\* An entry holds a binding of its function, for the wrapper it still has, and
\* was made at a version that is not being rolled back.
EntriesOwn ==
    /\ DOMAIN entries \subseteq FuncIds /\ entries \in [DOMAIN entries -> FunctionEntry]
    /\ \A f \in DOMAIN entries :
          /\ entries[f].wrapper_id = GetWrapperForFunc(f)
          /\ entries[f].original_bind.func_id = f
          /\ UsableBind(entries[f].original_bind)
          /\ entries[f].made_at <= SafeVersion

\* What a program registers.
OriginalBind(bind) == bind.mode = kNative /\ bind.native_fn \in NativeFns

SavesBind(rec, f) == \E i \in DOMAIN rec.old_binds : rec.old_binds[i].func_id = f
SavesCode(rec, f) == \E i \in DOMAIN rec.old_bytecodes : rec.old_bytecodes[i].func_id = f

\* A binding that f had at version v is the program's, or was put over one that
\* a record or an entry of v or before holds; its bytecode likewise.
UnderPatch(f, v) == \E m \in Layers : m <= v /\ SavesBind(Layer(m), f)
UnderEntry(f, v) == f \in DOMAIN entries /\ entries[f].made_at <= v

BindFounded(f, bind, v) == OriginalBind(bind) \/ UnderPatch(f, v) \/ UnderEntry(f, v)

CodeFounded(f, body, v) ==
    body \in BaseBodies \/ \E m \in Layers : m <= v /\ SavesCode(Layer(m), f)

\* Under everything lies what the program registered.
OriginalsFounded ==
    /\ \A n \in Layers :
          /\ \A i \in DOMAIN Layer(n).old_binds :
                LET old == Layer(n).old_binds[i] IN BindFounded(old.func_id, old, n - 1)
          /\ \A i \in DOMAIN Layer(n).old_bytecodes :
                LET old == Layer(n).old_bytecodes[i] IN CodeFounded(old.func_id, old.body, n - 1)
    /\ \A f \in DOMAIN entries :
          \/ OriginalBind(entries[f].original_bind)
          \/ UnderPatch(f, entries[f].made_at)
    /\ \A f \in FuncIds :
          HasWrapper(f) => BindFounded(f, bind_info[GetWrapperForFunc(f)], Len(history) + 1)
    /\ \A f \in DOMAIN functions : CodeFounded(f, functions[f], Len(history) + 1)

CarefulInv == UndoInv /\ EntriesOwn /\ OriginalsFounded

=============================================================================
