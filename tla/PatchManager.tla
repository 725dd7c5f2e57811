---------------------------- MODULE PatchManager ----------------------------
(***************************************************************************)
(* PatchManager::ApplyPatch and Rollback (src/patch/patch_manager.cpp)     *)
(* over the runtime.  Neither holds a lock, so callers of the wrappers see *)
(* a patch half applied: a step here is one manifest entry, one restored   *)
(* bytecode or one restored binding, and the vector record under           *)
(* construction is part of the state.  One thread patches at a time; the   *)
(* program registers functions while no patch is in progress.              *)
(***************************************************************************)
EXTENDS Runtime, Sequences

CONSTANTS
    Manifests,          \* the patches that may be applied, sequences of entries
    BaseBodies,         \* the bodies the program itself registers
    MaxPatches          \* bound on the number of applied patches

kModified == "kModified"
kAdded    == "kAdded"
kRemoved  == "kRemoved"

\* entry.new_func.func_id equals entry.func_id in every manifest the diff tool
\* writes (tools/hotdiff/diff.cpp:62); body is unused when action is kRemoved.
PatchEntry == [action : {kModified, kAdded, kRemoved},
               func_id : FuncIds, body : Bodies]

ASSUME PatchManagerAssumption ==
    /\ Manifests \subseteq Seq(PatchEntry)
    /\ BaseBodies \subseteq Bodies
    /\ MaxPatches \in Nat

VARIABLES
    history,            \* history_
    current_version,    \* current_version_
    pc,                 \* where the patching thread is
    todo,               \* manifest entries ApplyPatch has still to handle
    record,             \* ApplyPatch's local PatchRecord
    cursor              \* index of the loop Rollback is in

patchVars == <<history, current_version, pc, todo, record, cursor>>
vars == <<in_use, bind_info, next_free, alloc_count, dispatch_table, functions,
          history, current_version, pc, todo, record, cursor>>

PatchRecord == [version : Nat,
                modified_funcs : Seq(FuncIds),
                old_bytecodes : Seq(VmFunction),
                old_binds : Seq(BindInfo)]

NewRecord(v) == [version |-> v, modified_funcs |-> <<>>,
                 old_bytecodes |-> <<>>, old_binds |-> <<>>]

NoRecord == NewRecord(0)

TypeOK ==
    /\ RuntimeTypeOK
    /\ history \in Seq(PatchRecord)
    /\ current_version \in Nat
    /\ pc \in {"idle", "apply", "restore_code", "restore_binds"}
    /\ todo \in Seq(PatchEntry)
    /\ record \in PatchRecord
    /\ cursor \in Nat \ {0}

Init ==
    /\ RuntimeInit
    /\ history = <<>>
    /\ current_version = 0
    /\ pc = "idle"
    /\ todo = <<>>
    /\ record = NoRecord
    /\ cursor = 1

-----------------------------------------------------------------------------
(* The program's own registrations. *)

ProgramRegistersNative ==
    /\ pc = "idle"
    /\ \E f \in FuncIds, fn \in NativeFns, sig \in Sigs : RegisterNativeFunction(f, fn, sig)
    /\ UNCHANGED patchVars

ProgramRegistersVm ==
    /\ pc = "idle"
    /\ \E f \in FuncIds, body \in BaseBodies : RegisterVmFunction(f, body)
    /\ UNCHANGED patchVars

-----------------------------------------------------------------------------
(* ApplyPatch *)

ApplyBegin ==
    /\ pc = "idle"
    /\ Len(history) < MaxPatches
    /\ pc' = "apply"
    /\ todo' \in Manifests
    /\ current_version' = current_version + 1
    /\ record' = NewRecord(current_version')
    /\ UNCHANGED <<runtimeVars, history, cursor>>

\* The entry the loop of ApplyPatch is at.
AtEntry(action) == pc = "apply" /\ todo # <<>> /\ Head(todo).action = action

NextEntry == todo' = Tail(todo) /\ UNCHANGED <<history, current_version, pc, cursor>>

\* Mutant of SaveBytecode: nothing is saved.
SaveNothing(rec, f) == rec

\* record with f's bytecode saved, which the code does only if f has any.
SaveBytecode(rec, f) ==
    IF f \in DOMAIN functions
    THEN [rec EXCEPT
            !.modified_funcs = Append(@, f),
            !.old_bytecodes = Append(@, [func_id |-> f, body |-> functions[f]])]
    ELSE rec

\* record with wrapper wid's binding saved, only if there is a wrapper.
SaveBind(rec, wid) ==
    IF wid \in WrapperIds
    THEN [rec EXCEPT !.old_binds = Append(@, bind_info[wid])]
    ELSE rec

\* Mutant of ApplyModified: bytecode is registered only where there was some.
ApplyModifiedKnown ==
    /\ AtEntry(kModified)
    /\ LET f    == Head(todo).func_id
           body == Head(todo).body
           wid  == GetWrapperForFunc(f)
       IN  /\ record' = SaveBind(SaveBytecode(record, f), wid)
           /\ IF f \in DOMAIN functions THEN RegisterFunction(f, body) ELSE UNCHANGED functions
           /\ Rebind(wid, VmBind(f, body))
    /\ NextEntry
    /\ UNCHANGED dispatch_table

\* Mutant of ApplyModified: a wrapper that is in VM mode already is left alone.
ApplyModifiedOnce ==
    /\ AtEntry(kModified)
    /\ LET f    == Head(todo).func_id
           body == Head(todo).body
           wid  == GetWrapperForFunc(f)
       IN  /\ record' = SaveBind(SaveBytecode(record, f), wid)
           /\ RegisterFunction(f, body)
           /\ IF wid \in WrapperIds /\ bind_info[wid].mode = kVM THEN UNCHANGED tableVars
              ELSE Rebind(wid, VmBind(f, body))
    /\ NextEntry
    /\ UNCHANGED dispatch_table

ApplyModified ==
    /\ AtEntry(kModified)
    /\ LET f    == Head(todo).func_id
           body == Head(todo).body
           wid  == GetWrapperForFunc(f)
       IN  /\ record' = SaveBind(SaveBytecode(record, f), wid)
           /\ RegisterFunction(f, body)
           /\ Rebind(wid, VmBind(f, body))
    /\ NextEntry
    /\ UNCHANGED dispatch_table

\* The dispatch entry is set to whatever AllocWrapper returned, the invalid id
\* included, and nothing is saved about what f was before.
ApplyAdded ==
    /\ AtEntry(kAdded)
    /\ LET f    == Head(todo).func_id
           body == Head(todo).body
       IN  /\ RegisterFunction(f, body)
           /\ Alloc(VmBind(f, body))
           /\ SetDispatchEntry(f, AllocResult)
           /\ record' = [record EXCEPT !.modified_funcs = Append(@, f)]
    /\ NextEntry

ApplyRemoved ==
    /\ AtEntry(kRemoved)
    /\ LET f == Head(todo).func_id
       IN  /\ record' = SaveBytecode(record, f)
           /\ UnregisterFunction(f)
    /\ NextEntry
    /\ UNCHANGED <<tableVars, dispatch_table>>

ApplyEnd ==
    /\ pc = "apply" /\ todo = <<>>
    /\ history' = Append(history, record)
    /\ record' = NoRecord
    /\ pc' = "idle"
    /\ UNCHANGED <<runtimeVars, current_version, todo, cursor>>

-----------------------------------------------------------------------------
(* Rollback *)

Top == history[Len(history)]

RollbackBegin ==
    /\ pc = "idle"
    /\ history # <<>>
    /\ pc' = "restore_code"
    /\ UNCHANGED <<runtimeVars, history, current_version, todo, record, cursor>>

\* Mutant of RestoreBytecode: the last saved bytecode is not restored.
RestoreBytecodeShort ==
    /\ pc = "restore_code"
    /\ IF cursor < Len(Top.old_bytecodes)
       THEN /\ LET old == Top.old_bytecodes[cursor]
               IN  RegisterFunction(old.func_id, old.body)
            /\ cursor' = cursor + 1
            /\ UNCHANGED pc
       ELSE /\ pc' = "restore_binds"
            /\ cursor' = 1
            /\ UNCHANGED functions
    /\ UNCHANGED <<tableVars, dispatch_table, history, current_version, todo, record>>

RestoreBytecode ==
    /\ pc = "restore_code"
    /\ IF cursor <= Len(Top.old_bytecodes)
       THEN /\ LET old == Top.old_bytecodes[cursor]
               IN  RegisterFunction(old.func_id, old.body)
            /\ cursor' = cursor + 1
            /\ UNCHANGED pc
       ELSE /\ pc' = "restore_binds"
            /\ cursor' = 1
            /\ UNCHANGED functions
    /\ UNCHANGED <<tableVars, dispatch_table, history, current_version, todo, record>>

\* The loop pairs modified_funcs[i] with old_binds[i] and stops at the shorter.
MoreBinds == cursor <= Len(Top.modified_funcs) /\ cursor <= Len(Top.old_binds)

\* Mutant of RestoreBind: the bindings are restored in the opposite order.
RestoreBindReversed ==
    /\ pc = "restore_binds" /\ MoreBinds
    /\ Rebind(GetWrapperForFunc(Top.modified_funcs[cursor]),
              Top.old_binds[Len(Top.old_binds) + 1 - cursor])
    /\ cursor' = cursor + 1
    /\ UNCHANGED <<dispatch_table, functions, history, current_version, pc, todo, record>>

RestoreBind ==
    /\ pc = "restore_binds" /\ MoreBinds
    /\ Rebind(GetWrapperForFunc(Top.modified_funcs[cursor]), Top.old_binds[cursor])
    /\ cursor' = cursor + 1
    /\ UNCHANGED <<dispatch_table, functions, history, current_version, pc, todo, record>>

\* Mutants of RollbackEnd: the version is not taken back; the index is not reset.
RollbackKeepsVersion ==
    /\ pc = "restore_binds" /\ ~ MoreBinds
    /\ history' = SubSeq(history, 1, Len(history) - 1)
    /\ pc' = "idle"
    /\ cursor' = 1
    /\ UNCHANGED <<runtimeVars, current_version, todo, record>>

RollbackKeepsCursor ==
    /\ pc = "restore_binds" /\ ~ MoreBinds
    /\ history' = SubSeq(history, 1, Len(history) - 1)
    /\ current_version' = current_version - 1
    /\ pc' = "idle"
    /\ UNCHANGED <<runtimeVars, todo, record, cursor>>

RollbackEnd ==
    /\ pc = "restore_binds" /\ ~ MoreBinds
    /\ history' = SubSeq(history, 1, Len(history) - 1)
    /\ current_version' = current_version - 1
    /\ pc' = "idle"
    /\ cursor' = 1
    /\ UNCHANGED <<runtimeVars, todo, record>>

-----------------------------------------------------------------------------

Next ==
    \/ ProgramRegistersNative
    \/ ProgramRegistersVm
    \/ ApplyBegin
    \/ ApplyModified
    \/ ApplyAdded
    \/ ApplyRemoved
    \/ ApplyEnd
    \/ RollbackBegin
    \/ RestoreBytecode
    \/ RestoreBind
    \/ RollbackEnd

Spec == Init /\ [][Next]_vars

-----------------------------------------------------------------------------
(* What holds of any program and any manifests. *)

\* current_version_ counts the applied patches (patch_manager.h:26,43), the
\* one being applied included, and every undo record carries the version its
\* patch made.
VersionIsDepth ==
    /\ current_version = Len(history) + (IF pc = "apply" THEN 1 ELSE 0)
    /\ \A i \in 1 .. Len(history) : history[i].version = i

\* The dispatch table never sends two functions to one wrapper, and a valid
\* entry names a slot that is in use: rebinding one function's wrapper while
\* patching cannot redirect another's.
DispatchSound ==
    /\ \A f \in DOMAIN dispatch_table :
          dispatch_table[f] \in UsedSlots \cup {kInvalidWrapperId}
    /\ \A f, g \in DOMAIN dispatch_table :
          dispatch_table[f] = dispatch_table[g] /\ dispatch_table[f] # kInvalidWrapperId
             => f = g

\* The functions whose bytecode an undo record holds.
SavedIn(rec) ==
    {rec.old_bytecodes[i].func_id : i \in 1 .. Len(rec.old_bytecodes)}

\* The functions whose bytecode is live, or in an undo record.
Recoverable ==
    DOMAIN functions \cup SavedIn(record)
                     \cup UNION {SavedIn(history[i]) : i \in 1 .. Len(history)}

\* ApplyPatch and Rollback lose no function: one that ever had bytecode has it
\* now or in an undo record, in the middle of either operation too.  The old
\* VmFunction is copied before RegisterFunction or UnregisterFunction destroys
\* it, and a record is popped only when all it holds is live again.
RecoverableGrows == [][Recoverable \subseteq Recoverable']_vars

\* A call through a wrapper in VM mode finds bytecode, or the function was
\* taken away by a patch whose undo record still holds it: "VM function not
\* found" (interpreter.cpp:39) is never the fate of a function that was merely
\* modified, added or rolled back.
VmBindRecoverable ==
    \A w \in UsedSlots :
       bind_info[w].mode = kVM => bind_info[w].func_id \in Recoverable

\* No call through an allocated wrapper is silently dropped: NativeForward's
\* null test (runtime.cpp:142) never fires, whatever bindings patches and
\* rollbacks have moved around.
NoCallDropped == \A w \in UsedSlots : AdapterDispatch(w) # Ignored

-----------------------------------------------------------------------------
(* What holds while the two vectors of every undo record are in step. *)

\* The bindings that Rollback pairs with functions are theirs.
InStep(rec) ==
    \A i \in DOMAIN rec.modified_funcs \cap DOMAIN rec.old_binds :
        rec.old_binds[i].func_id = rec.modified_funcs[i]

RecordsInStep == InStep(record) /\ \A n \in DOMAIN history : InStep(history[n])

HasWrapper(f) == GetWrapperForFunc(f) \in WrapperIds

\* A wrapper found through the dispatch table is bound to the function it was
\* found for: a call of f never runs g (patch_manager.cpp:110 "Restore old
\* bind infos").
BoundToItsFunction ==
    \A f \in FuncIds : HasWrapper(f) => bind_info[GetWrapperForFunc(f)].func_id = f

-----------------------------------------------------------------------------
(* The inductive invariant behind the properties above. *)

\* The record of the n-th patch, the one being applied included.
Layers == 1 .. Len(history) + 1
Layer(n) == IF n <= Len(history) THEN history[n] ELSE record

\* Outside ApplyPatch there is no record under construction, a rollback has a
\* record to roll back and starts at its first element.
NothingOpen ==
    /\ pc # "apply" => record = NoRecord
    /\ pc = "apply" => record.version = current_version
    /\ pc \in {"restore_code", "restore_binds"} => history # <<>>
    /\ pc \in {"idle", "apply"} => cursor = 1

\* The bytecodes that Rollback has passed are live; all of them, once it is at
\* the bindings.  So popping the record loses none.
RestoredSoFar ==
    pc \in {"restore_code", "restore_binds"} =>
       \A i \in 1 .. Len(Top.old_bytecodes) :
          i < cursor \/ pc = "restore_binds"
             => Top.old_bytecodes[i].func_id \in DOMAIN functions

\* What every binding must satisfy to be dispatched on.
UsableBind(bind) ==
    /\ bind.mode = kVM => bind.func_id \in Recoverable
    /\ bind.mode = kNative => bind.native_fn # nullptr

\* It holds of the bindings in place and of the saved ones, which a rollback
\* may put in place of any wrapper's.
BindsUsable ==
    /\ \A w \in UsedSlots : UsableBind(bind_info[w])
    /\ \A i \in 1 .. Len(record.old_binds) : UsableBind(record.old_binds[i])
    /\ \A n \in 1 .. Len(history) : \A i \in 1 .. Len(history[n].old_binds) :
          UsableBind(history[n].old_binds[i])

\* The conjunction that every step preserves; the properties above follow.
IInv ==
    /\ TypeOK
    /\ CountIsExact
    /\ VersionIsDepth
    /\ DispatchSound
    /\ NothingOpen
    /\ RestoredSoFar
    /\ BindsUsable

=============================================================================
