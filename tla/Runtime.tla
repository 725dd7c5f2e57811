------------------------------- MODULE Runtime ------------------------------
(***************************************************************************)
(* The Runtime singleton (src/runtime/runtime.cpp): the wrapper table, the *)
(* dispatch table FuncId -> WrapperId and the interpreter's function map.  *)
(* The actions are its operations; PatchManager drives them.               *)
(***************************************************************************)
EXTENDS WrapperTable, Maps

VARIABLES
    dispatch_table,     \* Runtime::dispatch_table_
    functions           \* Interpreter::functions_, id -> body

runtimeVars == <<in_use, bind_info, next_free, alloc_count,
                 dispatch_table, functions>>

RuntimeTypeOK ==
    /\ TableTypeOK
    /\ dispatch_table \in MapsOf(FuncIds, WrapperIds \cup {kInvalidWrapperId})
    /\ functions \in MapsOf(FuncIds, Bodies)

RuntimeInit ==
    /\ TableInit
    /\ dispatch_table = EmptyMap
    /\ functions = EmptyMap

-----------------------------------------------------------------------------

\* The wrapper the dispatch table gives for f; the invalid id when it has none.
GetWrapperForFunc(f) ==
    IF f \in DOMAIN dispatch_table THEN dispatch_table[f] ELSE kInvalidWrapperId

NativeBind(f, fn, sig) ==
    [func_id |-> f, mode |-> kNative, sig |-> sig, native_fn |-> fn]

\* A second registration of f takes another slot and re-points the dispatch
\* entry; with no slot left the entry is kept.
RegisterNativeFunction(f, fn, sig) ==
    /\ Alloc(NativeBind(f, fn, sig))
    /\ dispatch_table' = IF AllocResult # kInvalidWrapperId
                         THEN Put(dispatch_table, f, AllocResult)
                         ELSE dispatch_table
    /\ UNCHANGED functions

\* Interpreter::RegisterFunction: the map entry is overwritten.
RegisterFunction(f, body) == functions' = Put(functions, f, body)

UnregisterFunction(f) == functions' = Erase(functions, f)

RegisterVmFunction(f, body) ==
    /\ RegisterFunction(f, body)
    /\ UNCHANGED <<tableVars, dispatch_table>>

SetDispatchEntry(f, wid) == dispatch_table' = Put(dispatch_table, f, wid)

-----------------------------------------------------------------------------

\* What a call through wrapper w does now (AdapterDispatch, NativeForward).
Ignored    == [does |-> "ignored"]
Throws     == [does |-> "throws"]
Native(fn) == [does |-> "native", fn |-> fn]
InVm(body) == [does |-> "vm", body |-> body]

AdapterDispatch(w) ==
    LET bind == bind_info[w]
    IN  CASE w \notin UsedSlots -> Ignored
          [] w \in UsedSlots /\ bind.mode = kNative ->
                IF bind.native_fn = nullptr THEN Ignored ELSE Native(bind.native_fn)
          [] w \in UsedSlots /\ bind.mode = kVM ->
                IF bind.func_id \in DOMAIN functions
                THEN InVm(functions[bind.func_id]) ELSE Throws

\* What the CALL instruction does with target f now (Interpreter::DispatchCall):
\* bytecode first, the wrapper's native function next.  It does not look at in_use.
DispatchCall(f) ==
    LET wid == GetWrapperForFunc(f)
    IN  IF f \in DOMAIN functions THEN InVm(functions[f])
        ELSE IF /\ wid # kInvalidWrapperId
                /\ bind_info[wid].mode = kNative
                /\ bind_info[wid].native_fn # nullptr
             THEN Native(bind_info[wid].native_fn)
             ELSE Throws

=============================================================================
