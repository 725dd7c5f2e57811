------------------------- MODULE ConcurrentDispatch -------------------------
(***************************************************************************)
(* Threads calling through wrappers while another thread patches.          *)
(*                                                                         *)
(* AdapterDispatch (runtime.cpp:81-131) takes no lock: it reads the fields *)
(* of a BindInfo one by one, looks the function up, and then runs the      *)
(* bytecode in place, through a pointer into Interpreter::functions_.      *)
(* RebindWrapper's lock does not stop it, so the struct assignment in      *)
(* WrapperTable::Rebind is seen field by field, in any order.  A CALL      *)
(* instruction to a function without bytecode does take the lock, twice,   *)
(* and waits while such an assignment is under way.                        *)
(*                                                                         *)
(* The patching thread is PatchManager's.  bind_info is what its           *)
(* assignments amount to; stored is what the slots' memory holds, which    *)
(* catches up with bind_info one field at a time.  A registration fills a  *)
(* slot before anybody can hold its id, so its fields are written at once. *)
(***************************************************************************)
EXTENDS PatchManager

CONSTANTS
    Callers,            \* threads that call through wrappers
    CodeLen             \* instructions a call runs, those of nested calls included

ASSUME ConcurrentAssumption == CodeLen \in Nat \ {0}

VARIABLES
    stored,             \* the slots' memory: wrapper -> BindInfo
    call                \* what each caller is doing

allVars == <<in_use, bind_info, next_free, alloc_count, dispatch_table, functions,
             history, current_version, pc, todo, record, cursor, stored, call>>

\* A caller outside AdapterDispatch, with how its last call ended.
Out(ended) == [at |-> "out", ended |-> ended]

\* A caller inside, at the next thing it will read.
In(at, w) == [at |-> at, w |-> w]

\* A caller whose VM frame runs func: `left` instructions to go.
Frame(w, func, left) == [at |-> "running", w |-> w, func |-> func, left |-> left]

\* A frame suspended in DispatchCall: looking for the target of its CALL, and
\* then at the target's wrapper.
Suspended(at, c, target) ==
    [at |-> at, w |-> c.w, func |-> c.func, left |-> c.left,
     target |-> target, torn |-> FALSE]

AtWrapper(at, c, wid) ==
    [at |-> at, w |-> c.w, func |-> c.func, left |-> c.left, wid |-> wid]

ConcurrentInit ==
    /\ Init
    /\ stored = bind_info
    /\ call = [t \in Callers |-> Out("nothing")]

-----------------------------------------------------------------------------
(* The patching thread. *)

WriteComplete == stored = bind_info

\* An insertion or an erasure relinks the buckets that a find is walking.
Tear(c) ==
    IF c.at \in {"probing", "searching"} /\ DOMAIN functions' # DOMAIN functions
    THEN [c EXCEPT !.torn = TRUE]
    ELSE c

PatcherStep ==
    /\ WriteComplete
    /\ Next
    /\ stored' = [w \in WrapperIds |-> IF in_use[w] THEN stored[w] ELSE bind_info'[w]]
    /\ call' = [t \in Callers |-> Tear(call[t])]

\* The assignment bind_info = bind reaches the memory one field at a time, under
\* the runtime's lock.
WriteField ==
    /\ \E w \in WrapperIds, field \in {"func_id", "mode", "sig", "native_fn"} :
          /\ stored[w][field] # bind_info[w][field]
          /\ stored' = [stored EXCEPT ![w][field] = bind_info[w][field]]
    /\ UNCHANGED <<vars, call>>

-----------------------------------------------------------------------------
(* A caller's way through AdapterDispatch. *)

Goes(t, c) == call' = [call EXCEPT ![t] = c] /\ UNCHANGED <<vars, stored>>

\* The stub of any allocated wrapper is called.
Enter(t) ==
    /\ call[t].at = "out"
    /\ \E w \in UsedSlots : Goes(t, In("mode", w))

ReadMode(t) ==
    /\ call[t].at = "mode"
    /\ LET w == call[t].w
       IN  IF stored[w].mode = kNative
           THEN Goes(t, In("null_test", w))
           ELSE Goes(t, In("lookup", w))

\* if (!bind.native_fn) return;
NullTest(t) ==
    /\ call[t].at = "null_test"
    /\ LET w == call[t].w
       IN  IF stored[w].native_fn = nullptr
           THEN Goes(t, Out("dropped"))
           ELSE Goes(t, [at |-> "jump", w |-> w, fn |-> stored[w].native_fn])

\* The compiler may reuse the pointer it tested, or load it again.
JumpNative(t) ==
    /\ call[t].at = "jump"
    /\ \E fn \in {call[t].fn, stored[call[t].w].native_fn} :
          Goes(t, Out(IF fn = nullptr THEN "null_jump" ELSE "native"))

\* Execute looks the function up in the map by the id it reads now.
Lookup(t) ==
    /\ call[t].at = "lookup"
    /\ LET w == call[t].w
       IN  Goes(t, [at |-> "probing", w |-> w,
                    func |-> stored[w].func_id, torn |-> FALSE])

\* Mutant of FindFunction: the search waits for a patch to be complete.
FindWhenIdle(t) ==
    /\ call[t].at = "probing"
    /\ pc = "idle"
    /\ LET c == call[t]
       IN  Goes(t, IF c.func \in DOMAIN functions
                   THEN Frame(c.w, c.func, CodeLen)
                   ELSE Out("not_found"))

\* It is found and runs, or Execute throws; a torn search may miss what is there
\* ("missed": a data race, which no property here excludes).
FindFunction(t) ==
    /\ call[t].at = "probing"
    /\ LET c == call[t]
       IN  \/ /\ c.func \in DOMAIN functions
              /\ Goes(t, Frame(c.w, c.func, CodeLen))
          \/ /\ c.func \notin DOMAIN functions
              /\ Goes(t, Out("not_found"))
          \/ /\ c.func \in DOMAIN functions /\ c.torn
              /\ Goes(t, Out("missed"))

\* One instruction but a CALL, fetched from wherever the frame's pointer leads now.
RunInstruction(t) ==
    /\ call[t].at = "running"
    /\ call[t].left > 0
    /\ Goes(t, [call[t] EXCEPT !.left = @ - 1])

\* A CALL: DispatchCall searches the map for the target's bytecode.
BeginCall(t) ==
    /\ call[t].at = "running"
    /\ call[t].left > 0
    /\ \E f \in FuncIds : Goes(t, Suspended("searching", call[t], f))

\* Bytecode runs in a frame of its own, whose instructions are among the `left`;
\* for a target without, or missed by a torn search, the runtime is asked.
FindTarget(t) ==
    /\ call[t].at = "searching"
    /\ LET c == call[t]
       IN  \/ /\ c.target \in DOMAIN functions
              /\ Goes(t, Frame(c.w, c.func, c.left - 1))
          \/ /\ (c.target \notin DOMAIN functions \/ c.torn)
              /\ Goes(t, Suspended("entry_lock", c, c.target))

\* GetWrapperForFunc and GetWrapperMeta lock Runtime::mu_, which RebindWrapper
\* holds until its assignment is complete.
LockFree == WriteComplete

GetTargetWrapper(t) ==
    /\ call[t].at = "entry_lock"
    /\ LockFree
    /\ LET wid == GetWrapperForFunc(call[t].target)
       IN  Goes(t, IF wid = kInvalidWrapperId
                   THEN Out("cannot_dispatch")
                   ELSE AtWrapper("meta_lock", call[t], wid))

GetTargetMeta(t) ==
    /\ call[t].at = "meta_lock"
    /\ LockFree
    /\ Goes(t, AtWrapper("meta_mode", call[t], call[t].wid))

\* The lock is released before the binding is read.
ReadTargetMode(t) ==
    /\ call[t].at = "meta_mode"
    /\ Goes(t, IF stored[call[t].wid].mode = kNative
               THEN AtWrapper("meta_fn", call[t], call[t].wid)
               ELSE Out("cannot_dispatch"))

TestTargetFn(t) ==
    /\ call[t].at = "meta_fn"
    /\ Goes(t, IF stored[call[t].wid].native_fn # nullptr
               THEN AtWrapper("meta_jump", call[t], call[t].wid)
               ELSE Out("cannot_dispatch"))

\* The pointer tested, not null, or what a second load finds.
CallTargetNative(t) ==
    /\ call[t].at = "meta_jump"
    /\ \/ Goes(t, Frame(call[t].w, call[t].func, call[t].left - 1))
       \/ /\ stored[call[t].wid].native_fn = nullptr
          /\ Goes(t, Out("null_jump"))

\* The result goes back to the adapter's frame.
StoreResult(t) ==
    /\ call[t].at = "running"
    /\ call[t].left = 0
    /\ Goes(t, Out("vm"))

CallerStep(t) ==
    \/ Enter(t)
    \/ ReadMode(t)
    \/ NullTest(t)
    \/ JumpNative(t)
    \/ Lookup(t)
    \/ FindFunction(t)
    \/ RunInstruction(t)
    \/ BeginCall(t)
    \/ FindTarget(t)
    \/ GetTargetWrapper(t)
    \/ GetTargetMeta(t)
    \/ ReadTargetMode(t)
    \/ TestTargetFn(t)
    \/ CallTargetNative(t)
    \/ StoreResult(t)

-----------------------------------------------------------------------------

ConcurrentNext ==
    \/ PatcherStep
    \/ WriteField
    \/ \E t \in Callers : CallerStep(t)

\* A caller inside AdapterDispatch keeps running while it can; nothing is assumed
\* of the patching thread, which may stall anywhere, and hold the lock for ever.
ConcurrentSpec ==
    /\ ConcurrentInit
    /\ [][ConcurrentNext]_allVars
    /\ \A t \in Callers : WF_allVars(call[t].at # "out" /\ CallerStep(t))

-----------------------------------------------------------------------------
(* The two properties are about patches that remove nothing, and about undo *)
(* records that are in step, which they are if each has at most one entry.  *)

NothingRemoved ==
    \A manifest \in Manifests : \A i \in DOMAIN manifest : manifest[i].action # kRemoved

OneEntryEach == \A manifest \in Manifests : Len(manifest) <= 1

\* Where a caller is that waits for the lock, or is elsewhere in DispatchCall.
WaitsForLock == {"entry_lock", "meta_lock"}
InDispatchCall == {"searching", "meta_mode", "meta_fn", "meta_jump"} \cup WaitsForLock

InFrame == {"running"} \cup InDispatchCall

Running(t) == call[t].at \in InFrame

\* No call meets a wrapper in VM mode before its bytecode is there: ApplyPatch
\* registers the function before it rebinds the wrapper (patch_manager.cpp:44
\* and 56), and while nothing is removed Rollback only puts bytecode back.
NeverNotFound == \A t \in Callers : call[t].at = "out" => call[t].ended # "not_found"

\* A frame never runs another function's bytecode: whatever binding is written
\* over the one a caller is reading, field by field, names the same function, and
\* no other function's wrapper is in its slot.
RunsItsFunction ==
    \A t \in Callers : Running(t) =>
       \A f \in DOMAIN dispatch_table :
          dispatch_table[f] = call[t].w => call[t].func = f

\* AdapterDispatch and Execute wait for nothing, so with the patching thread
\* stopped anywhere a call returns or gets to a CALL of a function without
\* bytecode, which needs the lock (interpreter.cpp:380, runtime.cpp:201, 42).  It
\* returns from there too if RebindWrapper (runtime.cpp:37) lets go of the lock
\* for good: the patching thread may then be stopped in the middle of a patch.
CallsReturn ==
    \A t \in Callers :
       /\ call[t].at # "out" ~> call[t].at \in {"out"} \cup WaitsForLock
       /\ <>[]LockFree => (call[t].at # "out" ~> call[t].at = "out")

\* "Thread-safe" (README.md:311) for a native call: it is not lost to a patch
\* that nulls native_fn between the test of mode and the test of the pointer.
NoCallLostToPatch ==
    \A t \in Callers : call[t].at = "out" => call[t].ended # "dropped"

-----------------------------------------------------------------------------
(* The inductive invariants, beside IInv. *)

\* A caller that is inside came in through a slot that is in use.
CallState ==
    [at : {"out"},
     ended : {"nothing", "dropped", "native", "null_jump", "not_found", "missed",
              "cannot_dispatch", "vm"}]
    \cup [at : {"mode", "null_test", "lookup"}, w : UsedSlots]
    \cup [at : {"jump"}, w : UsedSlots, fn : NativeFns]
    \cup [at : {"probing"}, w : UsedSlots,
          func : FuncIds \cup {kInvalidFuncId}, torn : BOOLEAN]
    \cup [at : {"running"}, w : UsedSlots,
          func : FuncIds \cup {kInvalidFuncId}, left : 0 .. CodeLen]
    \cup [at : {"searching", "entry_lock"}, w : UsedSlots,
          func : FuncIds \cup {kInvalidFuncId}, left : 1 .. CodeLen,
          target : FuncIds, torn : BOOLEAN]
    \cup [at : {"meta_lock", "meta_mode", "meta_fn", "meta_jump"}, w : UsedSlots,
          func : FuncIds \cup {kInvalidFuncId}, left : 1 .. CodeLen, wid : WrapperIds]

ConcurrentTypeOK ==
    /\ stored \in [WrapperIds -> BindInfo]
    /\ call \in [Callers -> CallState]

HasCode(f) == f \in DOMAIN functions

\* Whatever a rollback may rebind, or with what, has bytecode.
SavedWithCode(rec) ==
    /\ \A i \in DOMAIN rec.modified_funcs : HasCode(rec.modified_funcs[i])
    /\ \A i \in DOMAIN rec.old_binds : HasCode(rec.old_binds[i].func_id)

\* A binding in VM mode has bytecode, and a native one that a patch or a
\* rollback may overwrite names the function of its wrapper, unless what it
\* names has bytecode: half of it may then be mixed with half of another.
BindsWithCode ==
    /\ \A w \in UsedSlots : bind_info[w].mode = kVM => HasCode(bind_info[w].func_id)
    /\ \A f \in DOMAIN dispatch_table : HasWrapper(f) =>
          LET g == bind_info[dispatch_table[f]].func_id IN g = f \/ HasCode(g)

\* With nothing removed: what holds of the patching thread's state.
NothingLost ==
    /\ \A i \in DOMAIN todo : todo[i].action # kRemoved
    /\ SavedWithCode(record)
    /\ \A n \in DOMAIN history : SavedWithCode(history[n])
    /\ BindsWithCode

\* And of what its callers have read and are about to read.
LookupsFind ==
    /\ NothingLost
    /\ \A w \in UsedSlots :
          stored[w] # bind_info[w] =>
             HasCode(stored[w].func_id) /\ HasCode(bind_info[w].func_id)
    /\ \A t \in Callers :
          /\ call[t].at = "lookup" => HasCode(stored[call[t].w].func_id)
          /\ call[t].at = "probing" => HasCode(call[t].func)
    /\ NeverNotFound

\* With the records in step: the binding being overwritten and the one that
\* overwrites it are the wrapper's own, and a caller has read no other's.
ReadsItsOwn ==
    /\ BoundToItsFunction
    /\ \A f \in FuncIds : HasWrapper(f) => stored[GetWrapperForFunc(f)].func_id = f
    /\ \A t \in Callers : call[t].at = "probing" =>
          \A f \in FuncIds : GetWrapperForFunc(f) = call[t].w => call[t].func = f
    /\ RunsItsFunction

\* The record of a patch with one entry has one pair or none.
OneEntryLeft ==
    pc = "apply" =>
        \/ todo = <<>>
        \/ Len(todo) = 1 /\ record.modified_funcs = <<>> /\ record.old_binds = <<>>

ConcurrentInv ==
    /\ ConcurrentTypeOK
    /\ LookupsFind
    /\ ReadsItsOwn
    /\ RecordsInStep
    /\ OneEntryLeft

=============================================================================
