------------------------------ MODULE HostCalls -----------------------------
(***************************************************************************)
(* Calls into a module of bytecode functions, whoever made it: it gets a   *)
(* wrapper for each function, and a host program calls one of them through *)
(* the wrapper's stub or through Interpreter::Execute.  Toolchain has the  *)
(* compiler make the module.                                               *)
(***************************************************************************)
EXTENDS Adapter

CONSTANT Arguments      \* the lists of words that callers pass

ASSUME ArgumentsAssumption == \A args \in Arguments : args \in Seq(Words)

VARIABLES
    functions,          \* Module::functions
    request             \* the call: function, arguments and the wrapper it goes through

hostVars == <<vmVars, adapterVars, functions, request>>

ArgKinds == {"I8", "I16", "I32", "I64", "F32", "F64", "Ptr", "Bool"}
RetKinds == {"Void", "I64", "F64", "Ptr"}

\* Functions numbered in their order, with signatures that ArgKind and RetKind
\* can express; nothing is said of their code.
IsModule(fs) ==
    /\ fs \in Seq({fs[k] : k \in DOMAIN fs})
    /\ \A k \in DOMAIN fs :
        /\ fs[k].func_id = k - 1
        /\ fs[k].ret_kind \in RetKinds
        /\ fs[k].param_kinds \in Seq(ArgKinds)

NoCall  == [func |-> -1, args |-> <<>>, wrapper |-> NoWrapper]
NoFrame == [wrapper_id |-> NoWrapper]

Start(fs, at) ==
    /\ functions = fs /\ control = at /\ request = NoCall
    /\ image = EmptyMap /\ stack = <<>> /\ heap = Objects /\ entered = <<>> /\ outcome = None
    /\ wrappers = EmptyMap /\ machine = PassArgs(<<>>, <<>>) /\ frame = NoFrame

HostInit ==
    /\ IsModule(functions)
    /\ Start(functions, "source") \/ Start(functions, "module")

-----------------------------------------------------------------------------

\* A module comes from somewhere.
Obtain ==
    /\ control = "source"
    /\ IsModule(functions')
    /\ control' = "module"
    /\ UNCHANGED <<vmVars, wrappers, machine, frame, request>>

\* The BindInfo that ApplyPatch makes of a function.
VmBind(f) ==
    [func_id |-> f.func_id, mode |-> "kVM", ret_kind |-> f.ret_kind,
     param_kinds |-> f.param_kinds, native_fn |-> 0]

\* What RegisterNativeFunction makes for a function of one integer.
NativeBind(f) ==
    [func_id |-> f, mode |-> "kNative", ret_kind |-> "I64",
     param_kinds |-> <<"I64">>, native_fn |-> NativeOf[f]]

\* Function number n has wrapper n; the next wrapper is a native function's.
Install ==
    /\ control = "module"
    /\ image' = [f \in 0 .. (Len(functions) - 1) |-> functions[f + 1]]
    /\ wrappers' = [w \in 0 .. Len(functions) |->
                        IF w < Len(functions) THEN VmBind(functions[w + 1])
                        ELSE NativeBind(CHOOSE f \in DOMAIN NativeOf : TRUE)]
    /\ control' = "ready"
    /\ UNCHANGED <<stack, heap, entered, outcome, machine, frame, functions, request>>

ArgsFor(kinds) == {args \in Arguments : Len(args) = Len(kinds)}

\* A host program calls Interpreter::Execute.
CallDirectly ==
    /\ control = "ready"
    /\ \E f \in DOMAIN image : \E args \in ArgsFor(image[f].param_kinds) :
        /\ request' = [func |-> f, args |-> args, wrapper |-> NoWrapper]
        /\ Execute(f, args)
    /\ UNCHANGED <<wrappers, machine, frame, functions>>

\* A C++ caller calls a wrapper stub, with the signature of what is behind it;
\* the last one is the stub of a free wrapper.
CallStub ==
    /\ control = "ready"
    /\ \E w \in 0 .. (Len(functions) + 1) :
        LET kinds == IF w \in DOMAIN wrappers THEN wrappers[w].param_kinds ELSE <<>>
        IN  \E args \in ArgsFor(kinds) :
            /\ request' = [func |-> IF w \in DOMAIN image THEN w ELSE -1, args |-> args, wrapper |-> w]
            /\ machine' = PassArgs(kinds, args)
    /\ control' = "called"
    /\ UNCHANGED <<vmVars, wrappers, frame, functions>>

\* What the machine does without the programmer.
Step ==
    /\ AdapterEntry(request.wrapper) \/ AdapterStep
    /\ UNCHANGED <<functions, request>>

HostNext == Obtain \/ Install \/ CallDirectly \/ CallStub \/ Step

HostSpec == HostInit /\ [][HostNext]_hostVars

-----------------------------------------------------------------------------

\* From the source to the end of the call.
Places == {"source", "module", "ready", "called", "dispatch", "vm", "leaving",
           "returned", "terminated", "faulted"}

ThroughStub == request.wrapper # NoWrapper
InVm        == request.func # -1

Answered ==
    \/ control = "returned"
    \/ ~ ThroughStub /\ outcome.is = "returned"

Ended == Answered \/ control \in {"terminated", "faulted"} \/ outcome.is \in {"thrown", "undefined"}

\* The value the caller sees; a void function has none.
Answer ==
    IF ~ ThroughStub THEN outcome.value
    ELSE IF image[request.func].ret_kind = "F64" THEN machine.ret_fp ELSE machine.ret_int

\* As many arguments as the adapter looks at.
RegistersSuffice(kinds) ==
    \A k \in DOMAIN kinds : RankOf(kinds, k) <= (IF kinds[k] \in FloatKinds THEN NumFprs ELSE MaxParams)

\* The arguments that a function in bytecode starts with are those its C++
\* caller passed, integers and floats mixed (AdapterEntry, UnpackArgsToVm).
ArgumentsArrive ==
    ThroughStub /\ InVm /\ entered # <<>> /\ RegistersSuffice(image[request.func].param_kinds)
        => entered[1] = <<request.func, request.args>>

\* The value that leaves the interpreter is the one the C++ caller finds where
\* its calling convention looks for it (AdapterDispatch, the end of AdapterEntry).
ResultArrives ==
    control = "returned" /\ InVm /\ image[request.func].ret_kind # "Void"
        => Answer = outcome.value

-----------------------------------------------------------------------------
(* The inductive invariant behind the two. *)

Idle   == control \in {"source", "module", "ready"}
ByStub == ~ Idle /\ ThroughStub /\ InVm
Callee == image[request.func]

\* Function f is bound at wrapper f, and the other wrappers are native.
BoundInStep ==
    control \notin {"source", "module"} =>
        /\ DOMAIN image \subseteq Nat
        /\ \A f \in DOMAIN image :
            /\ f \in DOMAIN wrappers /\ wrappers[f] = VmBind(image[f])
            /\ image[f].func_id = f
            /\ image[f].ret_kind \in RetKinds
            /\ image[f].param_kinds \in Seq(ArgKinds)
        /\ \A w \in DOMAIN wrappers \ DOMAIN image : wrappers[w].mode = "kNative"

\* Before the call nothing has been entered; a direct call stays in the interpreter.
OneCall ==
    /\ Idle => request = NoCall /\ entered = <<>> /\ frame = NoFrame
    /\ ~ Idle /\ ~ ThroughStub => control = "vm" /\ frame = NoFrame

\* A stub's number is its function's, called with as many arguments as it takes.
StubsFunction ==
    ByStub =>
        /\ request.func = request.wrapper
        /\ request.func \in DOMAIN image
        /\ request.args = [k \in DOMAIN Callee.param_kinds |-> request.args[k]]

\* Until the interpreter is done the registers hold what the caller put there,
\* and the frame what AdapterEntry saved.
RegistersKept ==
    ByStub =>
        /\ control \in {"called", "dispatch", "vm", "leaving"} =>
                machine = PassArgs(Callee.param_kinds, request.args)
        /\ control \in {"dispatch", "vm"} => frame = SavedFrame(request.wrapper)

FirstEntered ==
    ByStub =>
        /\ control \in {"called", "dispatch", "faulted"} => entered = <<>>
        /\ control \in {"vm", "leaving", "returned", "terminated"} =>
            /\ entered \in Seq({entered[k] : k \in DOMAIN entered})
            /\ entered # <<>>
            /\ RegistersSuffice(Callee.param_kinds) => entered[1] = <<request.func, request.args>>

\* The frame has the kind of the result, and the result where that kind belongs.
ResultStored ==
    ByStub /\ control = "leaving" =>
        /\ frame.ret_kind = Callee.ret_kind
        /\ Callee.ret_kind \in {"I64", "Ptr"} => frame.ret_int = outcome.value
        /\ Callee.ret_kind = "F64" => frame.ret_fp = outcome.value

\* The inductive invariant of HostSpec.
HostInv ==
    /\ control \in Places
    /\ IsModule(functions)
    /\ BoundInStep /\ OneCall /\ StubsFunction /\ RegistersKept /\ FirstEntered
    /\ ResultStored /\ ResultArrives
=============================================================================
