------------------------------ MODULE Toolchain -----------------------------
(***************************************************************************)
(* From a C++ source to the value its caller gets: the frontend and the    *)
(* code generator (hotvm-compile), the wrapper a patch makes for a         *)
(* function, the call through the wrapper's stub or through                *)
(* Interpreter::Execute, and the run.                                      *)
(***************************************************************************)
EXTENDS HostCalls

CONSTANTS
    Fuel,               \* see SourceMeaning
    Units,              \* translation units
    Modules             \* functions that are bytecode from the start, as the tests build them

Compiler == INSTANCE Frontend
Source   == INSTANCE SourceMeaning

VARIABLE unit           \* the translation unit; <<>> for a module built by hand

vars == <<hostVars, unit>>

Init ==
    \/ unit \in Units /\ Start(<<>>, "source")
    \/ unit = <<>> /\ \E fs \in Modules : Start(fs, "module")

-----------------------------------------------------------------------------

\* hotvm-compile: main parses and generates.
Compile ==
    /\ control = "source"
    /\ functions' = Compiler!Generate(Compiler!Parse(unit)).functions
    /\ control' = "module"
    /\ UNCHANGED <<vmVars, wrappers, machine, frame, unit, request>>

\* The machine does not look at the source again.
Proceed == Step /\ UNCHANGED unit

Next ==
    \/ Compile
    \/ (Install \/ CallDirectly \/ CallStub) /\ UNCHANGED unit
    \/ Proceed

\* A thread that is in a call runs on.
Spec == Init /\ [][Next]_vars /\ WF_vars(Proceed)

-----------------------------------------------------------------------------

ToolchainTypeOK ==
    /\ control \in Places
    /\ Len(stack) <= MaxDepth
    /\ \A k \in DOMAIN stack :
        /\ stack[k].func \in DOMAIN image
        /\ stack[k].pc \in Nat
        /\ stack[k].regs \in [Registers -> Words]
    /\ \A b \in DOMAIN heap : \A c \in DOMAIN heap[b] : heap[b][c] \in Words
    /\ outcome.is \in {"none", "returned", "thrown", "undefined"}

SourceMeans == Source!Meaning(unit, request.func, request.args)

\* A call of a compiled function, as far as the compiler can be held to its source.
PlainCall ==
    /\ unit # <<>> /\ InVm
    /\ ThroughStub => RegistersSuffice(image[request.func].param_kinds)
    /\ Source!PlainProgram(unit, kMaxRegisters)

\* When a call of a compiled function is over, and its source gives it a
\* meaning, it has returned (no exception, no undefined behaviour), with the
\* value the source gives and after the same calls with the same arguments in
\* the same order (LowerExpression, GenerateFunction and the interpreter loop,
\* and the adapter when the call came through a stub).
ResultIsMeaning ==
    Ended /\ PlainCall /\ SourceMeans.how = "on" =>
        /\ Answered
        /\ entered = SourceMeans.trace
        /\ image[request.func].ret_kind # "Void" => Answer = SourceMeans.val

\* In generated code every jump has a target, and it is inside the code or just
\* behind it, also for loops whose parts are left out (PatchJumps).
JumpsLand ==
    unit # <<>> => \A k \in DOMAIN functions :
        LET code == functions[k].code
        IN  \A i \in DOMAIN code : code[i].op \in {"kJmp", "kJz", "kJnz"} => code[i].imm <= Len(code)

\* A compiled call whose source comes to an end does so too (LowerWhileStmt's
\* labels and branches).
CallsEnd == [](PlainCall /\ SourceMeans.how = "on" => <>Ended)

-----------------------------------------------------------------------------
(* What the code does not do. *)

\* LowerForStmt announces the increment for after the body.
ForLoopsEnd == [](unit # <<>> /\ InVm /\ SourceMeans.how = "on" => <>Ended)

\* AdapterEntry stores registers into a frame it says is aligned to 16.
StubsEnter == control # "faulted"

=============================================================================
