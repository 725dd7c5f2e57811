------------------------------- MODULE Adapter ------------------------------
(***************************************************************************)
(* A call through a wrapper stub: the stub and AdapterEntry                *)
(* (src/abi/*/wrappers.S, adapter.S), the Runtime's AdapterDispatch,       *)
(* NativeForward and UnpackArgsToVm (src/runtime/runtime.cpp) and the way  *)
(* back to the C++ caller.  The other way in is Interpreter::Execute.      *)
(***************************************************************************)
EXTENDS Interpreter

CONSTANTS
    Arch,               \* "x86_64" or "arm64"
    kStubs,             \* stubs that wrappers.S generates
    Stale               \* what a register holds that nobody has set

VARIABLES
    wrappers,           \* the slots in use: wrapper id -> BindInfo
    machine,            \* the argument and result registers of the calling convention
    frame,              \* AdapterFrame
    control             \* where the call is

adapterVars == <<wrappers, machine, frame, control>>

NumGprs   == IF Arch = "arm64" THEN 8 ELSE 6    \* gpr[] of AdapterFrame
NumFprs   == 8
MaxParams == 6                                  \* integers that the runtime looks at

NoWrapper  == -1
FloatKinds == {"F32", "F64"}

\* The ranks of an argument among those of its class, integers or floats.
RankOf(kinds, k) ==
    Cardinality({j \in 1 .. k : (kinds[j] \in FloatKinds) = (kinds[k] \in FloatKinds)})

\* The C++ caller's side of the convention: the n-th integer in the n-th
\* integer register, the n-th float in the n-th float register, the rest on the
\* stack.
RegisterFile(kinds, args, float, size) ==
    [r \in 1 .. size |->
        IF \E k \in DOMAIN args : (kinds[k] \in FloatKinds) = float /\ RankOf(kinds, k) = r
        THEN args[CHOOSE k \in DOMAIN args : (kinds[k] \in FloatKinds) = float /\ RankOf(kinds, k) = r]
        ELSE Stale]

PassArgs(kinds, args) ==
    [gpr |-> RegisterFile(kinds, args, FALSE, NumGprs),
     fpr |-> RegisterFile(kinds, args, TRUE, NumFprs), ret_int |-> Stale, ret_fp |-> Stale]

-----------------------------------------------------------------------------

\* The stack pointer in AdapterEntry, modulo 16: it was a multiple of 16 when
\* the caller called.  On x86_64 the call pushed the return address; on arm64
\* the entry pushes x29 and x30.
FrameAddress == IF Arch = "x86_64" THEN (0 - 8 - 256) % 16 ELSE (0 - 16 - 272) % 16

\* movaps to frame + 48 and stp of q registers to frame + 64.
StoresFault == Arch = "x86_64" /\ (FrameAddress + 48) % 16 # 0

\* ret_q0 takes q0's value, not zero.
SavedFrame(w) ==
    [gpr |-> machine.gpr, fpr |-> machine.fpr, wrapper_id |-> w, ret_int |-> 0,
     ret_fp |-> IF Arch = "arm64" THEN machine.fpr[1] ELSE 0, ret_kind |-> "Void"]

\* The stub loads its number and jumps to AdapterEntry, which saves the registers.
AdapterEntry(w) ==
    /\ control = "called"
    /\ w < kStubs
    /\ IF StoresFault THEN control' = "faulted" /\ UNCHANGED frame
       ELSE control' = "dispatch" /\ frame' = SavedFrame(w)
    /\ UNCHANGED <<vmVars, wrappers, machine>>

\* Mutant of UnpackArgsToVm: one count for both kinds of registers.
UnpackInOrder(bind) ==
    [k \in DOMAIN bind.param_kinds |->
        IF bind.param_kinds[k] \in FloatKinds
        THEN IF k <= NumFprs THEN frame.fpr[k] ELSE 0
        ELSE IF k <= MaxParams THEN frame.gpr[k] ELSE 0]

\* Arguments beyond the registers it looks at stay zero.
UnpackArgsToVm(bind) ==
    [k \in DOMAIN bind.param_kinds |->
        LET r == RankOf(bind.param_kinds, k)
        IN  IF bind.param_kinds[k] \in FloatKinds
            THEN IF r <= NumFprs THEN frame.fpr[r] ELSE 0
            ELSE IF r <= MaxParams THEN frame.gpr[r] ELSE 0]

\* Interpreter::Execute from outside: the frame of the function, or an exception.
Execute(f, args) ==
    /\ control' = "vm"
    /\ IF f \in DOMAIN image
       THEN /\ stack' = <<Frame(f, args)>>
            /\ entered' = Append(entered, <<f, args>>)
            /\ UNCHANGED outcome
       ELSE outcome' = Thrown /\ UNCHANGED <<stack, entered>>
    /\ UNCHANGED <<image, heap>>

\* Six integer registers are forwarded; ret_kind is not set.
NativeForward(bind) ==
    LET args == [k \in 1 .. MaxParams |-> frame.gpr[k]]
    IN  /\ IF bind.native_fn \in DOMAIN Natives
           THEN /\ frame' = [frame EXCEPT !.ret_int = NativeResult(bind.native_fn, args)]
                /\ entered' = Append(entered, <<bind.native_fn, args>>)
           ELSE UNCHANGED <<frame, entered>>
        /\ control' = "leaving"
        /\ UNCHANGED <<image, stack, heap, outcome>>

AdapterDispatch ==
    /\ control = "dispatch"
    /\ LET w == frame.wrapper_id
       IN  \/ /\ w \notin DOMAIN wrappers
              /\ control' = "leaving"
              /\ UNCHANGED <<vmVars, frame>>
           \/ /\ w \in DOMAIN wrappers /\ wrappers[w].mode = "kNative"
              /\ NativeForward(wrappers[w])
           \/ /\ w \in DOMAIN wrappers /\ wrappers[w].mode = "kVM"
              /\ Execute(wrappers[w].func_id, UnpackArgsToVm(wrappers[w]))
              /\ UNCHANGED frame
    /\ UNCHANGED <<wrappers, machine>>

\* Mutant of StoreResult: the result of a double goes to the integer register.
StoreAsInteger ==
    /\ control = "vm" /\ frame.wrapper_id # NoWrapper /\ outcome.is = "returned"
    /\ frame' = [frame EXCEPT !.ret_int = outcome.value,
                              !.ret_kind = wrappers[frame.wrapper_id].ret_kind]
    /\ control' = "leaving"
    /\ UNCHANGED <<vmVars, wrappers, machine>>

\* AdapterDispatch after Execute has returned.
StoreResult ==
    /\ control = "vm" /\ frame.wrapper_id # NoWrapper /\ outcome.is = "returned"
    /\ LET kind == wrappers[frame.wrapper_id].ret_kind
       IN  frame' = [frame EXCEPT
                !.ret_int = IF kind \in {"I64", "Ptr"} THEN outcome.value ELSE @,
                !.ret_fp  = IF kind = "F64" THEN outcome.value ELSE @,
                !.ret_kind = kind]
    /\ control' = "leaving"
    /\ UNCHANGED <<vmVars, wrappers, machine>>

\* No unwind information covers the frames of AdapterEntry and the stub: an
\* exception cannot pass them.
Unwind ==
    /\ control = "vm" /\ frame.wrapper_id # NoWrapper /\ outcome.is = "thrown"
    /\ control' = "terminated"
    /\ UNCHANGED <<vmVars, wrappers, machine, frame>>

\* The end of AdapterEntry.  With no ret_kind arm64 leaves x0 as AdapterDispatch
\* left it, and x86_64 returns the kind it has loaded into eax.
AdapterReturn ==
    /\ control = "leaving"
    /\ machine' \in
        {[machine EXCEPT
            !.ret_int = CASE frame.ret_kind \in {"I64", "Ptr"} -> frame.ret_int
                          [] frame.ret_kind = "F64" -> Stale
                          [] frame.ret_kind = "Void" -> IF Arch = "x86_64" THEN 0 ELSE x0,
            !.ret_fp = IF frame.ret_kind = "F64" THEN frame.ret_fp ELSE Stale] :
         x0 \in {frame.ret_int, Stale}}
    /\ control' = "returned"
    /\ UNCHANGED <<vmVars, wrappers, frame>>

\* The interpreter runs while a call is in it.
Run == control = "vm" /\ VmStep /\ UNCHANGED adapterVars

AdapterStep == AdapterDispatch \/ StoreResult \/ Unwind \/ AdapterReturn \/ Run

=============================================================================
