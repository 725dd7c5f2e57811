----------------------------- MODULE HotVMTypes -----------------------------
(***************************************************************************)
(* The shared data types of HotVM (include/hotvm/types.h, bytecode.h),     *)
(* reduced to what the properties of the other modules tell apart.         *)
(*                                                                         *)
(* A body stands for everything a VmFunction carries besides its id: the   *)
(* instructions, the register count, the return and parameter kinds.  A    *)
(* signature stands for ret_kind, param_count and param_kinds, which a     *)
(* BindInfo copies from the function it is bound to.                       *)
(***************************************************************************)
EXTENDS Integers, FiniteSets

CONSTANTS
    FuncIds,            \* function ids that occur; id 0 is the first one the compiler hands out
    Bodies,             \* bytecode bodies
    Sigs,               \* signatures
    SigOf,              \* the signature of each body
    NativeFns,          \* addresses of native functions
    kInvalidFuncId,     \* UINT32_MAX as a function id
    nullptr             \* the null function pointer

ASSUME TypesAssumption ==
    /\ 0 \in FuncIds
    /\ kInvalidFuncId \notin FuncIds
    /\ nullptr \notin NativeFns
    /\ Sigs # {}
    /\ SigOf \in [Bodies -> Sigs]

\* enum class DispatchMode : kVM = 0, kNative = 1
kVM     == "kVM"
kNative == "kNative"
DispatchMode == {kVM, kNative}

BindInfo == [func_id   : FuncIds \cup {kInvalidFuncId},
             mode      : DispatchMode,
             sig       : Sigs,
             native_fn : NativeFns \cup {nullptr}]

\* The signature with no parameter and no result (param_count = 0, kVoid).
VoidSig == CHOOSE s \in Sigs : TRUE

\* BindInfo{}: what the member initialisers give.
DefaultBind == [func_id |-> kInvalidFuncId, mode |-> kNative,
                sig |-> VoidSig, native_fn |-> nullptr]

\* An all-zero BindInfo, which is what memset leaves: id 0 and mode kVM.
ZeroBind == [func_id |-> 0, mode |-> kVM, sig |-> VoidSig, native_fn |-> nullptr]

VmFunction == [func_id : FuncIds, body : Bodies]

\* Mutant of VmBind: mode is left at its default.
VmBindNoMode(f, body) == [func_id |-> f, mode |-> kNative,
                          sig |-> SigOf[body], native_fn |-> nullptr]

\* The BindInfo that a patch entry builds: VM mode, no native function.
VmBind(f, body) == [func_id |-> f, mode |-> kVM,
                    sig |-> SigOf[body], native_fn |-> nullptr]

=============================================================================
