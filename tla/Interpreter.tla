----------------------------- MODULE Interpreter ----------------------------
(***************************************************************************)
(* The bytecode interpreter (src/vm/interpreter.cpp): one step is one      *)
(* instruction of the innermost ExecFunction.  A C++ exception leaves      *)
(* every frame, for none catches.                                          *)
(*                                                                         *)
(* An instruction is [op, a, b, c, imm]: imm is imm32 or imm64, of which   *)
(* an instruction uses one.  Memory is a map from the address of a block   *)
(* to its cells; a cell stands for eight bytes, and imm counts cells in    *)
(* the field instructions and in kAlloc.                                   *)
(***************************************************************************)
EXTENDS Words, Sequences, FiniteSets, Maps

CONSTANTS
    kMaxRegisters,      \* registers of a frame
    MaxDepth,           \* frames the machine stack has room for
    Blocks,             \* addresses that calloc may return
    Objects,            \* what is in memory before: base -> cells
    Natives,            \* native functions: address -> name
    NativeOf            \* functions whose wrapper is native: id -> address

ASSUME InterpreterAssumption ==
    /\ kMaxRegisters \in Nat \ {0} /\ MaxDepth \in Nat \ {0}
    /\ Blocks \subseteq Words \ {0} /\ DOMAIN Natives \subseteq Words

VARIABLES
    image,              \* functions_: id -> VmFunction
    stack,              \* the frames, innermost last
    heap,               \* memory
    entered,            \* what was called, in order: functions and natives with their arguments
    outcome             \* how the outermost Execute ended

vmVars == <<image, stack, heap, entered, outcome>>

Registers == 0 .. (kMaxRegisters - 1)

None     == [is |-> "none"]
Returned(w) == [is |-> "returned", value |-> w]
Thrown   == [is |-> "thrown"]
Undefined == [is |-> "undefined"]   \* undefined behaviour of the C++ program

Top  == stack[Len(stack)]
Code == image[Top.func].code
AtEnd == Top.pc >= Len(Code)        \* also a jump to anywhere outside
Inst == Code[Top.pc + 1]
Reg(r) == Top.regs[r]

Running   == stack # <<>>
At(ops)   == Running /\ ~ AtEnd /\ Inst.op \in ops

\* frame.pc++ has been done when an instruction takes effect.
Advance(regs) == stack' = [stack EXCEPT ![Len(stack)] = [@ EXCEPT !.pc = @ + 1, !.regs = regs]]
Writes(r, w) == Advance([Top.regs EXCEPT ![r] = w])
GoTo(pc)     == stack' = [stack EXCEPT ![Len(stack)].pc = pc]

Ends(how) == stack' = <<>> /\ outcome' = how

-----------------------------------------------------------------------------
(* Instructions that compute reg[a] from reg[b], reg[c] and imm. *)

IntegerOps == {"kAddI64", "kSubI64", "kMulI64", "kDivI64", "kModI64", "kNegI64"}

IntegerValue(op, x, y) ==
    CASE op = "kAddI64" -> x + y
      [] op = "kSubI64" -> x - y
      [] op = "kMulI64" -> x * y
      [] op = "kDivI64" -> Quotient(x, y)
      [] op = "kModI64" -> x - y * Quotient(x, y)
      [] op = "kNegI64" -> -x

FloatOps == {"kAddF64", "kSubF64", "kMulF64", "kDivF64"}

FloatValue(op, x, y) ==
    CASE op = "kAddF64" -> x + y
      [] op = "kSubF64" -> x - y
      [] op = "kMulF64" -> x * y
      [] op = "kDivF64" -> Quotient(x, y)

CompareOps == {"kCmpEq", "kCmpNe", "kCmpLt", "kCmpLe", "kCmpGt", "kCmpGe"}

\* Signed words, whatever the registers hold.
Compare(op, x, y) ==
    CASE op = "kCmpEq" -> x = y
      [] op = "kCmpNe" -> x # y
      [] op = "kCmpLt" -> x < y
      [] op = "kCmpLe" -> x <= y
      [] op = "kCmpGt" -> x > y
      [] op = "kCmpGe" -> x >= y

BitOps == {"kAnd", "kOr", "kXor", "kNot", "kShl", "kShr"}

BitValue(op, x, y) ==
    CASE op = "kAnd" -> FromBits(Bits(x) \cap Bits(y))
      [] op = "kOr"  -> FromBits(Bits(x) \cup Bits(y))
      [] op = "kXor" -> FromBits((Bits(x) \ Bits(y)) \cup (Bits(y) \ Bits(x)))
      [] op = "kNot" -> Modulus - 1 - x
      [] op = "kShl" -> Wrap(x * 2 ^ (y % WordBits))
      [] op = "kShr" -> Wrap(Signed(x) \div 2 ^ (y % WordBits))

MoveOps == {"kLdi", "kLdF64", "kMov", "kI64ToPtr", "kPtrToI64",
            "kI64ToF64", "kF64ToI64", "kNegF64"}

MoveValue(i, x) ==
    CASE i.op \in {"kLdi", "kLdF64"} -> i.imm
      [] i.op \in {"kMov", "kI64ToPtr", "kPtrToI64"} -> x
      [] i.op = "kI64ToF64" -> FromF64(Signed(x))
      [] i.op = "kF64ToI64" -> Wrap(ToF64(x))
      [] i.op = "kNegF64"   -> Wrap(x + SignBit)

ComputeOps == IntegerOps \cup FloatOps \cup CompareOps \cup BitOps \cup MoveOps

\* Mutant of Result: integers are not cut to the width of a register.
ResultTooWide(i, x, y) ==
    CASE i.op \in IntegerOps -> IntegerValue(i.op, Signed(x), Signed(y))
      [] i.op \in FloatOps   -> FromF64(FloatValue(i.op, ToF64(x), ToF64(y)))
      [] i.op \in CompareOps -> Truth(Compare(i.op, Signed(x), Signed(y)))
      [] i.op \in BitOps     -> BitValue(i.op, x, y)
      [] i.op \in MoveOps    -> MoveValue(i, x)

Result(i, x, y) ==
    CASE i.op \in IntegerOps -> Wrap(IntegerValue(i.op, Signed(x), Signed(y)))
      [] i.op \in FloatOps   -> FromF64(FloatValue(i.op, ToF64(x), ToF64(y)))
      [] i.op \in CompareOps -> Truth(Compare(i.op, Signed(x), Signed(y)))
      [] i.op \in BitOps     -> BitValue(i.op, x, y)
      [] i.op \in MoveOps    -> MoveValue(i, x)

DividesByZero(i) ==
    \/ i.op \in {"kDivI64", "kModI64"} /\ Reg(i.c) = 0
    \/ i.op = "kDivF64" /\ ToF64(Reg(i.c)) = 0

\* INT64_MIN / -1 is undefined in C++ and traps on x86_64.
DivisionOverflows(i) ==
    i.op \in {"kDivI64", "kModI64"} /\ Reg(i.b) = SignBit /\ Signed(Reg(i.c)) = -1

Compute ==
    /\ At(ComputeOps)
    /\ IF DividesByZero(Inst) THEN Ends(Thrown)
       ELSE IF DivisionOverflows(Inst) THEN Ends(Undefined)
       ELSE /\ Writes(Inst.a, Result(Inst, Reg(Inst.b), Reg(Inst.c)))
            /\ UNCHANGED outcome
    /\ UNCHANGED <<image, heap, entered>>

-----------------------------------------------------------------------------
(* Memory. *)

Owner(a)  == {b \in DOMAIN heap : a - b \in DOMAIN heap[b]}
Mapped(a) == Owner(a) # {}
Cell(a)   == LET b == CHOOSE b \in Owner(a) : TRUE IN heap[b][a - b]
SetCell(a, w) == LET b == CHOOSE b \in Owner(a) : TRUE
                 IN  heap' = [heap EXCEPT ![b][a - b] = w]

\* The bits that an access moves; kLoadI8 and its kind sign-extend them.
AccessBits(op) ==
    CASE op \in {"kLoadI8", "kStoreI8"}   -> WordBits \div 8
      [] op \in {"kLoadI16", "kStoreI16"} -> WordBits \div 4
      [] op \in {"kLoadI32", "kStoreI32"} -> WordBits \div 2
      [] OTHER -> WordBits

LoadOps  == {"kLoadI64", "kLoadF64", "kLoadPtr", "kLoadField",
             "kLoadI8", "kLoadI16", "kLoadI32", "kGetVTablePtr"}
StoreOps == {"kStoreI64", "kStoreF64", "kStorePtr", "kStoreField",
             "kStoreI8", "kStoreI16", "kStoreI32"}

Offset(i) == IF i.op \in {"kLoadField", "kStoreField"} THEN i.imm ELSE 0

Load ==
    /\ At(LoadOps)
    /\ LET a == Wrap(Reg(Inst.b) + Offset(Inst))
       IN  IF Mapped(a)
           THEN Writes(Inst.a, SignExtend(Cell(a), AccessBits(Inst.op))) /\ UNCHANGED outcome
           ELSE Ends(Undefined)
    /\ UNCHANGED <<image, heap, entered>>

Store ==
    /\ At(StoreOps)
    /\ LET a    == Wrap(Reg(Inst.a) + Offset(Inst))
           part == 2 ^ AccessBits(Inst.op)
       IN  IF Mapped(a)
           THEN /\ SetCell(a, Cell(a) - (Cell(a) % part) + (Reg(Inst.b) % part))
                /\ Advance(Top.regs)
                /\ UNCHANGED outcome
           ELSE Ends(Undefined) /\ UNCHANGED heap
    /\ UNCHANGED <<image, entered>>

\* Where calloc can place n cells (at least one: calloc(1, 0) is not null either).
Room(n) == {b \in Blocks : \A a \in b .. (b + n - 1) : a \in Words /\ ~ Mapped(a)}

Allocate ==
    /\ At({"kAlloc"})
    /\ LET n == IF Inst.imm = 0 THEN 1 ELSE Inst.imm
       IN  \/ /\ Room(n) # {}
              /\ LET b == CHOOSE b \in Room(n) : \A c \in Room(n) : b <= c
                 IN  /\ heap' = Put(heap, b, [k \in 0 .. (n - 1) |-> 0])
                     /\ Writes(Inst.a, b)
              /\ UNCHANGED outcome
           \/ Room(n) = {} /\ Ends(Thrown) /\ UNCHANGED heap
    /\ UNCHANGED <<image, entered>>

\* free(nullptr) does nothing; freeing what calloc did not return is undefined.
Release ==
    /\ At({"kFree"})
    /\ IF Reg(Inst.a) \in DOMAIN heap \cup {0}
       THEN /\ heap' = Erase(heap, Reg(Inst.a))
            /\ Writes(Inst.a, 0)
            /\ UNCHANGED outcome
       ELSE Ends(Undefined) /\ UNCHANGED heap
    /\ UNCHANGED <<image, entered>>

-----------------------------------------------------------------------------
(* Control. *)

Jump ==
    /\ At({"kJmp", "kJz", "kJnz"})
    /\ GoTo(IF \/ Inst.op = "kJmp"
               \/ Inst.op = "kJz" /\ Reg(Inst.a) = 0
               \/ Inst.op = "kJnz" /\ Reg(Inst.a) # 0
            THEN Inst.imm ELSE Top.pc + 1)
    /\ UNCHANGED <<image, heap, entered, outcome>>

\* No effect: try blocks are entered and left without a record of them.
Skip ==
    /\ At({"kNop", "kTryEnter", "kTryExit", "kBreakpoint"})
    /\ Advance(Top.regs)
    /\ UNCHANGED <<image, heap, entered, outcome>>

Throw ==
    /\ At({"kThrow"})
    /\ Ends(Thrown)
    /\ UNCHANGED <<image, heap, entered>>

\* A frame with the arguments in r0, r1, ...; the other registers are zero.
Frame(f, args) ==
    [func |-> f, pc |-> 0,
     regs |-> [r \in Registers |-> IF r < Len(args) THEN args[r + 1] ELSE 0]]

\* The n registers from &regs[a + 1] on, when they are registers.
ArgsFrom(a, n) == [k \in 1 .. n |-> Reg(a + k)]

\* What a native function returns: something that depends on every argument.
NativeResult(fn, args) ==
    Wrap(fn + args[1] + 2 * args[2] + 3 * args[3] + 4 * args[4] + 5 * args[5] + 6 * args[6])

Pad(args, n) == [k \in 1 .. n |-> IF k <= Len(args) THEN args[k] ELSE 0]

CallsNative(fn, args) ==
    /\ Writes(Inst.a, NativeResult(fn, Pad(args, 6)))
    /\ entered' = Append(entered, <<fn, args>>)
    /\ UNCHANGED outcome

\* The CALL instruction: bytecode, else the native function of the id's wrapper.
Call ==
    /\ At({"kCall"})
    /\ LET f == Inst.imm
       IN  IF Inst.a + Inst.b >= kMaxRegisters THEN Ends(Undefined) /\ UNCHANGED entered
           ELSE IF f \in DOMAIN image
           THEN IF Len(stack) < MaxDepth
                THEN LET args == ArgsFrom(Inst.a, Inst.b)
                     IN  /\ stack' = Append(stack, Frame(f, args))
                         /\ entered' = Append(entered, <<f, args>>)
                         /\ UNCHANGED outcome
                ELSE Ends(Undefined) /\ UNCHANGED entered
           ELSE IF f \in DOMAIN NativeOf
           THEN CallsNative(NativeOf[f], Pad(ArgsFrom(Inst.a, Inst.b), 6))
           ELSE Ends(Thrown) /\ UNCHANGED entered
    /\ UNCHANGED <<image, heap>>

\* CALL_VIRT: reg[a] is the object and the arguments follow it; at most three
\* are passed on.
CallVirtual ==
    /\ At({"kCallVirtual"})
    /\ LET obj  == Reg(Inst.a)
           n    == IF Inst.b < 3 THEN Inst.b ELSE 3
           slot == Wrap(Cell(obj) + Inst.imm)
       IN  IF /\ Inst.a + n < kMaxRegisters
              /\ Mapped(obj) /\ Mapped(slot) /\ Cell(slot) \in DOMAIN Natives
           THEN CallsNative(Cell(slot), Pad(<<obj>> \o ArgsFrom(Inst.a, n), 4))
           ELSE Ends(Undefined) /\ UNCHANGED entered
    /\ UNCHANGED <<image, heap>>

\* CALL_NATIVE: one argument, through a function pointer in reg[b].
CallPointer ==
    /\ At({"kCallNative"})
    /\ IF Inst.a + 1 < kMaxRegisters /\ Reg(Inst.b) \in DOMAIN Natives
       THEN CallsNative(Reg(Inst.b), ArgsFrom(Inst.a, 1))
       ELSE Ends(Undefined) /\ UNCHANGED entered
    /\ UNCHANGED <<image, heap>>

\* The value that leaves the innermost frame; running off the code returns 0.
ReturnValue == IF ~ AtEnd /\ Inst.op = "kRet" THEN Reg(Inst.a) ELSE 0

\* The result goes to register a of the caller's CALL, which its pc has passed
\* only now.
Return ==
    /\ Running
    /\ AtEnd \/ At({"kRet", "kRetVoid"})
    /\ IF Len(stack) = 1
       THEN Ends(Returned(ReturnValue))
       ELSE LET caller == stack[Len(stack) - 1]
                a      == image[caller.func].code[caller.pc + 1].a
            IN  /\ stack' = [SubSeq(stack, 1, Len(stack) - 1) EXCEPT ![Len(stack) - 1] =
                                [caller EXCEPT !.pc = @ + 1, !.regs[a] = ReturnValue]]
                /\ UNCHANGED outcome
    /\ UNCHANGED <<image, heap, entered>>

\* An instruction whose code is none of OpCode's values.
Unknown ==
    /\ At({"unknown"})
    /\ Ends(Thrown)
    /\ UNCHANGED <<image, heap, entered>>

VmStep ==
    \/ Compute \/ Load \/ Store \/ Allocate \/ Release
    \/ Jump \/ Skip \/ Throw \/ Call \/ CallVirtual \/ CallPointer
    \/ Return \/ Unknown

=============================================================================
