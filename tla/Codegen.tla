------------------------------- MODULE Codegen ------------------------------
(***************************************************************************)
(* The code generator (compiler/codegen/codegen.cpp): a function of the    *)
(* intermediate representation becomes bytecode, in one pass that patches  *)
(* the forward jumps at its end.                                           *)
(*                                                                         *)
(* An IR instruction is [op, dest, args, label, name, imm]: dest and the   *)
(* three args are IR registers or NoReg (a value that is not a register),  *)
(* name is the callee of a call, and imm is the immediate, the size or the *)
(* field offset.  A name is the sequence of its parts (see Frontend).      *)
(***************************************************************************)
EXTENDS Integers, Sequences, SequencesExt, Maps

CONSTANT kMaxRegisters      \* the values of the uint8_t next_vm_reg_

NoReg    == -1
NoLabel  == <<"", 0>>
NoTarget == 2 ^ 20          \* UINT32_MAX: a pc and a function id nothing has

IRInst(op, dest, args, imm) ==
    [op |-> op, dest |-> dest, args |-> args, label |-> NoLabel, name |-> <<>>, imm |-> imm]

Instruction(op, a, b, c, imm) == [op |-> op, a |-> a, b |-> b, c |-> c, imm |-> imm]

ArgKindOf(t) == IF t \in {"I8", "I16", "I32", "I64", "F32", "F64", "Ptr", "Bool"} THEN t ELSE "I64"

RetKindOf(t) ==
    CASE t = "Void"           -> "Void"
      [] t \in {"F32", "F64"} -> "F64"
      [] t = "Ptr"            -> "Ptr"
      [] OTHER                -> "I64"

-----------------------------------------------------------------------------
(* The generator's state: the code so far, reg_map_, next_vm_reg_,         *)
(* label_pcs_ and forward_refs_.                                           *)

\* AllocReg and GetReg: both give a register to an IR register they meet first.
Alloc(g, v) ==
    IF v = NoReg \/ v \in DOMAIN g.reg_map THEN g
    ELSE [g EXCEPT !.reg_map = Put(@, v, g.next), !.next = (@ + 1) % kMaxRegisters]

AllocAll(g, values) == FoldLeft(Alloc, g, values)

RegOf(g, v) == IF v = NoReg THEN 0 ELSE g.reg_map[v]

EmitInst(g, inst) == [g EXCEPT !.code = Append(@, inst)]

\* Registers for the three values, in that order, and the instruction on them.
Emit(g, op, values, imm) ==
    LET h == AllocAll(g, values)
    IN  EmitInst(h, Instruction(op, RegOf(h, values[1]), RegOf(h, values[2]),
                                RegOf(h, values[3]), imm))

-----------------------------------------------------------------------------
(* Which bytecode an IR operation becomes. *)

Arithmetic ==
    [kAdd |-> "kAddI64", kSub |-> "kSubI64", kMul |-> "kMulI64", kDiv |-> "kDivI64",
     kMod |-> "kModI64", kNeg |-> "kNegI64", kFAdd |-> "kAddF64", kFSub |-> "kSubF64",
     kFMul |-> "kMulF64", kFDiv |-> "kDivF64", kFNeg |-> "kNegF64"]

Comparison ==
    [kCmpEq |-> "kCmpEq", kCmpNe |-> "kCmpNe", kCmpLt |-> "kCmpLt",
     kCmpLe |-> "kCmpLe", kCmpGt |-> "kCmpGt", kCmpGe |-> "kCmpGe"]

BitwiseTo ==
    [kAnd |-> "kAnd", kOr |-> "kOr", kXor |-> "kXor",
     kNot |-> "kNot", kShl |-> "kShl", kShr |-> "kShr"]

\* A load of any width reads all eight bytes.
Loading ==
    [kLoadImm |-> "kLdi", kLoadImmF |-> "kLdF64", kMov |-> "kMov",
     kLoad |-> "kLoadI64", kLoadField |-> "kLoadField", kGetField |-> "kLoadField",
     kAlloc |-> "kAlloc", kGetVTablePtr |-> "kGetVTablePtr",
     kI64ToF64 |-> "kI64ToF64", kF64ToI64 |-> "kF64ToI64", kBitcast |-> "kMov"]

\* Those whose first register is an operand.
Storing ==
    [kStore |-> "kStoreI64", kStoreField |-> "kStoreField", kSetField |-> "kStoreField",
     kFree |-> "kFree", kRet |-> "kRet", kThrow |-> "kThrow"]

Plain == [kRetVoid |-> "kRetVoid", kTryBegin |-> "kTryEnter", kTryEnd |-> "kTryExit"]

Jumps == [kJmp |-> "kJmp", kBranchIf |-> "kJnz", kBranchIfNot |-> "kJz"]

-----------------------------------------------------------------------------

GetLabelPC(g, l) == IF l \in DOMAIN g.label_pcs THEN g.label_pcs[l] ELSE NoTarget

RecordLabel(g, i) == [g EXCEPT !.label_pcs = Put(@, i.label, Len(g.code))]

\* The operand's register is taken before the label is looked up.
EmitJump(g, i) ==
    LET h      == Emit(g, Jumps[i.op], <<i.args[1], NoReg, NoReg>>, GetLabelPC(g, i.label))
    IN  IF GetLabelPC(g, i.label) # NoTarget THEN h
        ELSE [h EXCEPT !.forward = Append(@, [at |-> Len(g.code) + 1, label |-> i.label])]

\* Mutant of PatchJumps: only the first forward reference is patched.
PatchFirstJump(g) ==
    [k \in DOMAIN g.code |->
        IF Len(g.forward) > 0 /\ g.forward[1].at = k
        THEN [g.code[k] EXCEPT !.imm = GetLabelPC(g, g.forward[1].label)] ELSE g.code[k]]

\* A reference to a label that never came keeps UINT32_MAX.
PatchJumps(g) ==
    [k \in DOMAIN g.code |->
        IF \E r \in Range(g.forward) : r.at = k
        THEN [g.code[k] EXCEPT !.imm =
                GetLabelPC(g, (CHOOSE r \in Range(g.forward) : r.at = k).label)]
        ELSE g.code[k]]

\* The k-th argument of a call goes to the k-th register after the result's,
\* which the allocator is not told of.
MoveArgument(g, d, k, v) ==
    LET h == Alloc(g, v)
    IN  IF v = NoReg \/ RegOf(h, v) = d + k THEN h
        ELSE EmitInst(h, Instruction("kMov", (d + k) % kMaxRegisters, RegOf(h, v), 0, 0))

\* A callee that is no function of the module has no id.
EmitCall(ids, g, i) ==
    LET g0 == Alloc(g, i.dest)
        d  == RegOf(g0, i.dest)
        g3 == FoldLeft(LAMBDA h, k : MoveArgument(h, d, k, i.args[k]), g0, <<1, 2, 3>>)
        n  == Len(SelectSeq(i.args, LAMBDA v : v # NoReg))
        id == IF i.name \in DOMAIN ids THEN ids[i.name] ELSE NoTarget
    IN  EmitInst(g3, Instruction("kCall", d, n, 0, id))

\* The arguments after the object stay where they are; the result is copied
\* from the object's register.
EmitCallVirtual(g, i) ==
    LET h   == AllocAll(g, <<i.dest, i.args[1]>>)
        d   == RegOf(h, i.dest)
        obj == RegOf(h, i.args[1])
        n   == Len(SelectSeq(SubSeq(i.args, 2, 3), LAMBDA v : v # NoReg))
        call == EmitInst(h, Instruction("kCallVirtual", obj, n, 0, i.imm))
    IN  IF obj = d THEN call ELSE EmitInst(call, Instruction("kMov", d, obj, 0, 0))

\* One IR instruction.
LowerInst(ids, g, i) ==
    LET three == <<i.dest, i.args[1], i.args[2]>>
    IN  CASE i.op \in DOMAIN Arithmetic -> Emit(g, Arithmetic[i.op], three, 0)
          [] i.op \in DOMAIN Comparison -> Emit(g, Comparison[i.op], three, 0)
          [] i.op \in DOMAIN BitwiseTo  -> Emit(g, BitwiseTo[i.op], three, 0)
          [] i.op \in DOMAIN Loading    -> Emit(g, Loading[i.op], <<i.dest, i.args[1], NoReg>>, i.imm)
          [] i.op \in DOMAIN Storing    -> Emit(g, Storing[i.op], <<i.args[1], i.args[2], NoReg>>, i.imm)
          [] i.op \in DOMAIN Plain      -> EmitInst(g, Instruction(Plain[i.op], 0, 0, 0, 0))
          [] i.op \in DOMAIN Jumps      -> EmitJump(g, i)
          [] i.op = "kLabel"            -> RecordLabel(g, i)
          [] i.op = "kCall"             -> EmitCall(ids, g, i)
          [] i.op = "kCallVirtual"      -> EmitCallVirtual(g, i)
          [] OTHER                      -> EmitInst(g, Instruction("kNop", 0, 0, 0, 0))

\* The parameters are in the first registers.
GenerateFunction(ids, f) ==
    LET n     == Len(f.params)
        start == [code |-> <<>>, reg_map |-> [r \in 0 .. (n - 1) |-> r % kMaxRegisters],
                  next |-> n % kMaxRegisters, label_pcs |-> EmptyMap, forward |-> <<>>]
        g     == FoldLeft(LAMBDA h, i : LowerInst(ids, h, i), start, f.body)
    IN  [func_id |-> f.func_id, name |-> f.name, reg_count |-> g.next,
         param_kinds |-> [k \in 1 .. n |-> ArgKindOf(f.params[k].type)],
         ret_kind |-> RetKindOf(f.return_type), code |-> PatchJumps(g)]

\* All functions get an entry in func_ids_ before the first is generated.
Generate(ir) ==
    LET ids == FoldLeft(LAMBDA m, f : Put(m, f.name, f.func_id), EmptyMap, ir.functions)
    IN  [types |-> ir.types,
         functions |-> [k \in DOMAIN ir.functions |-> GenerateFunction(ids, ir.functions[k])]]

=============================================================================
