------------------------------ MODULE Frontend ------------------------------
(***************************************************************************)
(* The frontend (compiler/frontend/ast_visitor.cpp): libclang's cursors    *)
(* are walked once and become the intermediate representation.             *)
(*                                                                         *)
(* A cursor is [kind, text, type, value, kids]: its spelling (for an       *)
(* operator its token), the kind of its type, a value (of a literal; the   *)
(* size of a class or of what new makes; for a method 1 if it is virtual;  *)
(* for a function 1 if it has C linkage), and its children, where libclang *)
(* leaves out a part that is not there.  A translation unit is a sequence  *)
(* of cursors.                                                             *)
(*                                                                         *)
(* A function is named by its mangled name, and a callee by its spelling.  *)
(***************************************************************************)
EXTENDS Codegen

Cursor(kind, text, type, value, kids) ==
    [kind |-> kind, text |-> text, type |-> type, value |-> value, kids |-> kids]

\* The k-th child, where there is one.
Kid(e, k) == IF k <= Len(e.kids) THEN <<e.kids[k]>> ELSE <<>>

\* On canonical types.  Of those that are not listed, "wide" is one of more
\* than eight bytes (long double, an array) and counts as a pointer; any other
\* counts as an integer: an enumeration, a reference to a type of at most
\* eight bytes, of which the size is that of what it refers to.
MapClangType(t) ==
    CASE t \in {"char", "uchar"}                       -> "I8"
      [] t \in {"short", "ushort"}                     -> "I16"
      [] t \in {"int", "uint"}                         -> "I32"
      [] t \in {"long", "ulong", "llong", "ullong"}    -> "I64"
      [] t = "float"                                   -> "F32"
      [] t = "double"                                  -> "F64"
      [] t = "bool"                                    -> "Bool"
      [] t = "void"                                    -> "Void"
      [] t = "record"                                  -> "Struct"
      [] t \in {"ptr", "wide"}                         -> "Ptr"
      [] OTHER                                         -> "I64"

-----------------------------------------------------------------------------
(* The state of the walk through a function: its body so far, next_reg,    *)
(* var_map_, next_label_, and the value of the expression lowered last.    *)

Push(s, inst) == [s EXCEPT !.body = Append(@, inst)]

\* func.NewReg(), as the value of the expression.
NewReg(s) == [s EXCEPT !.val = s.next_reg, !.next_reg = @ + 1]

\* An instruction on operands whose result is a new register.
Compute(s, op, args, imm) ==
    LET t == NewReg(s) IN Push(t, IRInst(op, t.val, args, imm))

To(op, label, v) == [IRInst(op, NoReg, <<v, NoReg, NoReg>>, 0) EXCEPT !.label = label]
Label(label)     == To("kLabel", label, NoReg)
Jmp(label)       == To("kJmp", label, NoReg)

LiteralOps == [IntegerLiteral |-> "kLoadImm", FloatingLiteral |-> "kLoadImmF"]

IntegerOp ==
    "+" :> "kAdd" @@ "-" :> "kSub" @@ "*" :> "kMul" @@ "/" :> "kDiv" @@ "%" :> "kMod" @@
    "==" :> "kCmpEq" @@ "!=" :> "kCmpNe" @@ "<" :> "kCmpLt" @@ "<=" :> "kCmpLe" @@
    ">" :> "kCmpGt" @@ ">=" :> "kCmpGe" @@ "&" :> "kAnd" @@ "|" :> "kOr" @@ "^" :> "kXor" @@
    "<<" :> "kShl" @@ ">>" :> "kShr"

FloatOp == "+" :> "kFAdd" @@ "-" :> "kFSub" @@ "*" :> "kFMul" @@ "/" :> "kFDiv"

OperatorTokens == DOMAIN IntegerOp \cup {"="}

\* The operator tokens of an expression, in the order of its text.
RECURSIVE Tokens(_)
Tokens(e) ==
    LET own  == IF e.text \in OperatorTokens THEN <<e.text>> ELSE <<>>
        rest == FlattenSeq([k \in DOMAIN e.kids |-> Tokens(e.kids[k])])
    IN  CASE e.kind = "BinaryOperator" -> Tokens(e.kids[1]) \o own \o Tokens(e.kids[2])
          [] e.kind = "UnaryOperator"  -> own \o rest
          [] OTHER                     -> rest

\* Mutant of OperatorOf: an operation on doubles is taken for one on integers.
IntegerOperatorOf(e) ==
    LET ts == Tokens(e)
    IN  IF ts = <<>> THEN "kAdd"
        ELSE IF Head(ts) = "=" THEN "kMov" ELSE IntegerOp[Head(ts)]

\* The first operator token in the text decides, whichever operation it
\* belongs to; an operator that is not in the list adds.
OperatorOf(e) ==
    LET ts == Tokens(e)
    IN  IF ts = <<>> THEN "kAdd"
        ELSE IF Head(ts) = "=" THEN "kMov"
        ELSE IF e.type \in {"float", "double"} /\ Head(ts) \in DOMAIN FloatOp
             THEN FloatOp[Head(ts)] ELSE IntegerOp[Head(ts)]

-----------------------------------------------------------------------------
(* Statements and expressions. *)

RECURSIVE Visit(_, _)

VisitAll(s, kids) == FoldLeft(LAMBDA t, k : Visit(t, k), s, kids)

LowerReturnStmt(s, e) ==
    IF e.kids = <<>> THEN Push(s, IRInst("kRetVoid", NoReg, <<NoReg, NoReg, NoReg>>, 0))
    ELSE LET t == Visit(s, e.kids[1])
         IN  Push(t, IRInst("kRet", NoReg, <<t.val, NoReg, NoReg>>, 0))

\* Children: condition, then, and else where there is one.
LowerIfStmt(s, e) ==
    LET else  == <<"else", s.next_label>>
        endif == <<"endif", s.next_label + 1>>
        cond  == Visit([s EXCEPT !.next_label = @ + 2], e.kids[1])
        then  == Visit(Push(cond, To("kBranchIfNot", else, cond.val)), e.kids[2])
        other == VisitAll(Push(Push(then, Jmp(endif)), Label(else)), Kid(e, 3))
    IN  Push(other, Label(endif))

\* Mutant of LowerWhileStmt: the labels of the loop's start and end are swapped.
LowerWhileSwapped(s, e) ==
    LET loop == <<"while", s.next_label>>
        end  == <<"endwhile", s.next_label + 1>>
        cond == Visit(Push([s EXCEPT !.next_label = @ + 2], Label(loop)), e.kids[1])
        body == Visit(Push(cond, To("kBranchIfNot", loop, cond.val)), e.kids[2])
    IN  Push(Push(body, Jmp(end)), Label(end))

LowerWhileStmt(s, e) ==
    LET loop == <<"while", s.next_label>>
        end  == <<"endwhile", s.next_label + 1>>
        cond == Visit(Push([s EXCEPT !.next_label = @ + 2], Label(loop)), e.kids[1])
        body == Visit(Push(cond, To("kBranchIfNot", end, cond.val)), e.kids[2])
    IN  Push(Push(body, Jmp(loop)), Label(end))

\* The children are taken by position: init, condition, increment, body.  The
\* increment is not lowered, and of the four labels two are placed.
LowerForStmt(s, e) ==
    LET loop == <<"for_cond", s.next_label>>
        end  == <<"for_end", s.next_label + 3>>
        init == Push(Visit([s EXCEPT !.next_label = @ + 4], e.kids[1]), Label(loop))
        cond == IF Len(e.kids) < 2 THEN init
                ELSE LET t == Visit(init, e.kids[2])
                     IN  Push(t, To("kBranchIfNot", end, t.val))
        body == VisitAll(cond, Kid(e, 4))
    IN  Push(Push(body, Jmp(loop)), Label(end))

\* The variable is known to its own initializer.
DeclareVar(s, v) ==
    LET t == NewReg(s)
        u == [t EXCEPT !.vars = Put(@, v.text, t.val)]
    IN  IF v.kids = <<>> THEN u
        ELSE LET w == Visit(u, v.kids[1])
             IN  Push(w, IRInst("kMov", t.val, <<w.val, NoReg, NoReg>>, 0))

LowerDeclStmt(s, e) ==
    FoldLeft(DeclareVar, s, SelectSeq(e.kids, LAMBDA v : v.kind = "VarDecl"))

\* A register is taken for the result in every case; an assignment leaves it
\* unused, and moves into whatever its left side was lowered to.
LowerBinaryOp(s, e) ==
    LET x == Visit(s, e.kids[1])
        y == Visit(x, e.kids[2])
        t == NewReg(y)
    IN  IF OperatorOf(e) = "kMov"
        THEN [Push(t, IRInst("kMov", x.val, <<y.val, NoReg, NoReg>>, 0)) EXCEPT !.val = x.val]
        ELSE Push(t, IRInst(OperatorOf(e), t.val, <<x.val, y.val, NoReg>>, 0))

\* The operand is not lowered, and every operator negates.
LowerUnaryOp(s) == Compute(s, "kNeg", <<NoReg, NoReg, NoReg>>, 0)

\* The first child's spelling names the callee; the others are the arguments, of
\* which three are passed.
LowerCallExpr(s, e) ==
    LET Arg(t, k) == LET u == Visit(t.s, k) IN [s |-> u, args |-> Append(t.args, u.val)]
        all  == FoldLeft(Arg, [s |-> s, args |-> <<>>], Tail(e.kids))
        args == SubSeq(all.args \o <<NoReg, NoReg, NoReg>>, 1, 3)
        t    == NewReg(all.s)
    IN  Push(t, [IRInst("kCall", t.val, args, 0) EXCEPT !.name = <<e.kids[1].text>>])

\* The field's offset stays zero.
LowerMemberExpr(s, e) ==
    LET obj == VisitAll([s EXCEPT !.val = NoReg], Kid(e, 1))
    IN  Compute(obj, "kGetField", <<obj.val, NoReg, NoReg>>, 0)

\* A name that was not declared gets a register of its own.
LowerDeclRef(s, e) ==
    IF e.text \in DOMAIN s.vars THEN [s EXCEPT !.val = s.vars[e.text]]
    ELSE LET t == NewReg(s) IN [t EXCEPT !.vars = Put(@, e.text, t.val)]

LowerThisExpr(s) ==
    [s EXCEPT !.val = IF "this" \in DOMAIN s.vars THEN s.vars["this"] ELSE 0]

\* delete frees a value that is not a register, which means register 0.
LowerDeleteExpr(s) ==
    [Push(s, IRInst("kFree", NoReg, <<NoReg, NoReg, NoReg>>, 0)) EXCEPT !.val = NoReg]

\* A parenthesis has no value, and a kind of cursor that is not listed gets a
\* register that nothing writes.
Visit(s, e) ==
    CASE e.kind = "CompoundStmt"   -> VisitAll(s, e.kids)
      [] e.kind = "ReturnStmt"     -> LowerReturnStmt(s, e)
      [] e.kind = "IfStmt"         -> LowerIfStmt(s, e)
      [] e.kind = "WhileStmt"      -> LowerWhileStmt(s, e)
      [] e.kind = "ForStmt"        -> LowerForStmt(s, e)
      [] e.kind = "DeclStmt"       -> LowerDeclStmt(s, e)
      [] e.kind = "BinaryOperator" -> LowerBinaryOp(s, e)
      [] e.kind = "UnaryOperator"  -> LowerUnaryOp(s)
      [] e.kind = "CallExpr"       -> LowerCallExpr(s, e)
      [] e.kind = "MemberRefExpr"  -> LowerMemberExpr(s, e)
      [] e.kind = "DeclRefExpr"    -> LowerDeclRef(s, e)
      [] e.kind \in DOMAIN LiteralOps ->
            Compute(s, LiteralOps[e.kind], <<NoReg, NoReg, NoReg>>, e.value)
      [] e.kind = "CXXThisExpr"    -> LowerThisExpr(s)
      [] e.kind = "ParenExpr"      -> [s EXCEPT !.val = NoReg]
      [] e.kind = "CXXNewExpr"     ->
            Compute(s, "kAlloc", <<NoReg, NoReg, NoReg>>, IF e.value = 0 THEN 1 ELSE e.value)
      [] e.kind = "CXXDeleteExpr"  -> LowerDeleteExpr(s)
      [] OTHER                     -> NewReg(s)

-----------------------------------------------------------------------------
(* Declarations.  The visitor's own state: next_func_id_, next_type_id_,   *)
(* next_label_, type_ids_ and the module.                                  *)

\* Mutant of VisitorInit: the first function has number 1.
VisitorFromOne ==
    [next_func_id |-> 1, next_type_id |-> 0, next_label |-> 0, type_ids |-> EmptyMap,
     types |-> <<>>, functions |-> <<>>]

VisitorInit ==
    [next_func_id |-> 0, next_type_id |-> 0, next_label |-> 0, type_ids |-> EmptyMap,
     types |-> <<>>, functions |-> <<>>]

Methods == {"CXXMethod", "Constructor", "Destructor"}

\* GetCursorMangledName: the spelling of a function of C linkage; of any other,
\* a name that its parameters' types are part of.  The class is left out.
Mangled(f) ==
    IF f.kind = "FunctionDecl" /\ f.value = 1 THEN <<f.text>>
    ELSE LET named == SelectSeq(f.kids, LAMBDA k : k.kind = "ParmDecl")
         IN  <<"_Z", f.text>> \o [k \in DOMAIN named |-> named[k].type]

ExtractParam(k) == [name |-> k.text, type |-> MapClangType(k.type)]

\* A function's children: its parameters, then its body, a CompoundStmt; other
\* children, as a constructor's initializers, are passed over.  A method has
\* this as its first parameter.
LowerFunction(v, f) ==
    LET named  == SelectSeq(f.kids, LAMBDA k : k.kind = "ParmDecl")
        this   == IF f.kind \in Methods THEN <<[name |-> "this", type |-> "Ptr"]>> ELSE <<>>
        params == this \o [k \in DOMAIN named |-> ExtractParam(named[k])]
        start  == [body |-> <<>>, next_reg |-> Len(params), next_label |-> v.next_label, val |-> NoReg,
                   vars |-> FoldLeft(LAMBDA m, k : Put(m, params[k].name, k - 1), EmptyMap,
                                     [k \in DOMAIN params |-> k])]
        end    == VisitAll(start, SelectSeq(f.kids, LAMBDA k : k.kind = "CompoundStmt"))
        func   == [func_id |-> v.next_func_id, name |-> Mangled(f), params |-> params,
                   return_type |-> MapClangType(f.type), body |-> end.body]
    IN  [v EXCEPT !.next_func_id = @ + 1, !.next_label = end.next_label,
                  !.functions = Append(@, func)]

IRTypeOrder  == <<"Void", "I8", "I16", "I32", "I64", "F32", "F64", "Ptr", "Bool", "Struct">>
ArgKindOrder == <<"I8", "I16", "I32", "I64", "F32", "F64", "Ptr", "Bool", "8", "9">>

\* The number of an IRType taken for the number of an ArgKind.
FieldKind(t) ==
    ArgKindOrder[CHOOSE k \in DOMAIN IRTypeOrder : IRTypeOrder[k] = MapClangType(t)]

\* The slots are counted from the class's own first virtual method.  Of several
\* bases the last one that is known counts; value says that a method is virtual.
ExtractClassInfo(v, c) ==
    LET fields == SelectSeq(c.kids, LAMBDA k : k.kind = "FieldDecl")
        virt   == SelectSeq(c.kids, LAMBDA k : k.kind = "CXXMethod" /\ k.value = 1)
        bases  == SelectSeq(c.kids, LAMBDA k : k.kind = "CXXBaseSpecifier"
                                               /\ k.text \in DOMAIN v.type_ids)
    IN  [type_id |-> v.next_type_id, name |-> c.text, size |-> c.value,
         fields |-> [k \in DOMAIN fields |-> [name |-> fields[k].text, offset |-> fields[k].value,
                                              kind |-> FieldKind(fields[k].type)]],
         vmethods |-> [k \in DOMAIN virt |-> [name |-> virt[k].text, vtable_slot |-> k - 1,
                                              func_id |-> NoTarget]],
         base_type_id |-> IF bases = <<>> THEN NoTarget ELSE v.type_ids[Last(bases).text]]

\* clang_isCursorDefinition: a declared function has no body, a declared class
\* no size.
HasBody(f) == \E k \in Range(f.kids) : k.kind = "CompoundStmt"

\* The members of a class are lowered after its TypeInfo has been recorded.
VisitClass(v, c) ==
    LET ti == ExtractClassInfo(v, c)
        w  == [v EXCEPT !.next_type_id = @ + 1, !.types = Append(@, ti),
                        !.type_ids = Put(@, c.text, ti.type_id)]
    IN  FoldLeft(LowerFunction, w,
                 SelectSeq(c.kids, LAMBDA k : k.kind \in Methods /\ HasBody(k)))

\* Namespaces are not entered.
VisitTopLevel(v, c) ==
    CASE c.kind \in {"FunctionDecl", "CXXMethod"} /\ HasBody(c) -> LowerFunction(v, c)
      [] c.kind \in {"ClassDecl", "StructDecl"} /\ c.value > 0 -> VisitClass(v, c)
      [] OTHER -> v

Parse(unit) == FoldLeft(VisitTopLevel, VisitorInit, unit)

=============================================================================
