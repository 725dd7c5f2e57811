----------------------------- MODULE MCToolchain ----------------------------
(***************************************************************************)
(* Instances for Toolchain: small translation units, and modules built by  *)
(* hand as tests/test_integration.cpp and the examples build them.         *)
(***************************************************************************)
EXTENDS Toolchain, TLC

C(kind, text, type, value, kids) == Compiler!Cursor(kind, text, type, value, kids)

L(v)        == C("IntegerLiteral", "", "long", v, <<>>)
D(v)        == C("FloatingLiteral", "", "double", v, <<>>)
V(x)        == C("DeclRefExpr", x, "long", 0, <<>>)
VD(x)       == C("DeclRefExpr", x, "double", 0, <<>>)
B(op, x, y) == C("BinaryOperator", op, "long", 0, <<x, y>>)
F(op, x, y) == C("BinaryOperator", op, "double", 0, <<x, y>>)
Set(x, e)   == B("=", V(x), e)
Block(es)   == C("CompoundStmt", "", "void", 0, es)
Ret(e)      == C("ReturnStmt", "", "void", 0, <<e>>)
RetVoid     == C("ReturnStmt", "", "void", 0, <<>>)
If(es)      == C("IfStmt", "", "void", 0, es)
While(c, b) == C("WhileStmt", "", "void", 0, <<c, b>>)
For(es)     == C("ForStmt", "", "void", 0, es)
Var(x, es)  == C("VarDecl", x, "long", 0, es)
Decl(x, e)  == C("DeclStmt", "", "void", 0, <<Var(x, <<e>>)>>)
CallOf(f, es) == C("CallExpr", f, "long", 0, <<V(f)>> \o es)
Par(x, t)   == C("ParmDecl", x, t, 0, <<>>)
Fun(name, type, ps, es) == C("FunctionDecl", name, type, 0, ps \o <<Block(es)>>)
ExternC(f)  == [f EXCEPT !.value = 1]

AB == <<Par("a", "long"), Par("b", "long")>>
a == V("a")
b == V("b")

\* Expressions over two longs: every operator, repeated, to the left and to the
\* right of another.
Ops == {"+", "-", "*", "/", "%", "==", "!=", "<", "<=", ">", ">=", "&", "|", "^", "<<", ">>"}

Expressions ==
    {B(op, a, b) : op \in Ops}
    \cup {B(op, B(op, a, b), L(3)) : op \in {"+", "-", "*"}}
    \cup {B(op, a, B(other, b, L(2))) : op \in {"+", "-", "*", "/", "<", "&"}, other \in Ops}
    \cup {B("-", B("*", a, b), L(1))}       \* not plain: the product's operator comes first

ExpressionUnits == {<<Fun("f", "long", AB, <<Ret(e)>>)>> : e \in Expressions}

\* sum of b, b - 1, ... 1 on top of a, with what the loop's body does varying.
Loops ==
    {<<Fun("f", "long", AB,
        <<Decl("s", a), Decl("n", b),
          While(B(">", V("n"), L(0)), Block(body \o <<Set("n", B("-", V("n"), L(1)))>>)),
          Ret(V("s"))>>)>> :
     body \in {<<Set("s", B("+", V("s"), V("n")))>>,
               <<If(<<B("<", V("s"), L(4)), Set("s", B("+", V("s"), V("n")))>>)>>,
               <<If(<<B("==", V("s"), V("n")), Ret(V("n")), Set("s", B("*", V("s"), L(2)))>>)>>}}

\* max, written with and without else, and a void function.
Branches ==
    {<<Fun("f", "long", AB, body)>> :
     body \in {<<If(<<B("<", a, b), Ret(b)>>), Ret(a)>>,
               <<If(<<B("<", a, b), Block(<<Ret(b)>>), Block(<<Ret(a)>>)>>)>>,
               <<If(<<B("<", a, b), If(<<B("<", a, L(0)), Ret(L(0)), Ret(a)>>)>>), Ret(b)>>}}
    \cup {<<Fun("f", "void", AB, <<If(<<B("<", a, b), RetVoid>>), Set("a", b)>>)>>}

Id(f)   == ExternC(Fun(f, "long", AB, <<Ret(B("-", a, b))>>))
Fact    == ExternC(Fun("fact", "long", <<Par("n", "long")>>,
               <<If(<<B("<=", V("n"), L(1)), Ret(L(1))>>),
                 Ret(B("*", V("n"), CallOf("fact", <<B("-", V("n"), L(1))>>)))>>))
Three   == ExternC(Fun("g", "long", <<Par("x", "long"), Par("y", "long"), Par("z", "long")>>,
               <<Ret(B("-", V("x"), B("-", V("y"), V("z"))))>>))

\* Calls of functions of C linkage: nested, in a loop, recursive, of three
\* arguments, with the callee before and behind the caller, and beside an
\* overload that only its mangling keeps apart from it.
Calls ==
    {<<Id("h"), Fun("f", "long", AB, <<Ret(e)>>)>> :
        e \in {CallOf("h", <<b, a>>), CallOf("h", <<CallOf("h", <<a, b>>), CallOf("h", <<b, b>>)>>),
               B("-", a, CallOf("h", <<a, L(1)>>)), B("-", CallOf("h", <<a, L(1)>>), CallOf("h", <<b, a>>))}}
    \cup {<<Fact>>,
          <<Fun("f", "long", AB, <<Ret(CallOf("g", <<a, b, L(2)>>))>>), Three>>,
          <<Fun("f", "long", AB,
              <<Decl("s", L(0)),
                While(B("<", V("s"), b), Set("s", CallOf("h", <<V("s"), L(Modulus - 1)>>))),
                Ret(V("s"))>>), Id("h")>>,
          <<Id("h"), Fun("f", "long", AB, <<Ret(CallOf("h", <<b, a>>))>>),
            Fun("h", "long", <<Par("x", "double")>>, <<Ret(L(1))>>)>>}

\* Longs and doubles among the parameters.
Mixed ==
    {<<Fun("f", type, <<Par("a", "long"), Par("x", "double"), Par("b", "long"), Par("y", "double")>>,
           <<Ret(e)>>)>> :
        <<type, e>> \in {<<"long", B("-", a, b)>>, <<"double", F("-", VD("x"), VD("y"))>>,
                         <<"double", F("*", VD("y"), F("+", VD("x"), D(1)))>>}}
    \cup {<<Fun("f", "double", <<Par("x", "double"), Par("y", "double")>>,
                <<Ret(F(op, VD("x"), VD("y")))>>)>> : op \in {"+", "-", "*"}}

\* What the compiler takes but does not translate as meant.
Count(es) == <<Fun("f", "long", AB, <<Decl("s", L(0)), For(es), Ret(V("s"))>>)>>
Upto      == <<Decl("i", L(0)), B("<", V("i"), b), Set("i", B("+", V("i"), L(1)))>>
ForUnits  == {Count(Upto \o <<Set("s", B("+", V("s"), V("i")))>>)}

Odd(e) == <<Fun("f", "long", AB, <<Ret(e)>>)>>

OtherUnits ==
    ForUnits
    \cup {Count(Tail(Upto) \o <<Set("s", V("i"))>>), Count(<<Set("s", a)>>)}
    \cup {Odd(C("UnaryOperator", "-", "long", 0, <<a>>)), Odd(C("ParenExpr", "", "long", 0, <<a>>)),
          Odd(C("UnexposedExpr", "a", "long", 0, <<a>>)), Odd(V("unknown")),
          Odd(B("&&", a, b)), Odd(CallOf("none", <<a>>)),
          Odd(B("+", C("CXXNewExpr", "", "ptr", 0, <<>>), C("CXXDeleteExpr", "", "void", 0, <<a>>)))}
    \cup {<<Fun("h", "long", AB, <<Ret(a)>>), Fun("f", "long", AB, <<Ret(CallOf("h", <<a, b>>))>>)>>}
    \cup {<<Fun("k", "long", <<>>, <<C("DeclStmt", "", "void", 0, <<Var("s", <<>>)>>), Ret(V("s"))>>)>>,
          <<C("ClassDecl", "P", "record", 2,
              <<C("FieldDecl", "f", "long", 0, <<>>),
                C("CXXMethod", "get", "long", 1,
                  <<Block(<<Ret(C("MemberRefExpr", "f", "long", 0, <<C("CXXThisExpr", "", "ptr", 0, <<>>)>>))>>)>>)>>)>>}

PlainUnits == ExpressionUnits \cup Loops \cup Branches \cup Calls \cup Mixed
AllUnits   == PlainUnits \cup OtherUnits

-----------------------------------------------------------------------------

I(op, ra, rb, rc, imm) == [op |-> op, a |-> ra, b |-> rb, c |-> rc, imm |-> imm]

Bytecode(kinds, ret, code) == [param_kinds |-> kinds, ret_kind |-> ret, code |-> code]

Numbered(fs) == [k \in DOMAIN fs |-> [func_id |-> k - 1, param_kinds |-> fs[k].param_kinds,
                                      ret_kind |-> fs[k].ret_kind, code |-> fs[k].code]]

One == <<"I64">>

\* r1 = alloc; stores and loads of every width; free.
Memory(store, load) ==
    Bytecode(One, "I64",
        <<I("kAlloc", 1, 0, 0, 2), I(store, 1, 0, 0, 1), I(load, 2, 1, 0, 1),
          I("kFree", 1, 0, 0, 0), I("kRet", 2, 0, 0, 0)>>)

Single(ret, code) == Numbered(<<Bytecode(One, ret, code \o <<I("kRet", 1, 0, 0, 0)>>)>>)

HandBuilt ==
    {Numbered(<<Memory("kStore" \o w, "kLoad" \o w)>>) : w \in {"I8", "I16", "I32", "I64", "Field"}}
    \cup {Numbered(<<Memory("kStorePtr", "kGetVTablePtr")>>)}
    \cup {Single("I64", code) : code \in
        {<<I("kLdi", 1, 0, 0, 100), I("kCallVirtual", 1, 3, 0, 1)>>,
         <<I("kLdi", 2, 0, 0, 201), I("kMov", 3, 0, 0, 0), I("kMov", 2, 2, 0, 0), I("kCallNative", 1, 2, 0, 0)>>,
         <<I("kMov", 2, 0, 0, 0), I("kCall", 1, 1, 0, 9)>>,
         <<I("kTryEnter", 0, 0, 0, 0), I("kThrow", 0, 0, 0, 0), I("kTryExit", 0, 0, 0, 0)>>,
         <<I("kNop", 0, 0, 0, 0), I("kTryEnter", 0, 0, 0, 0), I("kTryExit", 0, 0, 0, 0), I("unknown", 0, 0, 0, 0)>>,
         <<I("kI64ToF64", 1, 0, 0, 0), I("kNegF64", 1, 1, 0, 0), I("kF64ToI64", 1, 1, 0, 0)>>,
         <<I("kNot", 1, 0, 0, 0), I("kDivI64", 1, 1, 0, 0)>>,
         <<I("kLdi", 2, 0, 0, 99), I("kJnz", 0, 0, 0, 3), I("kFree", 2, 0, 0, 0), I("kLoadI64", 1, 2, 0, 0)>>,
         <<I("kAlloc", 1, 0, 0, 9)>>,
         <<I("kJmp", 0, 0, 0, 77)>>}}
    \cup {Numbered(<<Bytecode([k \in 1 .. 7 |-> "I64"], "I64", <<I("kRet", 6, 0, 0, 0)>>)>>),
          Numbered(<<Bytecode([k \in 1 .. 9 |-> IF k % 3 = 0 THEN "Ptr" ELSE "F64"], "F64",
                              <<I("kRet", 7, 0, 0, 0)>>)>>),
          Numbered(<<Bytecode(<<>>, "Void", <<I("kCall", 1, 0, 0, 1)>>),
                     Bytecode(<<>>, "Ptr", <<I("kLdi", 1, 0, 0, 0), I("kDivI64", 1, 1, 1, 0)>>)>>)}

NoModules == {}
NoUnits   == {}

NativeOnly == {Numbered(<<Bytecode(<<>>, "Void", <<>>)>>)}

\* All the values for two arguments; beyond that, arguments that differ.
MCArguments ==
    UNION {[1 .. n -> {1, 3, Modulus - 1}] : n \in 0 .. 2}
    \cup {[k \in 1 .. n |-> 2 * k + 1] : n \in 3 .. 9}

MCObjects  == 100 :> [c \in 0 .. 0 |-> 110] @@ 110 :> [c \in 0 .. 1 |-> 200 + c]
MCNatives  == 200 :> "first" @@ 201 :> "second"
MCNativeOf == 9 :> 201
MCBlocks   == 120 .. 125

=============================================================================
