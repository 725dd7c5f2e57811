---------------------------- MODULE SourceMeaning ---------------------------
(***************************************************************************)
(* What a C++ program of longs and doubles means: the reference that the   *)
(* frontend, the code generator and the interpreter are checked against.   *)
(* It is an evaluator of the cursors of Frontend, statement by statement,  *)
(* with variables by name and no registers, labels or jumps.               *)
(***************************************************************************)
EXTENDS Words, Sequences, SequencesExt, Bitwise, Maps

CONSTANT Fuel               \* iterations and calls after which a program counts as endless

\* The state of an evaluation: how is "on", "returned", "undefined" or "spent".
Meaningless(m, how) == [m EXCEPT !.how = how]

Arith(op, x, y) ==
    CASE op = "+" -> x + y
      [] op = "-" -> x - y
      [] op = "*" -> x * y
      [] op = "/" -> Quotient(x, y)
      [] op = "%" -> x - y * Quotient(x, y)
      [] op = "<<" -> x * 2 ^ y
      [] op = ">>" -> x \div 2 ^ y

Comparisons == {"==", "!=", "<", "<=", ">", ">="}

Holds(op, x, y) ==
    CASE op = "==" -> x = y
      [] op = "!=" -> x # y
      [] op = "<"  -> x < y
      [] op = "<=" -> x <= y
      [] op = ">"  -> x > y
      [] op = ">=" -> x >= y

\* Division by zero, shifts of or by what the language does not allow.
Forbidden(op, x, y) ==
    \/ op \in {"/", "%"} /\ y = 0
    \/ op \in {"<<", ">>"} /\ (y < 0 \/ y >= WordBits)
    \/ op = "<<" /\ x < 0

\* An operation on the values of two expressions; an overflow has no meaning.
Operate(m, e, a, b) ==
    LET double == e.kids[1].type = "double"
        x == IF double THEN ToF64(a) ELSE Signed(a)
        y == IF double THEN ToF64(b) ELSE Signed(b)
        Overflows(z) == z < -SignBit \/ z >= SignBit
    IN  CASE e.text \in Comparisons -> [m EXCEPT !.val = Truth(Holds(e.text, x, y))]
          [] e.text \in {"&", "|", "^"} ->
                [m EXCEPT !.val = CASE e.text = "&" -> a & b
                                    [] e.text = "|" -> a | b
                                    [] e.text = "^" -> a ^^ b]
          [] OTHER ->
                IF Forbidden(e.text, x, y) THEN Meaningless(m, "undefined")
                ELSE IF double THEN [m EXCEPT !.val = FromF64(Arith(e.text, x, y))]
                ELSE IF Overflows(Arith(e.text, x, y)) THEN Meaningless(m, "undefined")
                ELSE [m EXCEPT !.val = Wrap(Arith(e.text, x, y))]

-----------------------------------------------------------------------------

Defined(unit) == SelectSeq(unit, LAMBDA f : f.kind = "FunctionDecl"
                                            /\ \E k \in Range(f.kids) : k.kind = "CompoundStmt")
Params(f)  == SelectSeq(f.kids, LAMBDA k : k.kind = "ParmDecl")
Body(f)    == Last(f.kids)

\* The functions that a call may mean: of its callee's name, with as many
\* parameters as it has arguments.
Callees(unit, e) ==
    {k \in DOMAIN Defined(unit) : /\ Defined(unit)[k].text = e.kids[1].text
                                 /\ Len(Params(Defined(unit)[k])) = Len(e.kids) - 1}

IdOf(unit, e) == (CHOOSE k \in DOMAIN Defined(unit) : k \in Callees(unit, e)) - 1

\* The k-th child, where there is one.
Kid(e, k) == IF k <= Len(e.kids) THEN <<e.kids[k]>> ELSE <<>>

RECURSIVE Mean(_, _, _), Invoke(_, _, _, _), Loop(_, _, _, _, _)

\* Evaluates while the program has not returned or lost its meaning.
MeanAll(unit, m, kids) == FoldLeft(LAMBDA t, k : Mean(unit, t, k), m, kids)

Burn(m) == IF m.fuel = 0 THEN Meaningless(m, "spent") ELSE [m EXCEPT !.fuel = @ - 1]

\* A loop with its condition, its body and what follows the body.
Loop(unit, m, cond, body, after) ==
    LET c == Mean(unit, Burn(m), cond)
    IN  IF c.how # "on" \/ c.val = 0 THEN c
        ELSE Loop(unit, MeanAll(unit, Mean(unit, c, body), after), cond, body, after)

\* A call of function number id + 1 with the values of its arguments.
Invoke(unit, m, id, args) ==
    LET f == Defined(unit)[id + 1]
        start == [Burn(m) EXCEPT !.trace = Append(@, <<id, args>>),
                                 !.vars = [x \in {p.text : p \in Range(Params(f))} |->
                                    args[CHOOSE k \in DOMAIN args : Params(f)[k].text = x]]]
        end == Mean(unit, start, Body(f))
    IN  [end EXCEPT !.vars = m.vars,
            !.how = IF @ = "returned" \/ (@ = "on" /\ f.type = "void") THEN "on"
                    ELSE IF @ = "on" THEN "undefined" ELSE @]

Mean(unit, m, e) ==
    IF m.how # "on" THEN m ELSE
    CASE e.kind = "CompoundStmt" -> MeanAll(unit, m, e.kids)
      [] e.kind = "ReturnStmt" ->
            LET t == MeanAll(unit, m, e.kids)
            IN  IF t.how = "on" THEN Meaningless(t, "returned") ELSE t
      [] e.kind = "IfStmt" ->
            LET c == Mean(unit, m, e.kids[1])
            IN  IF c.how # "on" THEN c
                ELSE IF c.val # 0 THEN Mean(unit, c, e.kids[2])
                ELSE MeanAll(unit, c, Kid(e, 3))
      [] e.kind = "WhileStmt" -> Loop(unit, m, e.kids[1], e.kids[2], <<>>)
      [] e.kind = "ForStmt" ->
            Loop(unit, Mean(unit, m, e.kids[1]), e.kids[2], e.kids[4], <<e.kids[3]>>)
      [] e.kind = "DeclStmt" -> MeanAll(unit, m, e.kids)
      [] e.kind = "VarDecl" ->
            LET t == MeanAll(unit, m, e.kids)
            IN  IF e.kids = <<>> THEN m ELSE [t EXCEPT !.vars = Put(@, e.text, t.val)]
      [] e.kind = "BinaryOperator" /\ e.text = "=" ->
            LET t == Mean(unit, m, e.kids[2])
            IN  [t EXCEPT !.vars = Put(@, e.kids[1].text, t.val)]
      [] e.kind = "BinaryOperator" /\ e.text # "=" ->
            LET x == Mean(unit, m, e.kids[1])
                y == Mean(unit, x, e.kids[2])
            IN  IF y.how = "on" THEN Operate(y, e, x.val, y.val) ELSE y
      [] e.kind = "CallExpr" ->
            LET Arg(t, k) == LET u == Mean(unit, t.m, k) IN [m |-> u, args |-> Append(t.args, u.val)]
                all == FoldLeft(Arg, [m |-> m, args |-> <<>>], Tail(e.kids))
            IN  IF all.m.how = "on"
                THEN Invoke(unit, all.m, IdOf(unit, e), all.args) ELSE all.m
      [] e.kind = "DeclRefExpr" ->
            IF e.text \in DOMAIN m.vars THEN [m EXCEPT !.val = m.vars[e.text]]
            ELSE Meaningless(m, "undefined")
      [] e.kind = "IntegerLiteral" -> [m EXCEPT !.val = e.value]
      [] e.kind = "FloatingLiteral" -> [m EXCEPT !.val = e.value]

\* What a call of a function from outside does: its value, the calls it makes
\* in order, and how it ends.
Meaning(unit, id, args) ==
    Invoke(unit, [vars |-> EmptyMap, val |-> 0, trace |-> <<>>, how |-> "on", fuel |-> Fuel], id, args)

-----------------------------------------------------------------------------
(* The programs whose meaning the compiler is held to. *)

PlainKinds ==
    {"CompoundStmt", "ReturnStmt", "IfStmt", "WhileStmt", "DeclStmt", "VarDecl", "ParmDecl",
     "BinaryOperator", "CallExpr", "DeclRefExpr", "IntegerLiteral", "FloatingLiteral"}

Operators == Comparisons \cup {"+", "-", "*", "/", "%", "<<", ">>", "&", "|", "^", "="}

RECURSIVE Cursors(_)
Cursors(e) == <<e>> \o FlattenSeq([k \in DOMAIN e.kids |-> Cursors(e.kids[k])])

\* The operation is found by the first operator in its text: it must be its own.
OwnOperatorFirst(e) ==
    \A k \in Range(Cursors(e.kids[1])) : k.kind = "BinaryOperator" => k.text = e.text

\* A call means one function, of C linkage: a callee is looked up by its spelling
\* among the names that mangling gives.
PlainCursor(unit, e) ==
    /\ e.kind \in PlainKinds
    /\ e.kind = "BinaryOperator" =>
        /\ e.text \in Operators
        /\ OwnOperatorFirst(e)
        /\ e.text \in Comparisons => e.kids[1].type # "double"
        /\ e.text = "=" => e.kids[1].kind = "DeclRefExpr"
    /\ e.kind = "CallExpr" =>
        /\ \E k \in DOMAIN Defined(unit) :
              Callees(unit, e) = {k} /\ Defined(unit)[k].value = 1
        /\ Len(e.kids) <= 4
    /\ e.kind = "VarDecl" => e.kids # <<>>

\* There are functions only; each is of these cursors, names a variable once,
\* and has more registers than it can use.
PlainProgram(unit, registers) ==
    /\ \A f \in Range(unit) : f.kind = "FunctionDecl"
    /\ \A f \in Range(Defined(unit)) :
        LET inside == Tail(Cursors(f))
            named  == SelectSeq(inside, LAMBDA e : e.kind \in {"ParmDecl", "VarDecl"})
        IN  /\ \A e \in Range(inside) : PlainCursor(unit, e)
            /\ IsInjective([k \in DOMAIN named |-> named[k].text])
            /\ Len(inside) + 3 <= registers

=============================================================================
