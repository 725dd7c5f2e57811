----------------------------- MODULE MCDelivery -----------------------------
(***************************************************************************)
(* Versions of a program of up to three functions, f calling the others,   *)
(* numbered in the order of the source as hotvm-compile numbers them.      *)
(***************************************************************************)
EXTENDS Delivery, TLC

Op(op, a, b, c, imm32, imm64) ==
    [op |-> op, a |-> a, b |-> b, c |-> c, imm32 |-> imm32, imm64 |-> imm64]

Fn(name, kinds, ret, code) ==
    [func_id |-> 0, name |-> name, reg_count |-> 4, param_kinds |-> kinds, ret_kind |-> ret,
     code |-> code, unwind_entries |-> <<>>]

Ret == Op("kRet", 2, 0, 0, 0, 0)

Calls(callee) == Fn("f", <<"I64">>, "I64", <<Op("kCall", 1, 1, 0, callee, 0), Ret>>)
Leaf(op)      == Fn("g", <<"I64", "F64">>, "I64", <<Op(op, 2, 0, 1, 0, 0), Ret>>)
Fixed         == Fn("f", <<"I64">>, "I64", <<Op("kLdi", 2, 0, 0, 0, 7), Ret>>)
Returning(fn, ret) == [fn EXCEPT !.ret_kind = ret]
Extra         == [Fn("h", <<>>, "I64", <<Op("kLdi", 2, 0, 0, 0, 9), Ret>>) EXCEPT
                    !.unwind_entries = <<[try_begin |-> 0, try_end |-> 1, catch_pc |-> 1,
                                          dtor_slot |-> 0, catch_type |-> 3]>>]

Class == [type_id |-> 0, name |-> "Calculator", size |-> 16, align |-> 8, base_type_id |-> -1,
          fields |-> <<[name |-> "value_", offset |-> 8, kind |-> "I64", type_id |-> -1]>>,
          vmethods |-> <<[name |-> "compute", vtable_slot |-> 0, func_id |-> -1]>>]

Module(types, fns) ==
    [types |-> types, functions |-> [k \in DOMAIN fns |-> [fns[k] EXCEPT !.func_id = k - 1]]]

\* The first version; another result of g; g gone; h added and called; h put
\* before g, so that g's number changes; only the types differ from the first.
All == <<Module(<<Class>>, <<Calls(1), Leaf("kAddI64")>>),
         Module(<<Class>>, <<Calls(1), Returning(Leaf("kMulF64"), "F64")>>),
         Module(<<>>, <<Fixed>>),
         Module(<<>>, <<Calls(2), Leaf("kAddI64"), Extra>>),
         Module(<<>>, <<Calls(2), Extra, Leaf("kAddI64")>>),
         Module(<<>>, <<Calls(1), Leaf("kAddI64")>>)>>

AllFunctions == UNION {Range(All[v].functions) : v \in DOMAIN All}
MCBodies == {Body(fn) : fn \in AllFunctions \cup {NoFunction}}

Signature(body) == <<body.param_kinds, body.ret_kind>>
MCSigs   == {Signature(body) : body \in MCBodies}
MCSigOf  == [body \in MCBodies |-> Signature(body)]

MCFuncIds == -1 .. 2

MCAsked == {<<1, 2>>, <<2, 1>>, <<1, 3>>, <<3, 4>>, <<1, 4>>, <<4, 5>>, <<1, 6>>}

InManifest(e) == [action |-> e.action, func_id |-> e.func_id, body |-> Body(e.new_func)]
MCManifests ==
    UNION {{[k \in DOMAIN m.entries |-> InManifest(m.entries[k])] : m \in Differences[p]} :
              p \in Asked}

=============================================================================
