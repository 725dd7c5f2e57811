--------------------------- MODULE MCTypeRegistry ---------------------------
(***************************************************************************)
(* Instances for TypeRegistry: modules as the frontend makes them from     *)
(* translation units, each of which is numbered from zero.                 *)
(***************************************************************************)
EXTENDS TypeRegistry

CONSTANTS area, width      \* names of members

Frontend == INSTANCE Frontend WITH kMaxRegisters <- 256

Class(name, kids) == Frontend!Cursor("ClassDecl", name, "record", 8, kids)
Base(name)        == Frontend!Cursor("CXXBaseSpecifier", name, "record", 0, <<>>)
Field(name, at)   == Frontend!Cursor("FieldDecl", name, "long", at, <<>>)
Virtual(name)     == Frontend!Cursor("CXXMethod", name, "long", 1, <<>>)

\* A and B with a member of the same name, and one derived from the other, this
\* way and that way round; a chain of three; an unknown base.
Units == {<<Class("A", <<Field(area, 0), Virtual(area)>>), Class("B", <<Base("A"), Field(area, 8)>>)>>,
          <<Class("B", <<Virtual(width), Virtual(area)>>), Class("A", <<Base("B"), Field(width, 8)>>)>>,
          <<Class("C", <<Field(width, 4)>>), Class("A", <<Base("C"), Virtual(area)>>),
            Class("B", <<Base("unknown"), Base("A")>>)>>}

\* Members by name: the first of a name is the one that is found.
ByName(members, Value(_)) ==
    [n \in {members[k].name : k \in DOMAIN members} |->
        LET named == SelectSeq(members, LAMBDA e : e.name = n) IN Value(named[1])]

OffsetOf(f) == f.offset
SlotOf(e)   == e.vtable_slot

Registered(t) ==
    [type_id |-> t.type_id, name |-> t.name, base_type_id |-> t.base_type_id,
     fields |-> ByName(t.fields, OffsetOf), vmethods |-> ByName(t.vmethods, SlotOf)]

TypesOf(unit) ==
    LET ts == Frontend!Parse(unit).types IN [k \in DOMAIN ts |-> Registered(ts[k])]

Own(name, base, members) == [name |-> name, base |-> base, fields |-> [n \in members |-> 4]]

MCOwnTypes == {Own("A", "B", {}), Own("B", "C", {area}), Own("C", "A", {width})}

MCTypeModules == {TypesOf(u) : u \in Units}

=============================================================================
