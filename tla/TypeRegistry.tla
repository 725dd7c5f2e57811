---------------------------- MODULE TypeRegistry ----------------------------
(***************************************************************************)
(* The type registry (src/runtime/type_registry.cpp): types by id, ids by  *)
(* name, and the lookups that climb from a type to its bases.  One thread  *)
(* uses it; a step here registers one type, or looks at one type of a      *)
(* lookup's way up.                                                        *)
(***************************************************************************)
EXTENDS Integers, Sequences, Maps

CONSTANTS
    Names,              \* names of types
    Members,            \* names of fields and virtual methods
    Offsets,            \* offsets of fields and slots of virtual methods
    TypeModules,        \* Module::types of the modules that are loaded
    OwnTypes,           \* the types that a program registers itself
    kInvalidTypeId,     \* UINT32_MAX
    MaxTypes            \* bound on next_id_

TypeId    == 0 .. (kInvalidTypeId - 1)
AnyTypeId == 0 .. kInvalidTypeId

\* Fields and virtual methods by name: the offset, the slot.
TypeInfo == [type_id : AnyTypeId, name : Names,
             base_type_id : AnyTypeId,
             fields : MapsOf(Members, Offsets), vmethods : MapsOf(Members, Offsets)]

\* A module numbers its types in the order of the source, each with a number of
\* its own, and a base comes before what is derived from it (ast_visitor.cpp:182
\* and 222-226).
ASSUME RegistryAssumption ==
    /\ 0 \in Offsets /\ Offsets \subseteq Nat
    /\ kInvalidTypeId \in Nat /\ MaxTypes \in 0 .. kInvalidTypeId
    /\ OwnTypes \subseteq [name : Names, base : Names, fields : MapsOf(Members, Offsets)]
    /\ TypeModules \subseteq Seq(TypeInfo)
    /\ \A mod \in TypeModules : \A k \in DOMAIN mod :
        /\ mod[k].type_id # kInvalidTypeId
        /\ mod[k].base_type_id # kInvalidTypeId => mod[k].base_type_id < mod[k].type_id
        /\ \A j \in DOMAIN mod : mod[j].type_id = mod[k].type_id => j = k

VARIABLES
    types,              \* types_
    name_to_id,         \* name_to_id_
    next_id,            \* next_id_
    pending,            \* what RegisterFromModule has still to register
    query,              \* the lookup under way, or the last one since a registration
    first,              \* the module that was loaded into the empty registry
    orderly             \* whether no other module has been loaded

registryVars == <<types, name_to_id, next_id>>
vars == <<types, name_to_id, next_id, pending, query, first, orderly>>

Lookups  == {"IsDerivedFrom", "GetFieldOffset", "GetVMethodSlot"}
NotFound == -1
Yes      == 1
Pending  == -2

\* A lookup of want, begun at type from, that has come to type at.
Query == [what : Lookups, from : Nat, at : Nat, want : Nat \cup Members, result : Int]
NoQuery == [what |-> "none", result |-> NotFound]

Init ==
    /\ types = EmptyMap /\ name_to_id = EmptyMap /\ next_id = 0
    /\ pending = <<>> /\ query = NoQuery /\ first = <<>> /\ orderly = TRUE

-----------------------------------------------------------------------------

\* The id a registration gives out: its own, or the next one.
IdFor(info) == IF info.type_id = kInvalidTypeId THEN next_id ELSE info.type_id

\* Mutant of NextId: only the ids that were given out count.
NextIdGivenOut(info) == IF info.type_id = kInvalidTypeId THEN next_id + 1 ELSE next_id

NextId(info) == IF IdFor(info) >= next_id THEN IdFor(info) + 1 ELSE next_id

\* Mutant of RegisterType: the type is kept under the id it came with.
RegisterUnderOwnId(info) ==
    /\ next_id' = NextId(info)
    /\ name_to_id' = Put(name_to_id, info.name, IdFor(info))
    /\ types' = Put(types, info.type_id, [info EXCEPT !.type_id = IdFor(info)])

\* A type that had the id is overwritten, and its name keeps the id.
RegisterType(info) ==
    /\ next_id' = NextId(info)
    /\ name_to_id' = Put(name_to_id, info.name, IdFor(info))
    /\ types' = Put(types, IdFor(info), [info EXCEPT !.type_id = IdFor(info)])

GetTypeId(name) == IF name \in DOMAIN name_to_id THEN name_to_id[name] ELSE kInvalidTypeId

Quiet == pending = <<>> /\ query.result # Pending

\* RegisterFromModule, which registers the types one after another.
LoadTypes(mod) ==
    /\ Quiet
    /\ pending' = mod
    /\ first' = IF types = EmptyMap THEN mod ELSE first
    /\ orderly' = (orderly /\ (types = EmptyMap \/ mod = first))
    /\ query' = NoQuery
    /\ UNCHANGED registryVars

RegisterNext ==
    /\ pending # <<>>
    /\ RegisterType(Head(pending))
    /\ pending' = Tail(pending)
    /\ UNCHANGED <<query, first, orderly>>

\* A program registers a type of its own without a number, on a base that it
\* looks up by name.
RegisterOwn(own) ==
    /\ Quiet
    /\ next_id < MaxTypes
    /\ RegisterType([type_id |-> kInvalidTypeId, name |-> own.name,
                     base_type_id |-> GetTypeId(own.base),
                     fields |-> own.fields, vmethods |-> EmptyMap])
    /\ query' = NoQuery
    /\ UNCHANGED <<pending, first, orderly>>

-----------------------------------------------------------------------------
(* Lookups. *)

Ask(what, from, want) ==
    /\ Quiet
    /\ query' = [what |-> what, from |-> from, at |-> from, want |-> want, result |-> Pending]
    /\ UNCHANGED <<registryVars, pending, first, orderly>>

Known == query.at \in DOMAIN types

MemberOf(members) == IF query.want \in DOMAIN members THEN members[query.want] ELSE NotFound

\* What is found without going on to the base.  A type is derived from itself,
\* and from its base, even if that is not known.
Here ==
    CASE query.what = "IsDerivedFrom"  -> IF query.at = query.want THEN Yes ELSE NotFound
      [] query.what = "GetFieldOffset" -> IF Known THEN MemberOf(types[query.at].fields) ELSE NotFound
      [] query.what = "GetVMethodSlot" -> IF Known THEN MemberOf(types[query.at].vmethods) ELSE NotFound

AtTop == IF Known THEN types[query.at].base_type_id = kInvalidTypeId ELSE TRUE

\* Mutants of Climb: the lookup goes on from where it is; it goes on although
\* something was found.
ClimbNowhere ==
    /\ query.result = Pending
    /\ query' = IF Here # NotFound \/ AtTop THEN [query EXCEPT !.result = Here]
                ELSE [query EXCEPT !.at = types[query.at].type_id]
    /\ UNCHANGED <<registryVars, pending, first, orderly>>

ClimbToTop ==
    /\ query.result = Pending
    /\ query' = IF AtTop THEN [query EXCEPT !.result = Here]
                ELSE [query EXCEPT !.at = types[query.at].base_type_id]
    /\ UNCHANGED <<registryVars, pending, first, orderly>>

Climb ==
    /\ query.result = Pending
    /\ query' = IF Here # NotFound \/ AtTop THEN [query EXCEPT !.result = Here]
                ELSE [query EXCEPT !.at = types[query.at].base_type_id]
    /\ UNCHANGED <<registryVars, pending, first, orderly>>

AskAny ==
    \/ \E from, want \in DOMAIN types \cup {next_id, kInvalidTypeId} :
            Ask("IsDerivedFrom", from, want)
    \/ \E what \in {"GetFieldOffset", "GetVMethodSlot"}, from \in DOMAIN types, m \in Members :
            Ask(what, from, m)

Next ==
    \/ \E mod \in TypeModules : LoadTypes(mod)
    \/ RegisterNext
    \/ \E own \in OwnTypes : RegisterOwn(own)
    \/ AskAny
    \/ Climb

\* A lookup is a loop that nothing outside it stops.
Spec == Init /\ [][Next]_vars /\ WF_vars(Climb)

-----------------------------------------------------------------------------

RegistryTypeOK ==
    /\ DOMAIN types \subseteq TypeId /\ types \in [DOMAIN types -> TypeInfo]
    /\ DOMAIN name_to_id \subseteq Names /\ name_to_id \in [DOMAIN name_to_id -> TypeId]
    /\ next_id \in 0 .. kInvalidTypeId
    /\ pending \in Seq(TypeInfo)
    /\ query \in Query \cup {NoQuery}
    /\ first \in TypeModules \cup {<<>>} /\ orderly \in BOOLEAN

\* A type registered without a number takes no other type's place, whatever
\* modules with numbers of their own were loaded before: next_id_ has passed
\* every id in use (RegisterType).
OwnTakesNoPlace ==
    [][pending = <<>> => \A id \in DOMAIN types : id \in DOMAIN types' /\ types'[id] = types[id]]_vars

\* A lookup only goes up: from a type to one with a smaller number, whatever
\* modules have been loaded over each other (IsDerivedFrom, GetFieldOffset and
\* GetVMethodSlot have no other protection against a cycle of bases).
LookupsClimb ==
    [][query.result = Pending /\ query'.result = Pending => query'.at < query.at]_vars

\* Every lookup ends.
LookupsEnd == (query.result = Pending) ~> (query.result # Pending)

\* The known types reached from t by bases: the least set that is closed.
BaseOf(t) == types[t].base_type_id
Closed(S) == \A u \in S : BaseOf(u) \in DOMAIN types => BaseOf(u) \in S
Above(t)  == {u \in DOMAIN types :
                /\ t \in DOMAIN types
                /\ \A S \in SUBSET DOMAIN types : t \in S /\ Closed(S) => u \in S}

\* The member that hides the others of its name; members gives those of a type.
Nearest(t, want, members) ==
    LET having == {u \in Above(t) : want \in DOMAIN members[u]}
    IN  IF having = {} THEN NotFound
        ELSE members[CHOOSE u \in having : \A v \in having : v <= u][want]

Fields   == [u \in DOMAIN types |-> types[u].fields]
VMethods == [u \in DOMAIN types |-> types[u].vmethods]

\* Having no base is not being derived from the invalid id.
Derived(t, want) ==
    \/ t = want
    \/ want # kInvalidTypeId /\ \E u \in Above(t) : BaseOf(u) = want

\* The answer to the lookup under way, had it begun at type t.
AnswerFrom(t) ==
    CASE query.what = "IsDerivedFrom"  -> IF Derived(t, query.want) THEN Yes ELSE NotFound
      [] query.what = "GetFieldOffset" -> Nearest(t, query.want, Fields)
      [] query.what = "GetVMethodSlot" -> Nearest(t, query.want, VMethods)

\* What a lookup answers is what the registered bases and members say: derived
\* is the closure of the base relation, and a member is that of the nearest
\* class that has it (type_registry.cpp:56-97).
AnswerIsRight ==
    query.what # "none" /\ query.result # Pending => query.result = AnswerFrom(query.from)

\* A name leads to the type of that name, as long as the modules come before
\* the program's own types and are one: another module's numbers start at zero
\* again (GetTypeByName).
NamesResolve ==
    orderly => \A n \in DOMAIN name_to_id :
        name_to_id[n] \in DOMAIN types /\ types[name_to_id[n]].name = n

-----------------------------------------------------------------------------
(* The inductive invariant. *)

BasesDescend ==
    \A id \in DOMAIN types :
        types[id].base_type_id # kInvalidTypeId => types[id].base_type_id < id

NextIsFree == \A id \in DOMAIN types : id < next_id

NamesKnown == \A n \in DOMAIN name_to_id : name_to_id[n] \in DOMAIN types

PendingDescends ==
    \A k \in DOMAIN pending :
        /\ pending[k].type_id # kInvalidTypeId
        /\ pending[k].base_type_id # kInvalidTypeId => pending[k].base_type_id < pending[k].type_id

OneAtATime == pending # <<>> => query = NoQuery

\* Nothing that a lookup has passed on its way changes the answer.
NothingMissed == query.result = Pending => AnswerFrom(query.at) = AnswerFrom(query.from)

\* What is left to load is the end of the one module; what comes before it has
\* its number, and a number of the module is not given to another name.
ModuleKeepsItsNumbers ==
    orderly =>
        /\ Len(pending) <= Len(first)
        /\ \A k \in DOMAIN pending : pending[k] = first[Len(first) - Len(pending) + k]
        /\ \A k \in DOMAIN first :
              /\ k <= Len(first) - Len(pending) => first[k].type_id \in DOMAIN types
              /\ first[k].type_id \in DOMAIN types => types[first[k].type_id].name = first[k].name

RegistryInv ==
    /\ RegistryTypeOK
    /\ OneAtATime
    /\ BasesDescend
    /\ NextIsFree
    /\ NamesKnown
    /\ PendingDescends
    /\ ModuleKeepsItsNumbers
    /\ NamesResolve
    /\ NothingMissed
    /\ AnswerIsRight

=============================================================================
