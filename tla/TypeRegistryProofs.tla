------------------------- MODULE TypeRegistryProofs -------------------------
(***************************************************************************)
(* The type registry, proved for every set of names, of modules and of     *)
(* types that a program registers, and every order of registrations and    *)
(* lookups.                                                                *)
(***************************************************************************)
EXTENDS TypeRegistry, TLAPS

USE RegistryAssumption DEF TypeId, AnyTypeId

-----------------------------------------------------------------------------
(* Maps. *)

LEMMA InMapsOf ==
    ASSUME NEW K, NEW V, NEW g \in MapsOf(K, V)
    PROVE  DOMAIN g \subseteq K /\ g \in [DOMAIN g -> V]
BY DEF MapsOf

LEMMA EmptyInMapsOf ==
    ASSUME NEW K, NEW V
    PROVE  EmptyMap \in MapsOf(K, V)
<1>1. EmptyMap \in [{} -> V]
  BY DEF EmptyMap
<1>2. [{} -> V] \in {[D -> V] : D \in SUBSET K}
  OBVIOUS
<1> HIDE DEF EmptyMap
<1> QED BY <1>1, <1>2, Zenon DEF MapsOf

-----------------------------------------------------------------------------
(* One registration. *)

RegistryPart ==
    /\ DOMAIN types \subseteq TypeId /\ types \in [DOMAIN types -> TypeInfo]
    /\ DOMAIN name_to_id \subseteq Names /\ name_to_id \in [DOMAIN name_to_id -> TypeId]
    /\ next_id \in 0 .. kInvalidTypeId
    /\ BasesDescend
    /\ NextIsFree
    /\ NamesKnown

\* A registration whose base comes before it keeps every base before what is
\* derived from it, and next_id_ past every id.
LEMMA Registration ==
    ASSUME RegistryPart, NEW info \in TypeInfo, RegisterType(info),
           IdFor(info) \in TypeId,
           info.base_type_id # kInvalidTypeId => info.base_type_id < IdFor(info)
    PROVE  RegistryPart'
<1> DEFINE id   == IdFor(info)
           kept == [info EXCEPT !.type_id = id]
<1>1. /\ id \in TypeId /\ id \in Nat
      /\ next_id' = NextId(info)
      /\ name_to_id' = Put(name_to_id, info.name, id)
      /\ types' = Put(types, id, kept)
  BY DEF RegisterType
<1>2. /\ kept \in TypeInfo
      /\ kept.base_type_id = info.base_type_id /\ kept.name = info.name
      /\ info.name \in Names
  BY <1>1 DEF TypeInfo
<1>3. /\ types \in [DOMAIN types -> TypeInfo] /\ DOMAIN types \subseteq TypeId
      /\ name_to_id \in [DOMAIN name_to_id -> TypeId] /\ DOMAIN name_to_id \subseteq Names
      /\ next_id \in 0 .. kInvalidTypeId
  BY DEF RegistryPart
<1>4. info.base_type_id # kInvalidTypeId => info.base_type_id < id
  OBVIOUS
<1>5. next_id <= next_id' /\ id < next_id' /\ next_id' \in 0 .. kInvalidTypeId
  BY <1>1, <1>3 DEF NextId
<1> HIDE DEF id, kept
<1>6. /\ DOMAIN types' = DOMAIN types \cup {id}
      /\ types' \in [DOMAIN types' -> TypeInfo]
      /\ types'[id] = kept
      /\ \A k \in DOMAIN types : k # id => types'[k] = types[k]
  BY <1>1, <1>2, <1>3 DEF Put
<1>7. /\ DOMAIN name_to_id' = DOMAIN name_to_id \cup {info.name}
      /\ name_to_id' \in [DOMAIN name_to_id' -> TypeId]
      /\ name_to_id'[info.name] = id
      /\ \A n \in DOMAIN name_to_id : n # info.name => name_to_id'[n] = name_to_id[n]
  BY <1>1, <1>2, <1>3 DEF Put
<1>8. DOMAIN types' \subseteq TypeId /\ DOMAIN name_to_id' \subseteq Names
  BY <1>1, <1>2, <1>3, <1>6, <1>7
<1>9. BasesDescend'
  BY <1>2, <1>4, <1>6 DEF RegistryPart, BasesDescend
<1>10. NextIsFree'
  <2> SUFFICES ASSUME NEW k \in DOMAIN types' PROVE k < next_id'
    BY DEF NextIsFree
  <2>1. k = id \/ (k \in DOMAIN types /\ k < next_id /\ k \in Nat)
    BY <1>3, <1>6 DEF RegistryPart, NextIsFree
  <2> QED BY <2>1, <1>3, <1>5
<1>11. NamesKnown'
  BY <1>6, <1>7 DEF RegistryPart, NamesKnown
<1> QED BY <1>5, <1>6, <1>7, <1>8, <1>9, <1>10, <1>11 DEF RegistryPart

LoadPart ==
    /\ pending \in Seq(TypeInfo)
    /\ first \in TypeModules \cup {<<>>} /\ orderly \in BOOLEAN
    /\ PendingDescends
    /\ ModuleKeepsItsNumbers
    /\ NamesResolve

QueryPart ==
    /\ query \in Query \cup {NoQuery}
    /\ OneAtATime
    /\ NothingMissed
    /\ AnswerIsRight

LEMMA InvSplits == RegistryInv <=> RegistryPart /\ LoadPart /\ QueryPart
BY DEF RegistryInv, RegistryTypeOK, RegistryPart, LoadPart, QueryPart

LEMMA InvSplitsNext == RegistryInv' <=> RegistryPart' /\ LoadPart' /\ QueryPart'
BY DEF RegistryInv, RegistryTypeOK, RegistryPart, LoadPart, QueryPart

LEMMA SameRegistry ==
    ASSUME RegistryPart, UNCHANGED registryVars
    PROVE  RegistryPart'
BY DEF RegistryPart, registryVars, BasesDescend, NextIsFree, NamesKnown

LEMMA SameLoad ==
    ASSUME LoadPart, UNCHANGED <<registryVars, pending, first, orderly>>
    PROVE  LoadPart'
BY DEF LoadPart, registryVars, PendingDescends, ModuleKeepsItsNumbers, NamesResolve

LEMMA NothingAsked ==
    ASSUME query' = NoQuery
    PROVE  QueryPart'
BY DEF QueryPart, OneAtATime, NothingMissed, AnswerIsRight, NoQuery, NotFound, Pending

\* The rest of a module's types are still in order.
LEMMA TailDescends ==
    ASSUME pending \in Seq(TypeInfo), pending # <<>>, PendingDescends
    PROVE  /\ Head(pending) \in TypeInfo
           /\ Head(pending).type_id # kInvalidTypeId
           /\ Head(pending).base_type_id # kInvalidTypeId
                => Head(pending).base_type_id < Head(pending).type_id
           /\ Tail(pending) \in Seq(TypeInfo)
           /\ \A k \in DOMAIN Tail(pending) :
                /\ Tail(pending)[k].type_id # kInvalidTypeId
                /\ Tail(pending)[k].base_type_id # kInvalidTypeId
                     => Tail(pending)[k].base_type_id < Tail(pending)[k].type_id
<1>1. Len(pending) \in Nat /\ Len(pending) >= 1 /\ DOMAIN pending = 1 .. Len(pending)
  OBVIOUS
<1>2. 1 \in DOMAIN pending /\ Head(pending) = pending[1] /\ pending[1] \in TypeInfo
  BY <1>1
<1>3. Tail(pending) \in Seq(TypeInfo)
  OBVIOUS
<1>4. \A k \in DOMAIN Tail(pending) : k + 1 \in DOMAIN pending /\ Tail(pending)[k] = pending[k + 1]
  BY <1>1
<1> QED BY <1>2, <1>3, <1>4 DEF PendingDescends

-----------------------------------------------------------------------------
(* The bases above a type. *)

\* A type is above itself, what is above it is closed under bases and comes
\* before it.
LEMMA AboveIsClosed ==
    ASSUME RegistryPart, NEW t \in DOMAIN types
    PROVE  /\ t \in Above(t)
           /\ Above(t) \subseteq DOMAIN types
           /\ Closed(Above(t))
           /\ \A u \in Above(t) : u <= t
<1>1. t \in Above(t) /\ Above(t) \subseteq DOMAIN types
  BY DEF Above
<1>2. Closed(Above(t))
  <2> SUFFICES ASSUME NEW u \in Above(t), BaseOf(u) \in DOMAIN types,
                      NEW S \in SUBSET DOMAIN types, t \in S, Closed(S)
               PROVE  BaseOf(u) \in S
    BY DEF Closed, Above
  <2>1. u \in S
    BY DEF Above
  <2> QED BY <2>1 DEF Closed
<1>3. \A u \in Above(t) : u <= t
  <2> DEFINE before == {v \in DOMAIN types : v <= t}
  <2>1. before \in SUBSET DOMAIN types /\ t \in before
    BY DEF RegistryPart
  <2>2. ASSUME NEW v \in before, BaseOf(v) \in DOMAIN types
        PROVE  BaseOf(v) \in before
    <3>1. /\ v \in Nat /\ t \in Nat /\ v <= t
          /\ BaseOf(v) \in Nat /\ BaseOf(v) # kInvalidTypeId
      BY <2>2 DEF RegistryPart
    <3>2. BaseOf(v) < v
      BY <3>1 DEF RegistryPart, BasesDescend, BaseOf
    <3> QED BY <2>2, <3>1, <3>2
  <2>3. Closed(before)
    BY <2>2 DEF Closed
  <2> QED BY <2>1, <2>3 DEF Above
<1> QED BY <1>1, <1>2, <1>3

\* Going up from t: t itself, and what is above its base.
LEMMA AboveStep ==
    ASSUME RegistryPart, NEW t \in DOMAIN types
    PROVE  Above(t) = {t} \cup Above(BaseOf(t))
<1> DEFINE b == BaseOf(t)
<1>1. Above(t) \subseteq {t} \cup Above(b)
  <2> DEFINE S == {t} \cup Above(b)
  <2>1. S \in SUBSET DOMAIN types /\ t \in S
    BY DEF Above
  <2>2. CASE b \in DOMAIN types
    <3>1. b \in Above(b) /\ Closed(Above(b))
      BY <2>2, AboveIsClosed
    <3>2. Closed(S)
      BY <3>1 DEF Closed
    <3> QED BY <2>1, <3>2 DEF Above
  <2>3. CASE b \notin DOMAIN types
    <3>1. Above(b) = {}
      BY <2>3 DEF Above
    <3>2. Closed(S)
      BY <2>3, <3>1 DEF Closed
    <3> QED BY <2>1, <3>2 DEF Above
  <2> QED BY <2>2, <2>3
<1>2. ASSUME NEW u \in Above(b) PROVE u \in Above(t)
  <2>1. b \in DOMAIN types /\ u \in DOMAIN types
    BY <1>2 DEF Above
  <2>2. ASSUME NEW S \in SUBSET DOMAIN types, t \in S, Closed(S)
        PROVE  u \in S
    <3>1. b \in S
      BY <2>1, <2>2 DEF Closed
    <3> QED BY <1>2, <2>2, <3>1 DEF Above
  <2> QED BY <2>1, <2>2 DEF Above
<1>3. t \in Above(t)
  BY AboveIsClosed
<1> QED BY <1>1, <1>2, <1>3

\* A type that has the member itself hides its bases; one that has not leaves
\* the answer to its base.
LEMMA NearestStep ==
    ASSUME RegistryPart, NEW t \in DOMAIN types, NEW want, NEW members
    PROVE  Nearest(t, want, members) =
              IF want \in DOMAIN members[t] THEN members[t][want]
              ELSE Nearest(BaseOf(t), want, members)
<1> DEFINE Having(s) == {u \in Above(s) : want \in DOMAIN members[u]}
<1>1. /\ t \in Above(t)
      /\ \A u \in Above(t) : u <= t
      /\ Above(t) \subseteq DOMAIN types
  BY AboveIsClosed
<1>2. CASE want \in DOMAIN members[t]
  <2> DEFINE Last(u) == u \in Having(t) /\ \A v \in Having(t) : v <= u
  <2>1. Last(t)
    BY <1>1, <1>2
  <2>2. ASSUME NEW u, Last(u) PROVE u = t
    <3>1. u \in Nat /\ t \in Nat /\ u <= t /\ t <= u
      BY <1>1, <2>1, <2>2 DEF RegistryPart
    <3> QED BY <3>1
  <2>3. (CHOOSE u : Last(u)) = t
    BY <2>1, <2>2
  <2>4. (CHOOSE u \in Having(t) : \A v \in Having(t) : v <= u) = t
    BY <2>3
  <2> QED BY <1>2, <2>1, <2>4 DEF Nearest
<1>3. CASE want \notin DOMAIN members[t]
  <2> DEFINE Pick(H) == IF H = {} THEN NotFound
                        ELSE members[CHOOSE u \in H : \A v \in H : v <= u][want]
  <2>1. Having(t) = Having(BaseOf(t))
    BY <1>3, AboveStep
  <2>2. \A s : Nearest(s, want, members) = Pick(Having(s))
    BY DEF Nearest
  <2> HIDE DEF Having, Pick
  <2> QED BY <1>3, <2>1, <2>2
<1> QED BY <1>2, <1>3

\* Nothing is above a type that is not known.
LEMMA UnknownType ==
    ASSUME NEW t, t \notin DOMAIN types
    PROVE  /\ Above(t) = {}
           /\ \A want, members : Nearest(t, want, members) = NotFound
           /\ \A want : Derived(t, want) <=> t = want
<1>1. Above(t) = {}
  BY DEF Above
<1> QED BY <1>1 DEF Nearest, Derived

-----------------------------------------------------------------------------
(* Lookups. *)

\* What a type itself answers is an answer or NotFound, and never "still going".
LEMMA HereIsAnAnswer ==
    ASSUME RegistryPart, query \in Query
    PROVE  Here \in Int /\ Here # Pending
<1>1. query.what \in Lookups
  BY DEF Query
<1>2. ASSUME NEW g \in MapsOf(Members, Offsets)
      PROVE  MemberOf(g) \in Int /\ MemberOf(g) # Pending
  BY <1>2, InMapsOf DEF MemberOf, NotFound, Pending
<1>3. Known => /\ types[query.at].fields \in MapsOf(Members, Offsets)
               /\ types[query.at].vmethods \in MapsOf(Members, Offsets)
  BY DEF RegistryPart, Known, TypeInfo
<1>4. CASE query.what = "IsDerivedFrom"
  BY <1>4 DEF Here, Yes, NotFound, Pending
<1>5. CASE query.what = "GetFieldOffset"
  BY <1>5, <1>2, <1>3 DEF Here, NotFound, Pending
<1>6. CASE query.what = "GetVMethodSlot"
  BY <1>6, <1>2, <1>3 DEF Here, NotFound, Pending
<1> QED BY <1>1, <1>4, <1>5, <1>6 DEF Lookups

\* A type that answers itself gives the answer; one that cannot, and has a
\* base, gives the answer of its base.
LEMMA AnswerStep ==
    ASSUME RegistryPart, query \in Query
    PROVE  /\ Here # NotFound \/ AtTop => AnswerFrom(query.at) = Here
           /\ ~ (Here # NotFound \/ AtTop) => AnswerFrom(query.at) = AnswerFrom(BaseOf(query.at))
<1> DEFINE at == query.at
           want == query.want
           b == BaseOf(at)
<1>1. Lookups = {"IsDerivedFrom", "GetFieldOffset", "GetVMethodSlot"} /\ query.what \in Lookups
  BY DEF Query, Lookups
<1>2. Known <=> at \in DOMAIN types
  BY DEF Known
<1>3. Known => (AtTop <=> b = kInvalidTypeId)
  BY DEF AtTop, BaseOf
<1>4. ~ Known => AtTop
  BY DEF AtTop
<1>5. kInvalidTypeId \notin DOMAIN types
  BY DEF RegistryPart
<1>6. CASE query.what = "IsDerivedFrom"
  <2>1. Here = IF at = want THEN Yes ELSE NotFound
    BY <1>6 DEF Here
  <2>2. \A t : AnswerFrom(t) = IF Derived(t, want) THEN Yes ELSE NotFound
    BY <1>6 DEF AnswerFrom
  <2>3. CASE Known /\ b # kInvalidTypeId /\ at # want
    <3>1. Above(at) = {at} \cup Above(b)
      BY <1>2, <2>3, AboveStep
    <3>2. b \in DOMAIN types => b \in Above(b)
      BY AboveIsClosed
    <3>3. b \notin DOMAIN types => Above(b) = {}
      BY UnknownType
    <3>4. Derived(at, want) <=> Derived(b, want)
      BY <2>3, <3>1, <3>2, <3>3 DEF Derived
    <3> QED BY <1>3, <2>1, <2>2, <2>3, <3>4 DEF Yes, NotFound
  <2>4. CASE Known /\ b = kInvalidTypeId
    <3>1. Above(at) = {at}
      BY <1>2, <1>5, <2>4, AboveStep, UnknownType
    <3>2. Derived(at, want) <=> at = want
      BY <2>4, <3>1 DEF Derived
    <3> QED BY <1>3, <2>1, <2>2, <2>4, <3>2
  <2>5. CASE ~ Known
    <3>1. Derived(at, want) <=> at = want
      BY <1>2, <2>5, UnknownType
    <3> QED BY <1>4, <2>1, <2>2, <2>5, <3>1
  <2>6. CASE at = want
    <3>1. Derived(at, want)
      BY <2>6 DEF Derived
    <3> QED BY <2>1, <2>2, <2>6, <3>1 DEF Yes, NotFound
  <2> QED BY <2>3, <2>4, <2>5, <2>6
<1>7. ASSUME NEW members,
             Known => members[at] \in MapsOf(Members, Offsets),
             Here = IF Known THEN MemberOf(members[at]) ELSE NotFound,
             \A t : AnswerFrom(t) = Nearest(t, want, members)
      PROVE  /\ Here # NotFound \/ AtTop => AnswerFrom(at) = Here
             /\ ~ (Here # NotFound \/ AtTop) => AnswerFrom(at) = AnswerFrom(b)
  <2>1. CASE ~ Known
    BY <1>2, <1>4, <1>7, <2>1, UnknownType
  <2>2. CASE Known /\ want \in DOMAIN members[at]
    <3>1. AnswerFrom(at) = members[at][want]
      BY <1>2, <1>7, <2>2, NearestStep
    <3>2. Here = members[at][want]
      BY <1>7, <2>2 DEF MemberOf
    <3>3. members[at][want] \in Nat
      BY <1>7, <2>2, InMapsOf
    <3> QED BY <3>1, <3>2, <3>3 DEF NotFound
  <2>3. CASE Known /\ want \notin DOMAIN members[at]
    <3>1. AnswerFrom(at) = AnswerFrom(b)
      BY <1>2, <1>7, <2>3, NearestStep
    <3>2. Here = NotFound
      BY <1>7, <2>3 DEF MemberOf
    <3>3. b = kInvalidTypeId => AnswerFrom(b) = NotFound
      BY <1>5, <1>7, UnknownType
    <3> QED BY <1>3, <2>3, <3>1, <3>2, <3>3
  <2> QED BY <2>1, <2>2, <2>3
<1>8. CASE query.what = "GetFieldOffset"
  <2>1. Known => Fields[at] \in MapsOf(Members, Offsets)
    BY <1>2 DEF Fields, RegistryPart, TypeInfo
  <2>2. Here = IF Known THEN MemberOf(Fields[at]) ELSE NotFound
    BY <1>2, <1>8 DEF Here, Fields
  <2>3. \A t : AnswerFrom(t) = Nearest(t, want, Fields)
    BY <1>8 DEF AnswerFrom
  <2> QED BY <1>7, <2>1, <2>2, <2>3
<1>9. CASE query.what = "GetVMethodSlot"
  <2>1. Known => VMethods[at] \in MapsOf(Members, Offsets)
    BY <1>2 DEF VMethods, RegistryPart, TypeInfo
  <2>2. Here = IF Known THEN MemberOf(VMethods[at]) ELSE NotFound
    BY <1>2, <1>9 DEF Here, VMethods
  <2>3. \A t : AnswerFrom(t) = Nearest(t, want, VMethods)
    BY <1>9 DEF AnswerFrom
  <2> QED BY <1>7, <2>1, <2>2, <2>3
<1> QED BY <1>1, <1>6, <1>8, <1>9

\* What the answers depend on.
LEMMA SameAnswers ==
    ASSUME types' = types, query'.what = query.what, query'.want = query.want
    PROVE  /\ AnswerFrom(query.at)' = AnswerFrom(query'.at)
           /\ AnswerFrom(query.from)' = AnswerFrom(query'.from)
<1>1. \A t : Above(t)' = Above(t)
  BY DEF Above, Closed, BaseOf
<1>2. Fields' = Fields /\ VMethods' = VMethods
  BY DEF Fields, VMethods
<1>3. ASSUME NEW t, NEW want, NEW members
      PROVE  Nearest(t, want, members)' = Nearest(t, want, members)
  <2> DEFINE Having(S) == {u \in S : want \in DOMAIN members[u]}
             Pick(H) == IF H = {} THEN NotFound
                        ELSE members[CHOOSE u \in H : \A v \in H : v <= u][want]
  <2>1. Nearest(t, want, members) = Pick(Having(Above(t)))
    BY DEF Nearest
  <2>2. Nearest(t, want, members)' = Pick(Having(Above(t)'))
    BY DEF Nearest
  <2> HIDE DEF Having, Pick
  <2> QED BY <1>1, <2>1, <2>2
<1>4. \A t, want : Derived(t, want)' <=> Derived(t, want)
  BY <1>1 DEF Derived, BaseOf
<1> QED BY <1>2, <1>3, <1>4 DEF AnswerFrom

\* A step of a lookup answers it, or goes up and keeps the answer.
LEMMA ClimbStep ==
    ASSUME RegistryPart, QueryPart, Climb
    PROVE  /\ QueryPart'
           /\ query'.result = Pending => query'.at < query.at
<1>1. /\ query.result = Pending /\ query \in Query /\ pending' = pending
      /\ UNCHANGED registryVars /\ pending = <<>>
  BY DEF QueryPart, OneAtATime, Climb, NoQuery, NotFound, Pending
<1>2. Here \in Int /\ Here # Pending
  BY <1>1, HereIsAnAnswer
<1>3. AnswerFrom(query.at) = AnswerFrom(query.from)
  BY <1>1 DEF QueryPart, NothingMissed
<1>4. CASE Here # NotFound \/ AtTop
  <2>1. query' = [query EXCEPT !.result = Here]
    BY <1>4 DEF Climb
  <2>2. /\ query' \in Query /\ query'.result = Here
        /\ query'.what = query.what /\ query'.want = query.want /\ query'.from = query.from
    BY <1>1, <1>2, <2>1 DEF Query
  <2>3. AnswerFrom(query.from)' = Here
    BY <1>1, <1>3, <1>4, <2>2, AnswerStep, SameAnswers DEF registryVars
  <2>4. AnswerIsRight' /\ NothingMissed' /\ OneAtATime'
    BY <1>1, <1>2, <2>2, <2>3 DEF AnswerIsRight, NothingMissed, OneAtATime
  <2> QED BY <1>2, <2>2, <2>4 DEF QueryPart
<1>5. CASE ~ (Here # NotFound \/ AtTop)
  <2>1. query' = [query EXCEPT !.at = types[query.at].base_type_id]
    BY <1>5 DEF Climb
  <2>2. query.at \in DOMAIN types /\ types[query.at].base_type_id # kInvalidTypeId
    BY <1>5 DEF AtTop, Known
  <2>3. /\ types[query.at].base_type_id < query.at
        /\ types[query.at].base_type_id \in Nat
    BY <2>2 DEF RegistryPart, BasesDescend, TypeInfo
  <2>4. /\ query' \in Query /\ query'.result = Pending /\ query'.at = BaseOf(query.at)
        /\ query'.what = query.what /\ query'.want = query.want /\ query'.from = query.from
    BY <1>1, <2>1, <2>3 DEF Query, BaseOf
  <2>5. AnswerFrom(query.at)' = AnswerFrom(query.from)'
    BY <1>1, <1>3, <1>5, <2>4, AnswerStep, SameAnswers DEF registryVars
  <2>6. AnswerIsRight' /\ NothingMissed' /\ OneAtATime'
    BY <1>1, <2>4, <2>5 DEF AnswerIsRight, NothingMissed, OneAtATime
  <2> QED BY <2>3, <2>4, <2>6 DEF QueryPart, BaseOf
<1> QED BY <1>4, <1>5

-----------------------------------------------------------------------------
(* The steps. *)

LEMMA InitRegistry == Init => RegistryInv
<1> SUFFICES ASSUME Init PROVE RegistryInv
  OBVIOUS
<1>1. DOMAIN EmptyMap = {} /\ \A S : EmptyMap \in [{} -> S]
  BY DEF EmptyMap
<1>2. RegistryPart
  BY <1>1 DEF Init, RegistryPart, BasesDescend, NextIsFree, NamesKnown
<1>3. LoadPart
  BY <1>1 DEF Init, LoadPart, PendingDescends, ModuleKeepsItsNumbers, NamesResolve
<1>4. QueryPart
  BY DEF Init, QueryPart, OneAtATime, NothingMissed, AnswerIsRight, NoQuery, NotFound, Pending
<1> QED BY <1>2, <1>3, <1>4, InvSplits

LEMMA LoadTypesKeeps ==
    ASSUME RegistryInv, NEW mod \in TypeModules, LoadTypes(mod)
    PROVE  RegistryInv'
<1>1. /\ RegistryPart /\ LoadPart /\ UNCHANGED registryVars /\ pending = <<>>
      /\ pending' = mod /\ query' = NoQuery
  BY InvSplits DEF LoadTypes, Quiet
<1>2. RegistryPart' /\ QueryPart'
  BY <1>1, SameRegistry, NothingAsked
<1>3. mod \in Seq(TypeInfo) /\ Len(mod) \in Nat
  OBVIOUS
<1>4. /\ pending' \in Seq(TypeInfo) /\ PendingDescends'
      /\ first' \in TypeModules \cup {<<>>} /\ orderly' \in BOOLEAN
  BY <1>1 DEF LoadPart, PendingDescends, LoadTypes
<1>5. orderly' => orderly /\ (types = EmptyMap \/ mod = first)
  BY DEF LoadTypes
<1>6. NamesResolve'
  BY <1>1, <1>5 DEF LoadPart, NamesResolve, registryVars
<1>7. ModuleKeepsItsNumbers'
  <2> SUFFICES ASSUME orderly' PROVE ModuleKeepsItsNumbers'
    BY DEF ModuleKeepsItsNumbers
  <2>1. first' = mod
    BY <1>5 DEF LoadTypes
  <2>2. DOMAIN mod = 1 .. Len(mod)
    BY <1>3
  <2>3. \A k \in DOMAIN mod :
           mod[k].type_id \in DOMAIN types => types[mod[k].type_id].name = mod[k].name
    <3>1. CASE types = EmptyMap
      BY <3>1 DEF EmptyMap
    <3>2. CASE mod = first
      BY <1>1, <1>5, <3>2 DEF LoadPart, ModuleKeepsItsNumbers
    <3> QED BY <1>5, <3>1, <3>2
  <2> QED BY <1>1, <1>3, <2>1, <2>2, <2>3 DEF ModuleKeepsItsNumbers, registryVars
<1> QED BY <1>2, <1>4, <1>6, <1>7, InvSplitsNext DEF LoadPart

\* What is known of the module that was loaded first.
LEMMA FirstModule ==
    ASSUME first \in TypeModules \cup {<<>>}
    PROVE  /\ first \in Seq(TypeInfo) /\ Len(first) \in Nat /\ DOMAIN first = 1 .. Len(first)
           /\ \A j, k \in DOMAIN first : first[j].type_id = first[k].type_id => j = k
<1>1. CASE first \in TypeModules
  <2>1. first \in Seq(TypeInfo)
    BY <1>1
  <2>2. \A j, k \in DOMAIN first : first[j].type_id = first[k].type_id => j = k
    BY <1>1
  <2> QED BY <2>1, <2>2
<1>2. CASE first = <<>>
  BY <1>2
<1> QED BY <1>1, <1>2

\* What a registration does to the maps.
LEMMA RegistrationMaps ==
    ASSUME RegistryPart, NEW info \in TypeInfo, RegisterType(info), IdFor(info) \in TypeId
    PROVE  /\ DOMAIN types' = DOMAIN types \cup {IdFor(info)}
           /\ types'[IdFor(info)].name = info.name
           /\ \A id \in DOMAIN types : id # IdFor(info) => types'[id] = types[id]
           /\ DOMAIN name_to_id' = DOMAIN name_to_id \cup {info.name}
           /\ name_to_id'[info.name] = IdFor(info)
           /\ \A n \in DOMAIN name_to_id : n # info.name => name_to_id'[n] = name_to_id[n]
<1> DEFINE id   == IdFor(info)
           kept == [info EXCEPT !.type_id = id]
<1>1. /\ name_to_id' = Put(name_to_id, info.name, id)
      /\ types' = Put(types, id, kept)
  BY DEF RegisterType
<1>2. kept.name = info.name
  BY DEF TypeInfo
<1> HIDE DEF id, kept
<1>3. /\ DOMAIN types' = DOMAIN types \cup {id} /\ types'[id] = kept
      /\ \A k \in DOMAIN types : k # id => types'[k] = types[k]
      /\ DOMAIN name_to_id' = DOMAIN name_to_id \cup {info.name}
      /\ name_to_id'[info.name] = id
      /\ \A n \in DOMAIN name_to_id : n # info.name => name_to_id'[n] = name_to_id[n]
  BY <1>1 DEF Put
<1> QED BY <1>2, <1>3 DEF id

\* The registration of the module's next type, while it is the only module.
LEMMA NextOfTheModule ==
    ASSUME RegistryPart, LoadPart, RegisterNext, orderly
    PROVE  ModuleKeepsItsNumbers' /\ NamesResolve'
<1> DEFINE info == Head(pending)
           id   == IdFor(info)
           i    == Len(first) - Len(pending) + 1
<1>1. /\ pending \in Seq(TypeInfo) /\ pending # <<>> /\ PendingDescends
      /\ RegisterType(info) /\ pending' = Tail(pending) /\ first' = first /\ orderly' = orderly
      /\ first \in TypeModules \cup {<<>>}
  BY DEF LoadPart, RegisterNext
<1>2. first \in Seq(TypeInfo) /\ Len(first) \in Nat /\ DOMAIN first = 1 .. Len(first)
  BY <1>1, FirstModule
<1>3. /\ Len(pending) \in Nat \ {0} /\ DOMAIN pending = 1 .. Len(pending)
      /\ info = pending[1] /\ info \in TypeInfo
  BY <1>1
<1>4. /\ Len(pending') = Len(pending) - 1 /\ DOMAIN pending' = 1 .. Len(pending')
      /\ \A k \in DOMAIN pending' : pending'[k] = pending[k + 1]
  BY <1>1, <1>3
<1>5. /\ Len(pending) <= Len(first)
      /\ \A k \in DOMAIN pending : pending[k] = first[Len(first) - Len(pending) + k]
      /\ \A k \in DOMAIN first :
            /\ k <= Len(first) - Len(pending) => first[k].type_id \in DOMAIN types
            /\ first[k].type_id \in DOMAIN types => types[first[k].type_id].name = first[k].name
  BY DEF LoadPart, ModuleKeepsItsNumbers
<1>6. i \in DOMAIN first /\ info = first[i]
  BY <1>2, <1>3, <1>5
<1>7. id = info.type_id /\ id \in TypeId
  BY <1>1, <1>3, TailDescends DEF IdFor, TypeInfo
<1>8. \A k \in DOMAIN first : first[k].type_id = id => k = i
  BY <1>1, <1>6, <1>7, FirstModule
<1>9. /\ DOMAIN types' = DOMAIN types \cup {id}
      /\ types'[id].name = info.name
      /\ \A k \in DOMAIN types : k # id => types'[k] = types[k]
      /\ DOMAIN name_to_id' = DOMAIN name_to_id \cup {info.name}
      /\ name_to_id'[info.name] = id
      /\ \A n \in DOMAIN name_to_id : n # info.name => name_to_id'[n] = name_to_id[n]
  BY <1>1, <1>3, <1>7, RegistrationMaps
<1> HIDE DEF id, info
<1>10. ModuleKeepsItsNumbers'
  <2>1. Len(pending') <= Len(first')
    BY <1>1, <1>2, <1>3, <1>4, <1>5
  <2>2. ASSUME NEW k \in DOMAIN pending'
        PROVE  pending'[k] = first'[Len(first') - Len(pending') + k]
    <3>1. k + 1 \in DOMAIN pending /\ pending'[k] = pending[k + 1]
      BY <1>3, <1>4
    <3>2. Len(first) - Len(pending) + (k + 1) = Len(first') - Len(pending') + k
      BY <1>1, <1>2, <1>3, <1>4
    <3> QED BY <1>1, <1>5, <3>1, <3>2
  <2>3. ASSUME NEW k \in DOMAIN first', k <= Len(first') - Len(pending')
        PROVE  first'[k].type_id \in DOMAIN types'
    <3>1. CASE k = i
      BY <1>1, <1>6, <1>7, <1>9, <3>1
    <3>2. CASE k # i
      BY <1>1, <1>2, <1>3, <1>4, <1>5, <1>9, <2>3, <3>2
    <3> QED BY <3>1, <3>2
  <2>4. ASSUME NEW k \in DOMAIN first', first'[k].type_id \in DOMAIN types'
        PROVE  types'[first'[k].type_id].name = first'[k].name
    <3>1. CASE first[k].type_id = id
      BY <1>1, <1>6, <1>8, <1>9, <3>1
    <3>2. CASE first[k].type_id # id
      BY <1>1, <1>5, <1>9, <2>4, <3>2
    <3> QED BY <3>1, <3>2
  <2> QED BY <2>1, <2>2, <2>3, <2>4 DEF ModuleKeepsItsNumbers
<1>11. NamesResolve'
  <2> SUFFICES ASSUME NEW n \in DOMAIN name_to_id'
               PROVE  name_to_id'[n] \in DOMAIN types' /\ types'[name_to_id'[n]].name = n
    BY DEF NamesResolve
  <2>1. CASE n = info.name
    BY <1>9, <2>1
  <2>2. CASE n # info.name
    <3>1. name_to_id'[n] = name_to_id[n] /\ name_to_id[n] \in DOMAIN types
          /\ types[name_to_id[n]].name = n
      BY <1>9, <2>2 DEF LoadPart, NamesResolve
    <3>2. name_to_id[n] # id
      BY <1>5, <1>6, <1>7, <2>2, <3>1
    <3> QED BY <1>9, <3>1, <3>2
  <2> QED BY <2>1, <2>2
<1> QED BY <1>10, <1>11

LEMMA RegisterNextKeeps ==
    ASSUME RegistryInv, RegisterNext
    PROVE  RegistryInv'
<1> DEFINE info == Head(pending)
<1>1. /\ pending \in Seq(TypeInfo) /\ PendingDescends /\ RegistryPart /\ LoadPart
      /\ QueryPart /\ pending # <<>> /\ query' = query
      /\ RegisterType(info) /\ pending' = Tail(pending) /\ first' = first /\ orderly' = orderly
  BY InvSplits DEF RegisterNext, LoadPart
<1>2. /\ info \in TypeInfo /\ info.type_id # kInvalidTypeId
      /\ info.base_type_id # kInvalidTypeId => info.base_type_id < info.type_id
  BY <1>1, TailDescends
<1>3. IdFor(info) = info.type_id /\ IdFor(info) \in TypeId
  BY <1>2 DEF IdFor, TypeInfo
<1>4. RegistryPart'
  BY <1>1, <1>2, <1>3, Registration
<1>5. /\ pending' \in Seq(TypeInfo) /\ PendingDescends'
      /\ first' \in TypeModules \cup {<<>>} /\ orderly' \in BOOLEAN
  BY <1>1, TailDescends DEF PendingDescends, LoadPart
<1>6. ModuleKeepsItsNumbers' /\ NamesResolve'
  <2>1. CASE orderly
    BY <1>1, <2>1, NextOfTheModule
  <2>2. CASE ~ orderly
    BY <1>1, <2>2 DEF ModuleKeepsItsNumbers, NamesResolve
  <2> QED BY <2>1, <2>2
<1>7. QueryPart'
  BY <1>1, NothingAsked DEF QueryPart, OneAtATime
<1> QED BY <1>4, <1>5, <1>6, <1>7, InvSplitsNext DEF LoadPart

LEMMA RegisterOwnKeeps ==
    ASSUME RegistryInv, NEW own \in OwnTypes, RegisterOwn(own)
    PROVE  RegistryInv' /\ \A id \in DOMAIN types : id \in DOMAIN types' /\ types'[id] = types[id]
<1> DEFINE info == [type_id |-> kInvalidTypeId, name |-> own.name,
                    base_type_id |-> GetTypeId(own.base),
                    fields |-> own.fields, vmethods |-> EmptyMap]
<1>1. /\ RegistryPart /\ LoadPart /\ next_id < MaxTypes /\ RegisterType(info)
      /\ pending = <<>> /\ query' = NoQuery /\ UNCHANGED <<pending, first, orderly>>
  BY InvSplits DEF RegisterOwn, Quiet
<1>2. GetTypeId(own.base) \in AnyTypeId
  BY <1>1 DEF GetTypeId, RegistryPart
<1>3. GetTypeId(own.base) # kInvalidTypeId => GetTypeId(own.base) < next_id
  BY <1>1 DEF GetTypeId, RegistryPart, NamesKnown, NextIsFree
<1>4. info \in TypeInfo
  BY <1>2, EmptyInMapsOf DEF TypeInfo
<1>5. IdFor(info) = next_id /\ IdFor(info) \in TypeId
  BY <1>1 DEF IdFor, RegistryPart
<1>6. info.base_type_id # kInvalidTypeId => info.base_type_id < IdFor(info)
  BY <1>3, <1>5
<1>7. next_id \notin DOMAIN types
  BY <1>1 DEF RegistryPart, NextIsFree
<1> HIDE DEF info
<1>8. RegistryPart'
  BY <1>1, <1>4, <1>5, <1>6, Registration
<1>9. /\ DOMAIN types' = DOMAIN types \cup {next_id}
      /\ types'[next_id].name = info.name
      /\ \A id \in DOMAIN types : id # next_id => types'[id] = types[id]
      /\ DOMAIN name_to_id' = DOMAIN name_to_id \cup {info.name}
      /\ name_to_id'[info.name] = next_id
      /\ \A n \in DOMAIN name_to_id : n # info.name => name_to_id'[n] = name_to_id[n]
  BY <1>1, <1>4, <1>5, RegistrationMaps
<1>10. \A id \in DOMAIN types : id \in DOMAIN types' /\ types'[id] = types[id]
  BY <1>7, <1>9
<1>11. NamesResolve'
  BY <1>1, <1>7, <1>9 DEF LoadPart, NamesResolve
<1>12. ModuleKeepsItsNumbers'
  <2> SUFFICES ASSUME orderly PROVE ModuleKeepsItsNumbers'
    BY <1>1 DEF ModuleKeepsItsNumbers
  <2>1. Len(pending) = 0 /\ Len(first) \in Nat /\ DOMAIN first = 1 .. Len(first)
    BY <1>1, FirstModule DEF LoadPart
  <2>2. \A k \in DOMAIN first : /\ first[k].type_id \in DOMAIN types
                                /\ types[first[k].type_id].name = first[k].name
    BY <1>1, <2>1 DEF LoadPart, ModuleKeepsItsNumbers
  <2> QED BY <1>1, <1>10, <2>1, <2>2 DEF ModuleKeepsItsNumbers
<1>13. LoadPart'
  BY <1>1, <1>11, <1>12 DEF LoadPart, PendingDescends
<1>14. QueryPart'
  BY <1>1, NothingAsked
<1> QED BY <1>8, <1>10, <1>13, <1>14, InvSplitsNext

LEMMA AskKeeps ==
    ASSUME RegistryInv, AskAny
    PROVE  RegistryInv' /\ query.result # Pending /\ UNCHANGED registryVars
<1>1. /\ RegistryPart /\ LoadPart /\ pending = <<>> /\ query.result # Pending
      /\ UNCHANGED <<registryVars, pending, first, orderly>>
  BY InvSplits DEF AskAny, Ask, Quiet
<1>2. query' \in Query /\ query'.result = Pending /\ query'.at = query'.from
  <2>1. DOMAIN types \cup {next_id, kInvalidTypeId} \subseteq Nat
    BY <1>1 DEF RegistryPart
  <2>2. CASE \E from, want \in DOMAIN types \cup {next_id, kInvalidTypeId} :
                Ask("IsDerivedFrom", from, want)
    BY <2>1, <2>2 DEF Ask, Query, Lookups, Pending
  <2>3. CASE \E what \in {"GetFieldOffset", "GetVMethodSlot"}, from \in DOMAIN types, m \in Members :
                Ask(what, from, m)
    BY <2>1, <2>3 DEF Ask, Query, Lookups, Pending
  <2> QED BY <2>2, <2>3 DEF AskAny
<1>3. RegistryPart' /\ LoadPart'
  BY <1>1, SameRegistry, SameLoad
<1>4. QueryPart'
  BY <1>1, <1>2 DEF QueryPart, OneAtATime, NothingMissed, AnswerIsRight
<1> QED BY <1>1, <1>3, <1>4, InvSplitsNext

LEMMA ClimbKeeps ==
    ASSUME RegistryInv, Climb
    PROVE  RegistryInv'
<1>1. /\ RegistryPart /\ LoadPart /\ QueryPart
      /\ UNCHANGED <<registryVars, pending, first, orderly>>
  BY InvSplits DEF Climb
<1>2. RegistryPart' /\ LoadPart'
  BY <1>1, SameRegistry, SameLoad
<1>3. QueryPart'
  BY <1>1, ClimbStep
<1> QED BY <1>2, <1>3, InvSplitsNext

LEMMA StutterKeeps ==
    ASSUME RegistryInv, UNCHANGED vars
    PROVE  RegistryInv'
<1>1. /\ RegistryPart /\ LoadPart /\ QueryPart
      /\ UNCHANGED <<registryVars, pending, first, orderly>> /\ query' = query
  BY InvSplits DEF vars, registryVars
<1>2. RegistryPart' /\ LoadPart'
  BY <1>1, SameRegistry, SameLoad
<1>3. QueryPart'
  BY <1>1, SameAnswers DEF QueryPart, OneAtATime, NothingMissed, AnswerIsRight, registryVars
<1> QED BY <1>2, <1>3, InvSplitsNext

LEMMA RegistryStep ==
    ASSUME RegistryInv, [Next]_vars
    PROVE  RegistryInv'
<1>1. CASE \E mod \in TypeModules : LoadTypes(mod)
  BY <1>1, LoadTypesKeeps
<1>2. CASE RegisterNext
  BY <1>2, RegisterNextKeeps
<1>3. CASE \E own \in OwnTypes : RegisterOwn(own)
  BY <1>3, RegisterOwnKeeps
<1>4. CASE AskAny
  BY <1>4, AskKeeps
<1>5. CASE Climb
  BY <1>5, ClimbKeeps
<1>6. CASE UNCHANGED vars
  BY <1>6, StutterKeeps
<1> QED BY <1>1, <1>2, <1>3, <1>4, <1>5, <1>6 DEF Next

-----------------------------------------------------------------------------
(* Theorems. *)

\* The inductive invariant: every base comes before what is derived from it,
\* every id before next_id_, and every name leads to a type, whatever modules
\* are loaded over each other (RegisterType).
THEOREM RegistryInvariance == Spec => []RegistryInv
<1>1. RegistryInv /\ [Next]_vars => RegistryInv'
  BY RegistryStep
<1> QED BY InitRegistry, <1>1, PTL DEF Spec

\* The registry's variables keep their types; no id reaches kInvalidTypeId.
THEOREM RegistryTypes == Spec => []RegistryTypeOK
<1>1. RegistryInv => RegistryTypeOK
  BY DEF RegistryInv
<1> QED BY RegistryInvariance, <1>1, PTL

\* A name leads to the type of that name, while one module is loaded, once or
\* again, and the program adds types of its own, of the same names too
\* (GetTypeByName).
THEOREM NamesAreResolved == Spec => []NamesResolve
<1>1. RegistryInv => NamesResolve
  BY DEF RegistryInv
<1> QED BY RegistryInvariance, <1>1, PTL

\* A lookup answers from the closure of the base relation and gives the member
\* of the nearest class, whatever modules were loaded over each other
\* (IsDerivedFrom, GetFieldOffset, GetVMethodSlot).
THEOREM AnswersAreRight == Spec => []AnswerIsRight
<1>1. RegistryInv => AnswerIsRight
  BY DEF RegistryInv
<1> QED BY RegistryInvariance, <1>1, PTL

\* A type registered without a number overwrites none (RegisterType).
THEOREM OwnIdsAreFree == Spec => OwnTakesNoPlace
<1> DEFINE Kept == pending = <<>> =>
                     \A id \in DOMAIN types : id \in DOMAIN types' /\ types'[id] = types[id]
<1>1. RegistryInv /\ [Next]_vars => [Kept]_vars
  <2> SUFFICES ASSUME RegistryInv, Next, pending = <<>>
               PROVE  \A id \in DOMAIN types : id \in DOMAIN types' /\ types'[id] = types[id]
    OBVIOUS
  <2>1. CASE \E mod \in TypeModules : LoadTypes(mod)
    BY <2>1 DEF LoadTypes, registryVars
  <2>2. CASE RegisterNext
    BY <2>2 DEF RegisterNext
  <2>3. CASE \E own \in OwnTypes : RegisterOwn(own)
    BY <2>3, RegisterOwnKeeps
  <2>4. CASE AskAny
    BY <2>4, AskKeeps DEF registryVars
  <2>5. CASE Climb
    BY <2>5 DEF Climb, registryVars
  <2> QED BY <2>1, <2>2, <2>3, <2>4, <2>5 DEF Next
<1>2. Spec => [][Kept]_vars
  BY RegistryInvariance, <1>1, PTL DEF Spec
<1> QED BY <1>2 DEF OwnTakesNoPlace

\* A lookup only goes up, so that it visits a type at most once
\* (IsDerivedFrom, GetFieldOffset, GetVMethodSlot).
THEOREM LookupsOnlyClimb == Spec => LookupsClimb
<1> DEFINE Up == query.result = Pending /\ query'.result = Pending => query'.at < query.at
<1>1. RegistryInv /\ [Next]_vars => [Up]_vars
  <2> SUFFICES ASSUME RegistryInv, Next, query.result = Pending, query'.result = Pending
               PROVE  query'.at < query.at
    OBVIOUS
  <2>1. CASE \E mod \in TypeModules : LoadTypes(mod)
    BY <2>1 DEF LoadTypes, Quiet
  <2>2. CASE RegisterNext
    BY <2>2, InvSplits DEF RegisterNext, QueryPart, OneAtATime, NoQuery, NotFound, Pending
  <2>3. CASE \E own \in OwnTypes : RegisterOwn(own)
    BY <2>3 DEF RegisterOwn, Quiet
  <2>4. CASE AskAny
    BY <2>4, AskKeeps
  <2>5. CASE Climb
    BY <2>5, InvSplits, ClimbStep
  <2> QED BY <2>1, <2>2, <2>3, <2>4, <2>5 DEF Next
<1>2. Spec => [][Up]_vars
  BY RegistryInvariance, <1>1, PTL DEF Spec
<1> QED BY <1>2 DEF LookupsClimb

=============================================================================
