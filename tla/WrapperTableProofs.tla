------------------------- MODULE WrapperTableProofs -------------------------
(***************************************************************************)
(* The wrapper table, for every number of slots and every set of bindings. *)
(* First lemmas about its operations, on which PatchManagerProofs rests    *)
(* too, then the table driven by arbitrary callers: types, the exact       *)
(* count, late reuse, and that it implements the pool.                     *)
(***************************************************************************)
EXTENDS WrapperClient, FiniteSetTheorems, WellFoundedInduction, TLAPS

USE TypesAssumption, WrapperTableAssumption

-----------------------------------------------------------------------------
(* The scan. *)

LEMMA ModRange ==
    ASSUME NEW k \in Nat \ {0}, NEW x \in Nat
    PROVE  x % k \in 0 .. (k - 1)
OBVIOUS

LEMMA ModWrap ==
    ASSUME NEW k \in Nat \ {0}, NEW x \in 0 .. (k - 1)
    PROVE  x % k = x /\ (x + k) % k = x
OBVIOUS

LEMMA ProbeType ==
    ASSUME TableTypeOK, NEW i \in WrapperIds
    PROVE  Probe(i) \in WrapperIds
BY ModRange DEF TableTypeOK, WrapperIds, Probe

\* Every slot is looked at in some round of the scan.
LEMMA ProbeCovers ==
    ASSUME TableTypeOK, NEW w \in WrapperIds
    PROVE  \E i \in WrapperIds : Probe(i) = w
<1>1. CASE w >= next_free
  <2>1. w - next_free \in WrapperIds
    BY <1>1 DEF TableTypeOK, WrapperIds
  <2>2. next_free + (w - next_free) = w
    BY DEF TableTypeOK, WrapperIds
  <2>3. w % kMaxWrappers = w
    BY ModWrap DEF WrapperIds
  <2> QED BY <2>1, <2>2, <2>3 DEF Probe
<1>2. CASE w < next_free
  <2>1. w + kMaxWrappers - next_free \in WrapperIds
    BY <1>2 DEF TableTypeOK, WrapperIds
  <2>2. next_free + (w + kMaxWrappers - next_free) = w + kMaxWrappers
    BY DEF TableTypeOK, WrapperIds
  <2>3. (w + kMaxWrappers) % kMaxWrappers = w
    BY ModWrap DEF WrapperIds
  <2> QED BY <2>1, <2>2, <2>3 DEF Probe
<1> QED BY <1>1, <1>2 DEF TableTypeOK, WrapperIds

\* A scan over a table with a free slot has a first free round.
LEMMA FirstFreeExists ==
    ASSUME TableTypeOK, UsedSlots # WrapperIds
    PROVE  \E i \in WrapperIds : FirstFreeRound(i)
<1> DEFINE T == {i \in WrapperIds : ~ in_use[Probe(i)]}
<1>1. PICK w \in WrapperIds : ~ in_use[w]
  BY DEF UsedSlots
<1>2. T # {}
  BY <1>1, ProbeCovers
<1>3. T \subseteq Nat
  BY DEF WrapperIds
<1>4. PICK i \in T : \A j \in T : ~ (<<j, i>> \in OpToRel(<, Nat))
  BY <1>2, <1>3, NatLessThanWellFounded, WFMin
<1>5. \A j \in WrapperIds : j < i => in_use[Probe(j)]
  BY <1>3, <1>4 DEF OpToRel
<1> QED BY <1>5 DEF FirstFreeRound

\* Alloc takes a free slot, and fails only when there is none.
LEMMA AllocResultFree ==
    ASSUME TableTypeOK
    PROVE  /\ AllocResult \in WrapperIds \cup {kInvalidWrapperId}
           /\ AllocResult = kInvalidWrapperId <=> UsedSlots = WrapperIds
           /\ AllocResult # kInvalidWrapperId => AllocResult \in WrapperIds \ UsedSlots
<1>1. CASE \E i \in WrapperIds : FirstFreeRound(i)
  <2>1. PICK i \in WrapperIds : FirstFreeRound(i) /\ AllocResult = Probe(i)
    BY <1>1 DEF AllocResult
  <2>2. AllocResult \in WrapperIds \ UsedSlots
    BY <2>1, ProbeType DEF FirstFreeRound, UsedSlots
  <2>3. AllocResult # kInvalidWrapperId
    BY <2>2 DEF WrapperIds
  <2> QED BY <2>2, <2>3
<1>2. CASE ~ \E i \in WrapperIds : FirstFreeRound(i)
  <2>1. AllocResult = kInvalidWrapperId
    BY <1>2 DEF AllocResult
  <2> QED BY <1>2, <2>1, FirstFreeExists
<1> QED BY <1>1, <1>2

-----------------------------------------------------------------------------
(* The operations.  Each lemma gives what later proofs need of one of them: *)
(* the types, the slots in use, and that the count stays exact.             *)

LEMMA BindTypes ==
    /\ DefaultBind \in BindInfo
    /\ ZeroBind \in BindInfo
    /\ \A f \in FuncIds, body \in Bodies : VmBind(f, body) \in BindInfo
BY DEF DefaultBind, ZeroBind, VmBind, VoidSig, BindInfo, DispatchMode, kVM, kNative

LEMMA UsedSlotsFinite ==
    IsFiniteSet(UsedSlots) /\ Cardinality(UsedSlots) \in Nat
<1>1. IsFiniteSet(WrapperIds)
  BY FS_Interval DEF WrapperIds
<1>2. UsedSlots \subseteq WrapperIds
  BY DEF UsedSlots
<1> QED BY <1>1, <1>2, FS_Subset, FS_CardinalityType

LEMMA InitTable ==
    ASSUME TableInit
    PROVE  TableTypeOK /\ UsedSlots = {} /\ CountIsExact
<1>1. TableTypeOK
  BY BindTypes DEF TableInit, TableTypeOK, WrapperIds
<1>2. UsedSlots = {}
  BY DEF TableInit, UsedSlots
<1>3. CountIsExact
  BY <1>2, FS_EmptySet DEF CountIsExact, TableInit
<1> QED BY <1>1, <1>2, <1>3

LEMMA AllocStep ==
    ASSUME TableTypeOK, NEW bind \in BindInfo, Alloc(bind)
    PROVE  /\ TableTypeOK'
           /\ UsedSlots' = UsedSlots \cup ({AllocResult} \cap WrapperIds)
           /\ \A w \in UsedSlots : bind_info'[w] = bind_info[w]
           /\ AllocResult \in WrapperIds => bind_info'[AllocResult] = bind
           /\ CountIsExact => CountIsExact'
<1>1. CASE AllocResult = kInvalidWrapperId
  BY <1>1 DEF Alloc, tableVars, TableTypeOK, UsedSlots, CountIsExact, WrapperIds
<1>2. CASE AllocResult # kInvalidWrapperId
  <2>1. AllocResult \in WrapperIds \ UsedSlots
    BY <1>2, AllocResultFree
  <2>2. TableTypeOK'
    <3>1. (AllocResult + 1) % kMaxWrappers \in WrapperIds
      BY <2>1, ModRange DEF WrapperIds
    <3>2. alloc_count' \in Nat /\ next_free' \in WrapperIds
      BY <1>2, <3>1 DEF Alloc, TableTypeOK
    <3>3. /\ in_use' \in [WrapperIds -> BOOLEAN]
          /\ bind_info' \in [WrapperIds -> BindInfo]
      BY <1>2, <2>1 DEF Alloc, TableTypeOK
    <3> QED BY <3>2, <3>3 DEF TableTypeOK
  <2>3. UsedSlots' = UsedSlots \cup {AllocResult}
    BY <1>2, <2>1 DEF Alloc, TableTypeOK, UsedSlots
  <2>4. CountIsExact => CountIsExact'
    BY <1>2, <2>1, <2>3, UsedSlotsFinite, FS_AddElement
       DEF Alloc, TableTypeOK, CountIsExact
  <2>5. /\ \A w \in UsedSlots : bind_info'[w] = bind_info[w]
        /\ bind_info'[AllocResult] = bind
    BY <1>2, <2>1 DEF Alloc, TableTypeOK, UsedSlots
  <2> QED BY <2>1, <2>2, <2>3, <2>4, <2>5
<1> QED BY <1>1, <1>2

LEMMA FreeStep ==
    ASSUME TableTypeOK, CountIsExact, NEW id, Free(id)
    PROVE  /\ TableTypeOK'
           /\ UsedSlots' = UsedSlots \ {id}
           /\ \A w \in UsedSlots \ {id} : bind_info'[w] = bind_info[w]
           /\ CountIsExact'
<1>1. CASE id \in UsedSlots
  <2>1. UsedSlots' = UsedSlots \ {id}
    BY <1>1 DEF Free, TableTypeOK, UsedSlots
  <2>2. Cardinality(UsedSlots') = Cardinality(UsedSlots) - 1
    BY <1>1, <2>1, UsedSlotsFinite, FS_RemoveElement
  <2>3. alloc_count' = Cardinality(UsedSlots')
    BY <1>1, <2>2 DEF Free, CountIsExact
  <2>4. alloc_count' \in Nat
    <3>1. IsFiniteSet(UsedSlots \ {id})
      BY UsedSlotsFinite, FS_RemoveElement
    <3> QED BY <2>1, <2>3, <3>1, FS_CardinalityType
  <2>5. TableTypeOK'
    BY <1>1, <2>4, BindTypes DEF Free, TableTypeOK, UsedSlots
  <2>6. \A w \in UsedSlots \ {id} : bind_info'[w] = bind_info[w]
    BY <1>1 DEF Free, TableTypeOK, UsedSlots
  <2> QED BY <2>1, <2>3, <2>5, <2>6 DEF CountIsExact
<1>2. CASE id \notin UsedSlots
  BY <1>2 DEF Free, tableVars, TableTypeOK, UsedSlots, CountIsExact
<1> QED BY <1>1, <1>2

LEMMA RebindStep ==
    ASSUME TableTypeOK, NEW id, NEW bind \in BindInfo, Rebind(id, bind)
    PROVE  /\ TableTypeOK'
           /\ UsedSlots' = UsedSlots
           /\ \A w \in WrapperIds : w # id => bind_info'[w] = bind_info[w]
           /\ id \in UsedSlots => bind_info'[id] = bind
           /\ CountIsExact => CountIsExact'
<1>1. CASE id \in UsedSlots
  BY <1>1 DEF Rebind, TableTypeOK, UsedSlots, CountIsExact
<1>2. CASE id \notin UsedSlots
  BY <1>2 DEF Rebind, tableVars, TableTypeOK, UsedSlots, CountIsExact
<1> QED BY <1>1, <1>2

-----------------------------------------------------------------------------

\* What a call of each operation preserves.
LEMMA AllocKeeps ==
    ASSUME ClientInv, NEW bind \in BindInfo, CallAlloc(bind)
    PROVE  ClientInv'
<1> USE DEF ClientInv, ClientTypeOK, CallAlloc
<1>1. TableTypeOK' /\ CountIsExact'
  BY AllocStep
<1>2. AllocResult \in AnyId
  BY AllocResultFree DEF AnyId
<1>3. CASE AllocResult = kInvalidWrapperId
  BY <1>1, <1>2, <1>3 DEF Alloc, tableVars, AnyId, WrapperIds
<1>4. CASE AllocResult # kInvalidWrapperId
  BY <1>1, <1>2, <1>4 DEF Alloc, AnyId, WrapperIds
<1> QED BY <1>3, <1>4

LEMMA FreeKeeps ==
    ASSUME ClientInv, NEW id \in AnyId, CallFree(id)
    PROVE  ClientInv'
<1> USE DEF ClientInv, ClientTypeOK, CallFree
<1>1. TableTypeOK' /\ CountIsExact'
  BY FreeStep
<1>2. next_free' = next_free
  BY DEF Free, tableVars
<1> QED BY <1>1, <1>2 DEF AnyId, WrapperIds

LEMMA RebindKeeps ==
    ASSUME ClientInv, NEW id \in AnyId, NEW bind \in BindInfo, CallRebind(id, bind)
    PROVE  ClientInv'
<1> USE DEF ClientInv, ClientTypeOK, CallRebind
<1>1. TableTypeOK' /\ CountIsExact'
  BY RebindStep
<1>2. next_free' = next_free
  BY DEF Rebind, tableVars
<1> QED BY <1>1, <1>2 DEF AnyId, WrapperIds

\* The inductive invariant.
THEOREM ClientInvariance == ClientSpec => []ClientInv
<1>1. ClientInit => ClientInv
  BY InitTable, WrapperTableAssumption
     DEF ClientInit, ClientInv, ClientTypeOK, AnyId, WrapperIds
<1>2. ClientInv /\ [ClientNext]_clientVars => ClientInv'
  <2> SUFFICES ASSUME ClientInv, [ClientNext]_clientVars
               PROVE  ClientInv'
    OBVIOUS
  <2>1. CASE UNCHANGED clientVars
    BY <2>1 DEF clientVars, ClientInv, ClientTypeOK, TableTypeOK, CountIsExact,
                UsedSlots, AnyId, WrapperIds
  <2>2. CASE ClientNext
    BY <2>2, AllocKeeps, FreeKeeps, RebindKeeps DEF ClientNext
  <2> QED BY <2>1, <2>2
<1> QED BY <1>1, <1>2, PTL DEF ClientSpec

\* wrapper_table.cpp keeps alloc_count_ equal to the number of slots in use.
THEOREM ClientCountIsExact == ClientSpec => []CountIsExact
<1>1. ClientInv => CountIsExact
  BY DEF ClientInv
<1> QED BY <1>1, ClientInvariance, PTL

\* The table's variables keep their types whatever ids its callers pass: the
\* count stays a natural number because Free takes back only what is in use.
THEOREM ClientTypes == ClientSpec => []ClientTypeOK
<1>1. ClientInv => ClientTypeOK
  BY DEF ClientInv
<1> QED BY <1>1, ClientInvariance, PTL

\* A scan that starts just behind slot w looks at w last.
LEMMA LastProbed ==
    ASSUME TableTypeOK, NEW w \in WrapperIds, next_free = (w + 1) % kMaxWrappers,
           NEW i \in WrapperIds, Probe(i) = w
    PROVE  i = kMaxWrappers - 1
<1> USE WrapperTableAssumption
<1>1. CASE w = kMaxWrappers - 1
  <2>1. next_free = 0
    BY <1>1
  <2>2. Probe(i) = i
    BY <2>1, ModWrap DEF Probe, WrapperIds
  <2> QED BY <1>1, <2>2
<1>2. CASE w < kMaxWrappers - 1
  <2>1. next_free = w + 1
    BY <1>2, ModWrap DEF WrapperIds
  <2>2. CASE w + 1 + i < kMaxWrappers
    BY <2>1, <2>2, ModWrap DEF Probe, WrapperIds
  <2>3. CASE w + 1 + i >= kMaxWrappers
    <3>1. w + 1 + i - kMaxWrappers \in WrapperIds
      BY <2>3, <1>2 DEF WrapperIds
    <3>2. (w + 1 + i - kMaxWrappers + kMaxWrappers) % kMaxWrappers = w + 1 + i - kMaxWrappers
      BY <3>1, ModWrap DEF WrapperIds
    <3>3. w + 1 + i - kMaxWrappers + kMaxWrappers = w + 1 + i
      BY DEF WrapperIds
    <3>4. Probe(i) = w + 1 + i - kMaxWrappers
      BY <2>1, <3>2, <3>3 DEF Probe
    <3> QED BY <3>4 DEF WrapperIds
  <2> QED BY <2>2, <2>3 DEF WrapperIds
<1> QED BY <1>1, <1>2 DEF WrapperIds

\* The slot handed out last is the last to be handed out again.
THEOREM ReuseIsLast == ClientSpec => NoImmediateReuse
<1> DEFINE Taken == recent \in WrapperIds /\ ~ in_use[recent] /\ in_use'[recent]
           OthersUsed == UsedSlots = WrapperIds \ {recent}
<1>1. ASSUME ClientInv, NEW bind \in BindInfo, CallAlloc(bind), Taken
      PROVE  OthersUsed
  <2> USE <1>1 DEF ClientInv, ClientTypeOK
  <2>1. AllocResult = recent
    BY AllocResultFree DEF CallAlloc, Alloc, tableVars, TableTypeOK
  <2>2. PICK i \in WrapperIds : FirstFreeRound(i) /\ Probe(i) = recent
    BY <2>1, WrapperTableAssumption DEF AllocResult, WrapperIds
  <2>3. i = kMaxWrappers - 1
    BY <2>2, LastProbed
  <2>4. ASSUME NEW w \in WrapperIds, w # recent
        PROVE  in_use[w]
    <3>1. PICK j \in WrapperIds : Probe(j) = w
      BY ProbeCovers
    <3>2. j < i
      BY <2>2, <2>3, <2>4, <3>1, WrapperTableAssumption DEF WrapperIds
    <3> QED BY <2>2, <3>1, <3>2 DEF FirstFreeRound
  <2> QED BY <2>4 DEF UsedSlots
<1>2. ASSUME ClientInv, NEW id \in AnyId, CallFree(id), Taken
      PROVE  OthersUsed
  BY <1>2 DEF ClientInv, ClientTypeOK, TableTypeOK, CallFree, Free, tableVars, UsedSlots
<1>3. ASSUME ClientInv, NEW id \in AnyId, NEW bind \in BindInfo, CallRebind(id, bind), Taken
      PROVE  OthersUsed
  BY <1>3 DEF CallRebind, Rebind, tableVars
<1>4. ClientInv /\ [ClientNext]_clientVars => [Taken => OthersUsed]_clientVars
  BY <1>1, <1>2, <1>3 DEF ClientNext
<1> QED BY <1>4, ClientInvariance, PTL DEF ClientSpec, NoImmediateReuse

-----------------------------------------------------------------------------

\* The table implements the pool.
THEOREM ClientImplementsPool == ClientSpec => ImplementsPool
<1> DEFINE pool == [w \in UsedSlots |-> bind_info[w]]
<1>1. ClientInit => Pool!PoolInit
  <2> SUFFICES ASSUME ClientInit PROVE Pool!PoolInit
    OBVIOUS
  <2>1. UsedSlots = {}
    BY InitTable DEF ClientInit
  <2> QED BY <2>1 DEF ClientInit, Pool!PoolInit, Pool!EmptyMap
<1>2. ClientInv /\ [ClientNext]_clientVars => [Pool!PoolNext]_(Pool!poolVars)
  <2> SUFFICES ASSUME ClientInv, [ClientNext]_clientVars
               PROVE  [Pool!PoolNext]_(Pool!poolVars)
    OBVIOUS
  <2> USE DEF ClientInv, ClientTypeOK
  <2>0. DOMAIN pool = UsedSlots /\ UsedSlots \subseteq WrapperIds
    BY DEF UsedSlots
  <2>1. ASSUME NEW bind \in BindInfo, CallAlloc(bind)
        PROVE  Pool!PoolAlloc(bind)
    <3>1. CASE AllocResult = kInvalidWrapperId
      <4>1. UsedSlots = WrapperIds /\ pool' = pool
        BY <2>1, <3>1, AllocResultFree DEF CallAlloc, Alloc, tableVars, UsedSlots
      <4> QED BY <2>1, <3>1, <4>1 DEF CallAlloc, Pool!PoolAlloc
    <3>2. CASE AllocResult # kInvalidWrapperId
      <4>1. AllocResult \in WrapperIds \ UsedSlots
        BY <3>2, AllocResultFree
      <4>2. UsedSlots' = UsedSlots \cup {AllocResult}
        BY <2>1, <4>1, AllocStep DEF CallAlloc
      <4>3. pool' = Pool!Put(pool, AllocResult, bind)
        BY <2>1, <4>1, <4>2, AllocStep DEF CallAlloc, Pool!Put
      <4> QED BY <2>0, <2>1, <4>1, <4>3 DEF CallAlloc, Pool!PoolAlloc
    <3> QED BY <3>1, <3>2
  <2>2. ASSUME NEW id \in AnyId, CallFree(id)
        PROVE  Pool!PoolFree(id)
    <3>1. pool' = Pool!Erase(pool, id)
      BY <2>2, FreeStep DEF CallFree, Pool!Erase
    <3> QED BY <2>2, <3>1 DEF CallFree, Pool!PoolFree
  <2>3. ASSUME NEW id \in AnyId, NEW bind \in BindInfo, CallRebind(id, bind)
        PROVE  Pool!PoolRebind(id, bind)
    <3>1. UsedSlots' = UsedSlots
      BY <2>3, RebindStep DEF CallRebind
    <3>2. CASE id \in UsedSlots
      <4>1. pool' = Pool!Put(pool, id, bind)
        BY <2>0, <2>3, <3>1, <3>2, RebindStep DEF CallRebind, Pool!Put
      <4> QED BY <2>0, <2>3, <3>2, <4>1 DEF CallRebind, Pool!PoolRebind
    <3>3. CASE id \notin UsedSlots
      <4>1. pool' = pool
        BY <2>3, <3>1, <3>3 DEF CallRebind, Rebind, tableVars
      <4> QED BY <2>0, <2>3, <3>3, <4>1 DEF CallRebind, Pool!PoolRebind
    <3> QED BY <3>2, <3>3
  <2>4. CASE UNCHANGED clientVars
    BY <2>4 DEF clientVars, UsedSlots, Pool!poolVars
  <2> QED BY <2>1, <2>2, <2>3, <2>4 DEF ClientNext, Pool!PoolNext, AnyId
<1> QED
  BY <1>1, <1>2, ClientInvariance, PTL DEF ClientSpec, ImplementsPool, Pool!PoolSpec

=============================================================================
