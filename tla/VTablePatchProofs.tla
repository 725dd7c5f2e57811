-------------------------- MODULE VTablePatchProofs -------------------------
(***************************************************************************)
(* The vtable patcher, proved for every set of slots and functions and     *)
(* every bound on the number of entries.                                   *)
(***************************************************************************)
EXTENDS VTablePatch, SequenceTheorems, WellFoundedInduction, TLAPS

USE VTableAssumption

AllFns == UNION {Proper(s) : s \in Slots}

VTablePatchEntry == [slot : Slots, original_fn : AllFns, new_fn : AllFns]

VTableTypeOK ==
    /\ vtable \in [Slots -> AllFns]
    /\ entries \in Seq(VTablePatchEntry)

LEMMA ProperTypes ==
    \A s \in Slots : /\ Proper(s) \subseteq AllFns
                     /\ OriginalFn[s] \in Proper(s)
                     /\ FnsFor[s] \subseteq Proper(s)
BY DEF Proper, AllFns

\* Erasing one element of entries_ keeps the others in order.
LEMMA EraseEntry ==
    ASSUME NEW T, NEW q \in Seq(T), NEW i \in 1 .. Len(q)
    PROVE  /\ RemoveAt(q, i) \in Seq(T)
           /\ Len(RemoveAt(q, i)) = Len(q) - 1
           /\ \A j \in 1 .. (Len(q) - 1) :
                 RemoveAt(q, i)[j] = IF j < i THEN q[j] ELSE q[j + 1]
<1> DEFINE front == SubSeq(q, 1, i - 1)
           back  == SubSeq(q, i + 1, Len(q))
<1>1. front \in Seq(T) /\ Len(front) = i - 1 /\ \A j \in 1 .. (i - 1) : front[j] = q[j]
  OBVIOUS
<1>2. /\ back \in Seq(T)
      /\ Len(back) = Len(q) - i
      /\ \A j \in 1 .. (Len(q) - i) : back[j] = q[i + j]
  OBVIOUS
<1> HIDE DEF front, back
<1>3. front \o back \in Seq(T) /\ Len(front \o back) = Len(q) - 1
  <2>1. front \o back \in Seq(T) /\ Len(front \o back) = Len(front) + Len(back)
    BY <1>1, <1>2, ConcatProperties
  <2>2. (i - 1) + (Len(q) - i) = Len(q) - 1
    OBVIOUS
  <2> QED BY <2>1, <2>2, <1>1, <1>2
<1>4. ASSUME NEW j \in 1 .. (Len(q) - 1)
      PROVE  (front \o back)[j] = IF j < i THEN q[j] ELSE q[j + 1]
  <2>1. CASE j < i
    BY <1>1, <1>2, <2>1
  <2>2. CASE ~ (j < i)
    <3>1. (front \o back)[j] = back[j - (i - 1)]
      BY <1>1, <1>2, <2>2
    <3>2. j - (i - 1) \in 1 .. (Len(q) - i)
      BY <2>2
    <3>3. back[j - (i - 1)] = q[i + (j - (i - 1))]
      BY <1>2, <3>2
    <3>4. i + (j - (i - 1)) = j + 1
      OBVIOUS
    <3> QED BY <3>1, <3>3, <3>4, <2>2
  <2> QED BY <2>1, <2>2
<1>5. RemoveAt(q, i) = front \o back
  BY DEF RemoveAt, front, back
<1> QED BY <1>3, <1>4, <1>5

-----------------------------------------------------------------------------
(* The steps, which the patcher's three usages share. *)

LEMMA InitOwn ==
    ASSUME VTableInit
    PROVE  VTableTypeOK /\ OwnFunction /\ EntriesTellAll
<1>1. VTableTypeOK
  BY ProperTypes DEF VTableInit, VTableTypeOK
<1>2. OwnFunction
  BY ProperTypes DEF VTableInit, OwnFunction
<1>3. EntriesTellAll
  BY DEF VTableInit, EntriesTellAll, EntriesFor
<1> QED BY <1>1, <1>2, <1>3

LEMMA PatchStep ==
    ASSUME VTableTypeOK, OwnFunction,
           NEW s \in Slots, NEW fn \in FnsFor[s], PatchSlot(s, fn)
    PROVE  VTableTypeOK' /\ OwnFunction'
<1> DEFINE new == [slot |-> s, original_fn |-> vtable[s], new_fn |-> fn]
<1> USE DEF VTableTypeOK, PatchSlot
<1>1. new \in VTablePatchEntry
  BY ProperTypes DEF VTablePatchEntry
<1>2. /\ entries' \in Seq(VTablePatchEntry)
      /\ Len(entries') = Len(entries) + 1
      /\ \A i \in 1 .. Len(entries) : entries'[i] = entries[i]
      /\ entries'[Len(entries) + 1] = new
  BY <1>1
<1>3. VTableTypeOK'
  BY <1>2, ProperTypes
<1>4. \A r \in Slots : vtable'[r] \in Proper(r)
  BY ProperTypes DEF OwnFunction
<1>5. ASSUME NEW i \in 1 .. Len(entries')
      PROVE  entries'[i].original_fn \in Proper(entries'[i].slot)
  <2>1. CASE i \in 1 .. Len(entries)
    BY <2>1, <1>2 DEF OwnFunction
  <2>2. CASE i = Len(entries) + 1
    BY <2>2, <1>2 DEF OwnFunction
  <2> QED BY <2>1, <2>2, <1>2, <1>5
<1> QED BY <1>3, <1>4, <1>5 DEF OwnFunction

LEMMA UnpatchStep ==
    ASSUME VTableTypeOK, OwnFunction, NEW s \in Slots, UnpatchSlot(s)
    PROVE  VTableTypeOK' /\ OwnFunction'
<1>1. PICK i \in 1 .. Len(entries) :
        /\ entries[i].slot = s
        /\ vtable' = [vtable EXCEPT ![s] = entries[i].original_fn]
        /\ entries' = RemoveAt(entries, i)
  BY DEF UnpatchSlot, EntriesFor
<1>2. entries[i] \in VTablePatchEntry
  BY DEF VTableTypeOK
<1>3. /\ entries' \in Seq(VTablePatchEntry)
      /\ Len(entries') = Len(entries) - 1
      /\ \A j \in 1 .. (Len(entries) - 1) :
            entries'[j] = IF j < i THEN entries[j] ELSE entries[j + 1]
  BY <1>1, EraseEntry DEF VTableTypeOK
<1>4. VTableTypeOK'
  BY <1>1, <1>2, <1>3 DEF VTableTypeOK, VTablePatchEntry
<1>5. \A r \in Slots : vtable'[r] \in Proper(r)
  BY <1>1 DEF OwnFunction, VTableTypeOK
<1>6. ASSUME NEW j \in 1 .. Len(entries')
      PROVE  entries'[j].original_fn \in Proper(entries'[j].slot)
  <2>1. j \in 1 .. Len(entries) /\ j + 1 \in 1 .. Len(entries) /\ j \in 1 .. (Len(entries) - 1)
    BY <1>3, <1>6 DEF VTableTypeOK
  <2> QED BY <2>1, <1>3 DEF OwnFunction
<1> QED BY <1>4, <1>5, <1>6 DEF OwnFunction

\* A set of indices that is not empty has a last one.
LEMMA LastIndex ==
    ASSUME NEW n \in Nat, NEW S \in SUBSET (1 .. n), S # {}
    PROVE  \E i \in S : \A j \in S : j <= i
<1> DEFINE T == {n - i : i \in S}
<1>1. T # {} /\ T \subseteq Nat
  <2>1. \A i \in S : n - i \in Nat
    OBVIOUS
  <2> QED BY <2>1
<1>2. PICK m \in T : \A k \in T : ~ (<<k, m>> \in OpToRel(<, Nat))
  BY <1>1, NatLessThanWellFounded, WFMin
<1>3. PICK i \in S : m = n - i
  BY <1>2
<1>4. ASSUME NEW j \in S
      PROVE  j <= i
  <2>1. n - j \in T
    BY <1>4
  <2>2. ~ (n - j < n - i)
    BY <1>1, <1>2, <1>3, <2>1 DEF OpToRel
  <2> QED BY <2>2
<1> QED BY <1>4

\* UnpatchAll writes to a slot what one of its entries saved.
LEMMA UnpatchAllWrites ==
    ASSUME VTableTypeOK, NEW written \in SUBSET (1 .. Len(entries)), UnpatchAll(written),
           NEW s \in Slots
    PROVE  IF EntriesFor(s) \cap written = {}
           THEN vtable'[s] = vtable[s]
           ELSE \E i \in EntriesFor(s) : vtable'[s] = entries[i].original_fn
<1> DEFINE mine == EntriesFor(s) \cap written
<1>1. CASE mine = {}
  BY <1>1 DEF UnpatchAll
<1>2. CASE mine # {}
  <2>1. mine \subseteq 1 .. Len(entries) /\ Len(entries) \in Nat
    BY DEF EntriesFor, VTableTypeOK
  <2>2. \E i \in mine : \A j \in mine : j <= i
    BY <1>2, <2>1, LastIndex
  <2>3. (CHOOSE i \in mine : \A j \in mine : j <= i) \in mine
    BY <2>2
  <2>4. vtable'[s] = entries[CHOOSE i \in mine : \A j \in mine : j <= i].original_fn
    BY <1>2 DEF UnpatchAll
  <2> QED BY <1>2, <2>3, <2>4
<1> QED BY <1>1, <1>2

LEMMA UnpatchAllStep ==
    ASSUME VTableTypeOK, OwnFunction,
           NEW written \in SUBSET (1 .. Len(entries)), UnpatchAll(written)
    PROVE  VTableTypeOK' /\ OwnFunction'
<1>1. \A s \in Slots : vtable'[s] \in Proper(s)
  BY UnpatchAllWrites DEF OwnFunction, EntriesFor
<1>2. entries' = <<>> /\ vtable' = [s \in Slots |-> vtable'[s]]
  BY DEF UnpatchAll
<1>3. VTableTypeOK'
  BY <1>1, <1>2, ProperTypes DEF VTableTypeOK
<1> QED BY <1>1, <1>2, <1>3 DEF OwnFunction

-----------------------------------------------------------------------------

\* Every slot holds a function of its own, however the patcher is used.
THEOREM SlotsKeepTheirOwn == VTableSpec => []OwnFunction
<1>1. VTableInit => VTableTypeOK /\ OwnFunction
  BY InitOwn
<1>2. VTableTypeOK /\ OwnFunction /\ [VTableNext]_vtableVars => (VTableTypeOK /\ OwnFunction)'
  <2> SUFFICES ASSUME VTableTypeOK, OwnFunction, [VTableNext]_vtableVars
               PROVE  VTableTypeOK' /\ OwnFunction'
    OBVIOUS
  <2>1. CASE UNCHANGED vtableVars
    BY <2>1 DEF vtableVars, VTableTypeOK, OwnFunction
  <2>2. CASE VTableNext
    BY <2>2, PatchStep, UnpatchStep, UnpatchAllStep DEF VTableNext
  <2> QED BY <2>1, <2>2
<1> QED BY <1>1, <1>2, PTL DEF VTableSpec

-----------------------------------------------------------------------------
(* The careful usage.  EntriesTellAll alone is not inductive: UnpatchSlot   *)
(* would break it if the slot had another entry.                            *)

CarefulInv == VTableTypeOK /\ OwnFunction /\ EntriesTellAll /\ OneEntryEach

LEMMA CarefulPatch ==
    ASSUME CarefulInv, NEW s \in Slots, NEW fn \in FnsFor[s], PatchOnce(s, fn)
    PROVE  CarefulInv'
<1> DEFINE new == [slot |-> s, original_fn |-> vtable[s], new_fn |-> fn]
           n   == Len(entries)
<1> USE DEF CarefulInv, PatchOnce, VTableTypeOK
<1>1. VTableTypeOK' /\ OwnFunction'
  BY PatchStep
<1>2. /\ Len(entries') = n + 1 /\ n \in Nat
      /\ \A i \in 1 .. n : entries'[i] = entries[i]
      /\ entries'[n + 1] = new
  BY DEF PatchSlot
<1>3. EntriesFor(s)' = {n + 1}
  BY <1>2 DEF EntriesFor
<1>4. ASSUME NEW r \in Slots, r # s
      PROVE  EntriesFor(r)' = EntriesFor(r) /\ vtable'[r] = vtable[r]
  BY <1>2, <1>4 DEF EntriesFor, PatchSlot
<1>5. vtable'[s] = fn
  BY DEF PatchSlot
<1>6. EntriesTellAll'
  <2> SUFFICES ASSUME NEW r \in Slots
               PROVE  /\ EntriesFor(r)' = {} => vtable'[r] = OriginalFn[r]
                      /\ \A i \in EntriesFor(r)' :
                            /\ vtable'[r] = entries'[i].new_fn
                            /\ entries'[i].original_fn = OriginalFn[r]
    BY DEF EntriesTellAll
  <2>1. CASE r = s
    BY <2>1, <1>2, <1>3, <1>5 DEF EntriesTellAll
  <2>2. CASE r # s
    <3>1. \A i \in EntriesFor(r) : entries'[i] = entries[i]
      BY <1>2 DEF EntriesFor
    <3> QED BY <2>2, <3>1, <1>4 DEF EntriesTellAll
  <2> QED BY <2>1, <2>2
<1>7. OneEntryEach'
  <2> SUFFICES ASSUME NEW i \in 1 .. (n + 1), NEW j \in 1 .. (n + 1),
                      entries'[i].slot = entries'[j].slot
               PROVE  i = j
    BY <1>2 DEF OneEntryEach
  <2>1. \A k \in 1 .. n : entries[k].slot # s
    BY DEF EntriesFor
  <2>2. CASE i \in 1 .. n /\ j \in 1 .. n
    BY <2>2, <1>2 DEF OneEntryEach
  <2>3. CASE i = n + 1 \/ j = n + 1
    BY <2>1, <2>3, <1>2
  <2> QED BY <2>2, <2>3, <1>2
<1> QED BY <1>1, <1>6, <1>7

LEMMA CarefulUnpatch ==
    ASSUME CarefulInv, NEW s \in Slots, UnpatchSlot(s)
    PROVE  CarefulInv'
<1> DEFINE n == Len(entries)
<1> USE DEF CarefulInv
<1>1. VTableTypeOK' /\ OwnFunction'
  BY UnpatchStep
<1>2. PICK i \in 1 .. n :
        /\ entries[i].slot = s
        /\ vtable' = [vtable EXCEPT ![s] = entries[i].original_fn]
        /\ entries' = RemoveAt(entries, i)
  BY DEF UnpatchSlot, EntriesFor
<1>3. /\ Len(entries') = n - 1 /\ n \in Nat
      /\ \A j \in 1 .. (n - 1) : entries'[j] = IF j < i THEN entries[j] ELSE entries[j + 1]
  <2>1. entries \in Seq(VTablePatchEntry) /\ n \in Nat
    BY DEF VTableTypeOK
  <2>2. /\ Len(RemoveAt(entries, i)) = n - 1
        /\ \A j \in 1 .. (n - 1) :
              RemoveAt(entries, i)[j] = IF j < i THEN entries[j] ELSE entries[j + 1]
    BY <2>1, <1>2, EraseEntry
  <2> QED BY <2>1, <2>2, <1>2
<1>4. \A j \in 1 .. (n - 1) : \E k \in 1 .. n : k # i /\ entries'[j] = entries[k]
  <2> TAKE j \in 1 .. (n - 1)
  <2>1. CASE j < i
    BY <2>1, <1>3
  <2>2. CASE ~ (j < i)
    BY <2>2, <1>3
  <2> QED BY <2>1, <2>2
<1>5. \A j \in 1 .. (n - 1) : entries'[j].slot # s
  BY <1>2, <1>4 DEF OneEntryEach
<1>6. vtable'[s] = OriginalFn[s]
  BY <1>2 DEF EntriesTellAll, EntriesFor, VTableTypeOK
<1>7. EntriesTellAll'
  <2> SUFFICES ASSUME NEW r \in Slots
               PROVE  /\ EntriesFor(r)' = {} => vtable'[r] = OriginalFn[r]
                      /\ \A j \in EntriesFor(r)' :
                            /\ vtable'[r] = entries'[j].new_fn
                            /\ entries'[j].original_fn = OriginalFn[r]
    BY DEF EntriesTellAll
  <2>1. CASE r = s
    BY <2>1, <1>3, <1>5, <1>6 DEF EntriesFor
  <2>2. CASE r # s
    <3>1. vtable'[r] = vtable[r]
      BY <2>2, <1>2 DEF VTableTypeOK
    <3>2. ASSUME NEW j \in EntriesFor(r)'
          PROVE  \E k \in EntriesFor(r) : entries'[j] = entries[k]
      BY <3>2, <1>3, <1>4 DEF EntriesFor
    <3>3. ASSUME EntriesFor(r) # {}
          PROVE  EntriesFor(r)' # {}
      <4>1. PICK k \in 1 .. n : entries[k].slot = r
        BY <3>3 DEF EntriesFor
      <4>2. CASE k < i
        BY <4>1, <4>2, <1>3 DEF EntriesFor
      <4>3. CASE k > i
        <5>1. k - 1 \in 1 .. (n - 1) /\ ~ (k - 1 < i) /\ (k - 1) + 1 = k
          BY <4>3, <1>3
        <5>2. entries'[k - 1] = entries[k]
          BY <5>1, <1>3
        <5> QED BY <4>1, <5>1, <5>2, <1>3 DEF EntriesFor
      <4>4. k # i
        BY <4>1, <2>2, <1>2
      <4> QED BY <4>2, <4>3, <4>4
    <3> QED BY <3>1, <3>2, <3>3 DEF EntriesTellAll
  <2> QED BY <2>1, <2>2
<1>8. OneEntryEach'
  <2> SUFFICES ASSUME NEW j \in 1 .. (n - 1), NEW k \in 1 .. (n - 1),
                      entries'[j].slot = entries'[k].slot
               PROVE  j = k
    BY <1>3 DEF OneEntryEach
  <2> DEFINE from(m) == IF m < i THEN m ELSE m + 1
  <2>1. /\ from(j) \in 1 .. n /\ entries'[j] = entries[from(j)]
        /\ from(k) \in 1 .. n /\ entries'[k] = entries[from(k)]
    BY <1>3
  <2>2. from(j) = from(k)
    BY <2>1 DEF OneEntryEach
  <2> QED BY <2>2
<1> QED BY <1>1, <1>7, <1>8

LEMMA CarefulUnpatchAll ==
    ASSUME CarefulInv, UnpatchAll(1 .. Len(entries))
    PROVE  CarefulInv'
<1> USE DEF CarefulInv
<1>1. VTableTypeOK' /\ OwnFunction'
  BY UnpatchAllStep
<1>2. entries' = <<>>
  BY DEF UnpatchAll
<1>3. ASSUME NEW s \in Slots
      PROVE  vtable'[s] = OriginalFn[s] /\ EntriesFor(s)' = {}
  <2>1. EntriesFor(s) \cap (1 .. Len(entries)) = EntriesFor(s)
    BY DEF EntriesFor
  <2> QED BY <1>2, <2>1, UnpatchAllWrites DEF EntriesTellAll, EntriesFor
<1> QED BY <1>1, <1>2, <1>3 DEF EntriesTellAll, OneEntryEach

\* Under the careful usage the entries tell exactly how the vtables differ from
\* the compiler's, so that unpatching is an undo.
THEOREM CarefulUseUndoes == CarefulSpec => []EntriesTellAll
<1>1. VTableInit => CarefulInv
  BY InitOwn DEF VTableInit, CarefulInv, OneEntryEach
<1>2. CarefulInv /\ [CarefulNext]_vtableVars => CarefulInv'
  <2> SUFFICES ASSUME CarefulInv, [CarefulNext]_vtableVars
               PROVE  CarefulInv'
    OBVIOUS
  <2>1. CASE UNCHANGED vtableVars
    BY <2>1 DEF vtableVars, CarefulInv, VTableTypeOK, OwnFunction, EntriesTellAll,
                EntriesFor, OneEntryEach
  <2>2. CASE CarefulNext
    BY <2>2, CarefulPatch, CarefulUnpatch, CarefulUnpatchAll DEF CarefulNext
  <2> QED BY <2>1, <2>2
<1>3. CarefulInv => EntriesTellAll
  BY DEF CarefulInv
<1> QED BY <1>1, <1>2, <1>3, PTL DEF CarefulSpec

\* However the patcher was used before, careful steps keep the entries exact
\* (PatchSlot, UnpatchSlot, UnpatchAll).
THEOREM CarefulStepsKeep == VTableSpec => CarefulUseKeeps
<1> DEFINE Keeps == EntriesTellAll /\ OneEntryEach /\ CarefulNext
                      => EntriesTellAll' /\ OneEntryEach'
<1>1. VTableInit => VTableTypeOK /\ OwnFunction
  BY InitOwn
<1>2. VTableTypeOK /\ OwnFunction /\ [VTableNext]_vtableVars
        => (VTableTypeOK /\ OwnFunction)' /\ [Keeps]_vtableVars
  <2> SUFFICES ASSUME VTableTypeOK, OwnFunction, [VTableNext]_vtableVars
               PROVE  /\ VTableTypeOK' /\ OwnFunction'
                      /\ EntriesTellAll /\ OneEntryEach /\ CarefulNext
                           => EntriesTellAll' /\ OneEntryEach'
    OBVIOUS
  <2>1. VTableTypeOK' /\ OwnFunction'
    <3>1. CASE UNCHANGED vtableVars
      BY <3>1 DEF vtableVars, VTableTypeOK, OwnFunction
    <3>2. CASE VTableNext
      BY <3>2, PatchStep, UnpatchStep, UnpatchAllStep DEF VTableNext
    <3> QED BY <3>1, <3>2
  <2>2. ASSUME EntriesTellAll, OneEntryEach, CarefulNext
        PROVE  EntriesTellAll' /\ OneEntryEach'
    <3>1. CarefulInv
      BY <2>2 DEF CarefulInv
    <3>2. CarefulInv'
      BY <2>2, <3>1, CarefulPatch, CarefulUnpatch, CarefulUnpatchAll DEF CarefulNext
    <3> QED BY <3>2 DEF CarefulInv
  <2> QED BY <2>1, <2>2
<1>3. VTableSpec => [][Keeps]_vtableVars
  BY <1>1, <1>2, PTL DEF VTableSpec
<1> QED BY <1>3 DEF CarefulUseKeeps

=============================================================================
