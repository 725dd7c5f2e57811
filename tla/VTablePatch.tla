----------------------------- MODULE VTablePatch ----------------------------
(***************************************************************************)
(* VTablePatcher (src/patch/vtable_patch.cpp): overwrites vtable slots and *)
(* keeps the pointers it overwrote in a vector, so that they can be put    *)
(* back.  mprotect may refuse to make a page writable in any call:         *)
(* PatchSlot and UnpatchSlot then return false and change nothing, which   *)
(* is a stuttering step here.  What RestoreProtection returns is ignored.  *)
(***************************************************************************)
EXTENDS SequencesExt

CONSTANTS
    Slots,              \* slots: a vtable address and an index in that vtable
    FnsFor,             \* the functions each slot may be redirected to
    OriginalFn,         \* what the compiler put in each slot
    MaxEntries          \* bound on the length of entries_

ASSUME VTableAssumption ==
    /\ DOMAIN OriginalFn = Slots /\ DOMAIN FnsFor = Slots
    /\ \A s \in Slots : OriginalFn[s] \notin FnsFor[s]
    /\ MaxEntries \in Nat

VARIABLES
    vtable,             \* the memory: slot -> function
    entries             \* entries_

vtableVars == <<vtable, entries>>

VTableInit ==
    /\ vtable = [s \in Slots |-> OriginalFn[s]]
    /\ entries = <<>>

-----------------------------------------------------------------------------

\* Mutant of PatchSlot: the slot is saved after it is overwritten.
PatchSlotSavesLate(s, fn) ==
    /\ Len(entries) < MaxEntries
    /\ entries' = Append(entries, [slot |-> s, original_fn |-> fn, new_fn |-> fn])
    /\ vtable' = [vtable EXCEPT ![s] = fn]

\* The page of the slot is writable: the original is saved, also when it is
\* itself a patch.
PatchSlot(s, fn) ==
    /\ Len(entries) < MaxEntries
    /\ entries' = Append(entries, [slot |-> s, original_fn |-> vtable[s], new_fn |-> fn])
    /\ vtable' = [vtable EXCEPT ![s] = fn]

\* The indices of the entries for s.
EntriesFor(s) == {i \in 1 .. Len(entries) : entries[i].slot = s}

\* Mutant of UnpatchSlot: the first entry of all is taken for the slot's.
UnpatchFirst(s) ==
    /\ EntriesFor(s) # {}
    /\ vtable' = [vtable EXCEPT ![s] = entries[1].original_fn]
    /\ entries' = RemoveAt(entries, 1)

\* The first entry for the slot is undone, and forgotten.
UnpatchSlot(s) ==
    /\ \E i \in EntriesFor(s) :
          /\ \A j \in EntriesFor(s) : i <= j
          /\ vtable' = [vtable EXCEPT ![s] = entries[i].original_fn]
          /\ entries' = RemoveAt(entries, i)

\* Every entry is undone in the order of patching, so that the last one written
\* for a slot stays; entries outside `written`, whose page could not be made
\* writable, are skipped, and forgotten like the others.
UnpatchAll(written) ==
    /\ vtable' = [s \in Slots |->
                    LET mine == EntriesFor(s) \cap written
                    IN  IF mine = {} THEN vtable[s]
                        ELSE entries[CHOOSE i \in mine : \A j \in mine : j <= i].original_fn]
    /\ entries' = <<>>

VTableNext ==
    \/ \E s \in Slots : \E fn \in FnsFor[s] : PatchSlot(s, fn)
    \/ \E s \in Slots : UnpatchSlot(s)
    \/ \E written \in SUBSET (1 .. Len(entries)) : UnpatchAll(written)

VTableSpec == VTableInit /\ [][VTableNext]_vtableVars

-----------------------------------------------------------------------------

\* What a slot may hold.
Proper(s) == FnsFor[s] \cup {OriginalFn[s]}

\* Whatever is patched twice, unpatched in any order or refused by mprotect, no
\* slot is ever left with a function that is not its own: unpatching never
\* writes one slot's saved pointer to another.
OwnFunction ==
    /\ \A s \in Slots : vtable[s] \in Proper(s)
    /\ \A i \in 1 .. Len(entries) : entries[i].original_fn \in Proper(entries[i].slot)

-----------------------------------------------------------------------------
(* Usages of the patcher: is unpatching an undo? *)

PatchOnce(s, fn) == EntriesFor(s) = {} /\ PatchSlot(s, fn)

\* One patch of a slot at a time, and UnpatchAll finds every page writable.
CarefulNext ==
    \/ \E s \in Slots : \E fn \in FnsFor[s] : PatchOnce(s, fn)
    \/ \E s \in Slots : UnpatchSlot(s)
    \/ UnpatchAll(1 .. Len(entries))

CarefulSpec == VTableInit /\ [][CarefulNext]_vtableVars

\* Entries() says exactly how the vtables differ from the compiler's: a slot
\* without an entry holds its original; a slot with one is redirected to that
\* entry's new_fn, and the entry holds the original for the rollback.
EntriesTellAll ==
    \A s \in Slots :
       /\ EntriesFor(s) = {} => vtable[s] = OriginalFn[s]
       /\ \A i \in EntriesFor(s) :
             /\ vtable[s] = entries[i].new_fn
             /\ entries[i].original_fn = OriginalFn[s]

OneEntryEach ==
    \A i, j \in 1 .. Len(entries) : entries[i].slot = entries[j].slot => i = j

\* Whatever came before, once the entries tell all and no slot has two of them,
\* careful steps keep it so: unpatching is an undo again.  A step is careful if
\* it patches a slot that has no entry, unpatches one, or undoes all with every
\* page writable (vtable_patch.h:23 "Unpatch: restore original").
CarefulUseKeeps ==
    [][EntriesTellAll /\ OneEntryEach /\ CarefulNext
           => EntriesTellAll' /\ OneEntryEach']_vtableVars

=============================================================================
