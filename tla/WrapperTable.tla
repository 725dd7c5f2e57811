---------------------------- MODULE WrapperTable ----------------------------
(***************************************************************************)
(* The table of wrapper slots (src/runtime/wrapper_table.cpp): a fixed     *)
(* array scanned circularly from next_free_.  The actions here are the     *)
(* operations; WrapperClient drives them alone and Runtime composes them   *)
(* with the dispatch table and the interpreter.                            *)
(***************************************************************************)
EXTENDS HotVMTypes

CONSTANTS
    kMaxWrappers,       \* number of slots
    kInvalidWrapperId   \* UINT32_MAX as a wrapper id

ASSUME WrapperTableAssumption ==
    /\ kMaxWrappers \in Nat \ {0}
    /\ kInvalidWrapperId \notin 0 .. (kMaxWrappers - 1)

VARIABLES
    in_use,             \* slots_[w].in_use
    bind_info,          \* slots_[w].bind_info
    next_free,          \* where the next scan starts
    alloc_count         \* what AllocatedCount() reports

tableVars == <<in_use, bind_info, next_free, alloc_count>>

\* The ids that pass the bounds test id < kMaxWrappers.
WrapperIds == 0 .. (kMaxWrappers - 1)

UsedSlots == {w \in WrapperIds : in_use[w]}

TableTypeOK ==
    /\ in_use \in [WrapperIds -> BOOLEAN]
    /\ bind_info \in [WrapperIds -> BindInfo]
    /\ next_free \in WrapperIds
    /\ alloc_count \in Nat

TableInit ==
    /\ in_use = [w \in WrapperIds |-> FALSE]
    /\ bind_info = [w \in WrapperIds |-> ZeroBind]
    /\ next_free = 0
    /\ alloc_count = 0

-----------------------------------------------------------------------------

\* The slot looked at in round i of the scan.
Probe(i) == (next_free + i) % kMaxWrappers

\* Round i is the first one that meets a free slot.
FirstFreeRound(i) ==
    /\ ~ in_use[Probe(i)]
    /\ \A j \in WrapperIds : j < i => in_use[Probe(j)]

\* Mutant of AllocResult: the slot at next_free is not tested.
AllocAtScan == next_free

\* What Alloc returns: the first free slot of the scan, or the invalid id.
AllocResult ==
    IF \E i \in WrapperIds : FirstFreeRound(i)
    THEN Probe(CHOOSE i \in WrapperIds : FirstFreeRound(i))
    ELSE kInvalidWrapperId

\* Mutants of Alloc: next_free_ runs off the end; next_free_ is left behind.
AllocNoWrap(bind) ==
    IF AllocResult = kInvalidWrapperId
    THEN UNCHANGED tableVars
    ELSE /\ in_use' = [in_use EXCEPT ![AllocResult] = TRUE]
         /\ bind_info' = [bind_info EXCEPT ![AllocResult] = bind]
         /\ alloc_count' = alloc_count + 1
         /\ next_free' = AllocResult + 1

AllocKeepsScan(bind) ==
    IF AllocResult = kInvalidWrapperId
    THEN UNCHANGED tableVars
    ELSE /\ in_use' = [in_use EXCEPT ![AllocResult] = TRUE]
         /\ bind_info' = [bind_info EXCEPT ![AllocResult] = bind]
         /\ alloc_count' = alloc_count + 1
         /\ UNCHANGED next_free

Alloc(bind) ==
    IF AllocResult = kInvalidWrapperId
    THEN UNCHANGED tableVars
    ELSE /\ in_use' = [in_use EXCEPT ![AllocResult] = TRUE]
         /\ bind_info' = [bind_info EXCEPT ![AllocResult] = bind]
         /\ alloc_count' = alloc_count + 1
         /\ next_free' = (AllocResult + 1) % kMaxWrappers

\* Mutant of Free: a slot that is not in use is freed again.
FreeUnchecked(id) ==
    IF id \in WrapperIds
    THEN /\ in_use' = [in_use EXCEPT ![id] = FALSE]
         /\ bind_info' = [bind_info EXCEPT ![id] = DefaultBind]
         /\ alloc_count' = alloc_count - 1
         /\ UNCHANGED next_free
    ELSE UNCHANGED tableVars

Free(id) ==
    IF id \in UsedSlots
    THEN /\ in_use' = [in_use EXCEPT ![id] = FALSE]
         /\ bind_info' = [bind_info EXCEPT ![id] = DefaultBind]
         /\ alloc_count' = alloc_count - 1
         /\ UNCHANGED next_free
    ELSE UNCHANGED tableVars

Rebind(id, bind) ==
    IF id \in UsedSlots
    THEN /\ bind_info' = [bind_info EXCEPT ![id] = bind]
         /\ UNCHANGED <<in_use, next_free, alloc_count>>
    ELSE UNCHANGED tableVars

\* Part of the table's correctness that every user of it relies on: the
\* counter that AllocatedCount() reports is the number of slots in use.
CountIsExact == alloc_count = Cardinality(UsedSlots)

=============================================================================
