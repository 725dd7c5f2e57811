---------------------------- MODULE WrapperClient ---------------------------
(***************************************************************************)
(* The wrapper table driven by arbitrary callers of its public interface,  *)
(* stale and invalid ids included (Free and Rebind check both).            *)
(***************************************************************************)
EXTENDS WrapperTable, Maps

VARIABLES
    result,     \* the return value of the last call
    recent      \* the id that Alloc handed out last

clientVars == <<in_use, bind_info, next_free, alloc_count, result, recent>>

ClientInit ==
    /\ TableInit
    /\ result = kInvalidWrapperId
    /\ recent = kInvalidWrapperId

CallAlloc(bind) ==
    /\ Alloc(bind)
    /\ result' = AllocResult
    /\ recent' = IF AllocResult = kInvalidWrapperId THEN recent ELSE AllocResult

CallFree(id) ==
    /\ Free(id)
    /\ result' = kInvalidWrapperId
    /\ UNCHANGED recent

CallRebind(id, bind) ==
    /\ Rebind(id, bind)
    /\ result' = kInvalidWrapperId
    /\ UNCHANGED recent

AnyId == WrapperIds \cup {kInvalidWrapperId}

ClientNext ==
    \/ \E bind \in BindInfo : CallAlloc(bind)
    \/ \E id \in AnyId : CallFree(id)
    \/ \E id \in AnyId, bind \in BindInfo : CallRebind(id, bind)

ClientSpec == ClientInit /\ [][ClientNext]_clientVars

-----------------------------------------------------------------------------

\* Every variable keeps its type.
ClientTypeOK == TableTypeOK /\ result \in AnyId /\ recent \in AnyId

\* The inductive invariant behind the refinement and the reuse order: the
\* types, the exact count (without it alloc_count - 1 could leave Nat), and
\* that the scan starts just behind the slot handed out last.
ClientInv ==
    /\ ClientTypeOK
    /\ CountIsExact
    /\ recent \in WrapperIds => next_free = (recent + 1) % kMaxWrappers

\* The slot handed out last is the last one to be handed out again: when it has
\* been freed, Alloc returns it only if every other slot is taken.  This is
\* what the rotating scan of wrapper_table.cpp:17-24 buys over a scan from 0:
\* a caller left with a stale id is not aliased while another slot is free.
NoImmediateReuse ==
    [][(recent \in WrapperIds /\ ~ in_use[recent] /\ in_use'[recent])
          => UsedSlots = WrapperIds \ {recent}]_clientVars

-----------------------------------------------------------------------------

\* The table implements the pool: the scan, the in_use flags and next_free_
\* together hand out a free id whenever there is one, never one that is held,
\* and keep every holder's BindInfo through other callers' operations.
Pool == INSTANCE WrapperPool
          WITH Ids    <- WrapperIds,
               Values <- BindInfo,
               NoId   <- kInvalidWrapperId,
               pool   <- [w \in UsedSlots |-> bind_info[w]]

ImplementsPool == Pool!PoolSpec

=============================================================================
