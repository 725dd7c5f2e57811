----------------------------- MODULE WrapperPool ----------------------------
(***************************************************************************)
(* What the wrapper table promises its users, without slots, scan order or *)
(* counters: a pool of ids, each allocated id holding one value.           *)
(***************************************************************************)
EXTENDS Maps

CONSTANTS Ids, Values, NoId

VARIABLES
    pool,       \* allocated id -> its value
    result      \* what the last operation returned; NoId for none

poolVars == <<pool, result>>

PoolInit == pool = EmptyMap /\ result = NoId

\* An id nobody holds; NoId only when every id is held.
PoolAlloc(value) ==
    \/ \E id \in Ids \ DOMAIN pool :
          /\ pool' = Put(pool, id, value)
          /\ result' = id
    \/ /\ DOMAIN pool = Ids
       /\ result' = NoId
       /\ UNCHANGED pool

PoolFree(id) ==
    /\ pool' = Erase(pool, id)
    /\ result' = NoId

PoolRebind(id, value) ==
    /\ pool' = IF id \in DOMAIN pool THEN Put(pool, id, value) ELSE pool
    /\ result' = NoId

PoolNext ==
    \/ \E value \in Values : PoolAlloc(value)
    \/ \E id \in Ids \cup {NoId} : PoolFree(id)
    \/ \E id \in Ids \cup {NoId}, value \in Values : PoolRebind(id, value)

PoolSpec == PoolInit /\ [][PoolNext]_poolVars

=============================================================================
