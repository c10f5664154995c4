----------------------------- MODULE KeyedMutex -----------------------------
(***************************************************************************)
(* What the keyed locks of the subscriptions promise: one owner per        *)
(* subscription at a time, of subscriptions that were created, and a       *)
(* subscription that only its owner removes.  Creation asks nobody.  The   *)
(* gates, their reference counts and the mutex behind them are             *)
(* SubscriptionLocks, which implements this.                               *)
(***************************************************************************)
EXTENDS Naturals

CONSTANTS
    Callers,      \* requests and loops
    MaxIds,       \* bound on the subscriptions ever created
    Nobody

VARIABLES
    rows,         \* the subscriptions that exist
    born,         \* the highest identifier ever allocated
    owner         \* who may change each subscription

vars == <<rows, born, owner>>

Ids == 1..MaxIds

Init ==
    /\ born \in 0..MaxIds
    /\ rows \in SUBSET (1..born)
    /\ owner = [i \in Ids |-> Nobody]

\* A new subscription is nobody's.
Create ==
    /\ born < MaxIds
    /\ born' = born + 1
    /\ rows' = rows \union {born + 1}
    /\ UNCHANGED owner

\* Only what was once created can be locked.
Acquire(c, i) ==
    /\ i <= born
    /\ owner[i] = Nobody
    /\ owner' = [owner EXCEPT ![i] = c]
    /\ UNCHANGED <<rows, born>>

Release(c, i) ==
    /\ owner[i] = c
    /\ owner' = [owner EXCEPT ![i] = Nobody]
    /\ UNCHANGED <<rows, born>>

\* A full gate is handed to the longest waiter in the step that empties it.
HandOver(c, d, i) ==
    /\ owner[i] = c
    /\ owner' = [owner EXCEPT ![i] = d]
    /\ UNCHANGED <<rows, born>>

\* Only the owner removes a subscription.
Remove(c, i) ==
    /\ owner[i] = c
    /\ rows' = rows \ {i}
    /\ UNCHANGED <<born, owner>>

Next ==
    \/ Create
    \/ \E c \in Callers, i \in Ids :
        \/ Acquire(c, i)
        \/ Release(c, i)
        \/ Remove(c, i)
        \/ \E d \in Callers : HandOver(c, d, i)

Spec == Init /\ [][Next]_vars
=============================================================================
