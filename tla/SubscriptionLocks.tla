-------------------------- MODULE SubscriptionLocks --------------------------
(***************************************************************************)
(* The keyed locks that serialise the mutations of a subscription: a map   *)
(* from the subscription's identifier to a lock object, a one-place gate   *)
(* channel with the count of those who hold or wait for it.  The object is *)
(* created by the first who asks for it and forgotten with the last, so    *)
(* two objects for one subscription would be two owners.                   *)
(*                                                                         *)
(* One step is one section under the service's mutex, one operation on the *)
(* gate or one database statement.  A gate whose place is freed while      *)
(* somebody waits passes to the first in line in that same step, as a Go   *)
(* channel with blocked senders does.  Identifiers come from an            *)
(* AUTOINCREMENT column and are never reused; lock objects are, once       *)
(* nothing points at them (the garbage collector's reuse of memory).  The  *)
(* mutex is never kept from one step to the next.                          *)
(***************************************************************************)
EXTENDS Naturals, SequencesExt

CONSTANTS
    Requests,     \* request handlers: change, delete, render
    Sweeper,      \* the enforcement loop, which holds several locks at once
    Locks,        \* lock objects
    None,         \* no lock object, nobody
    MaxIds        \* bound on the subscriptions ever created

Callers == Requests \union {Sweeper}
Ids == 1..MaxIds

ASSUME CallersAssumption == Sweeper \notin Requests /\ None \notin Callers
ASSUME LocksAssumption == None \notin Locks
ASSUME IdsAssumption == MaxIds \in Nat

VARIABLES
    rows,         \* the subscriptions table
    lastId,       \* the sequence behind AUTOINCREMENT
    grouped,      \* those with members of their own, from before collections
    locks,        \* Service.subscriptionLocks
    refs,         \* subscriptionLock.refs
    gate,         \* who has a value in the gate
    line,         \* the blocked senders of the gate, first come first
    stage,        \* how far each caller is with each subscription
    mine,         \* the lock object each caller works with
    todo          \* the subscriptions the sweeper has still to look at

vars == <<rows, lastId, grouped, locks, refs, gate, line, stage, mine, todo>>

Stages == {"idle", "found", "retained", "trying", "waiting",
           "holding", "emptied", "gaveup"}

TypeOK ==
    /\ rows \subseteq Ids
    /\ lastId \in 0..MaxIds
    /\ grouped \subseteq Ids
    /\ locks \in [Ids -> Locks \union {None}]
    /\ refs \in [Locks -> Nat]
    /\ gate \in [Locks -> Callers \union {None}]
    /\ line \in [Locks -> Seq(Callers)]
    /\ stage \in [Callers -> [Ids -> Stages]]
    /\ mine \in [Callers -> [Ids -> Locks \union {None}]]
    /\ todo \subseteq Ids

Init ==
    /\ lastId \in 0..MaxIds
    /\ rows \in SUBSET (1..lastId)
    /\ grouped \in SUBSET rows
    /\ locks = [i \in Ids |-> None]
    /\ refs = [l \in Locks |-> 0]
    /\ gate = [l \in Locks |-> None]
    /\ line = [l \in Locks |-> <<>>]
    /\ stage = [c \in Callers |-> [i \in Ids |-> "idle"]]
    /\ mine = [c \in Callers |-> [i \in Ids |-> None]]
    /\ todo = {}

-----------------------------------------------------------------------------
(* The stages in which a caller is counted in the references of its lock.  *)
Counted == {"retained", "trying", "waiting", "holding", "emptied", "gaveup"}

Users(l) == {u \in Callers \X Ids :
                stage[u[1]][u[2]] \in Counted /\ mine[u[1]][u[2]] = l}

Fresh(l) ==
    /\ \A i \in Ids : locks[i] # l
    /\ Users(l) = {}

(* A lock object nothing points at: the allocator returns some such one.   *)
Spare == \E l \in Locks : Fresh(l)
NewLock == CHOOSE l \in Locks : Fresh(l)

Idle(c) == \A i \in Ids : stage[c][i] = "idle"

To(c, i, s) == stage' = [stage EXCEPT ![c][i] = s]

Takes(c, i, l) == mine' = [mine EXCEPT ![c][i] = l]

-----------------------------------------------------------------------------
(* CreateSubscriptionCollection: one transaction, without any lock.  Of     *)
(* those who create nothing is kept but the row.                           *)
CreateCollection ==
    /\ lastId < MaxIds
    /\ lastId' = lastId + 1
    /\ rows' = rows \union {lastId + 1}
    /\ UNCHANGED <<grouped, locks, refs, gate, line, stage, mine, todo>>

(* A plausible bug: the row is not looked for first. *)
LockUnread(c, i) ==
    /\ c \in Requests
    /\ Idle(c)
    /\ To(c, i, "found")
    /\ UNCHANGED <<rows, lastId, grouped, locks, refs, gate, line, mine, todo>>

(* lockExistingSubscription, RenderSubscription and SetSingBoxEnabled read *)
(* the row first: an identifier that was never allocated gets no lock.     *)
FindRow(c, i) ==
    /\ c \in Requests
    /\ Idle(c)
    /\ i \in rows
    /\ To(c, i, "found")
    /\ UNCHANGED <<rows, lastId, grouped, locks, refs, gate, line, mine, todo>>

(* retainSubscriptionLock *)
Retain(c, i, next) ==
    /\ \/ /\ locks[i] # None
          /\ refs' = [refs EXCEPT ![locks[i]] = @ + 1]
          /\ Takes(c, i, locks[i])
          /\ UNCHANGED <<locks, gate, line>>
       \/ /\ locks[i] = None
          /\ Spare
          /\ LET l == NewLock
             IN /\ locks' = [locks EXCEPT ![i] = l]
                /\ refs' = [refs EXCEPT ![l] = 1]
                /\ gate' = [gate EXCEPT ![l] = None]
                /\ line' = [line EXCEPT ![l] = <<>>]
                /\ Takes(c, i, l)
    /\ To(c, i, next)
    /\ UNCHANGED <<rows, lastId, grouped>>

RequestRetain(c, i) ==
    /\ stage[c][i] = "found"
    /\ Retain(c, i, "retained")
    /\ UNCHANGED todo

(* An empty gate is taken, whether one would wait for it or only tries. *)
Enter(c, i) ==
    /\ stage[c][i] \in {"retained", "trying"}
    /\ gate[mine[c][i]] = None
    /\ gate' = [gate EXCEPT ![mine[c][i]] = c]
    /\ To(c, i, "holding")
    /\ UNCHANGED <<rows, lastId, grouped, locks, refs, line, mine, todo>>

(* lockSubscription: the gate is full, the send blocks. *)
Wait(c, i) ==
    /\ stage[c][i] = "retained"
    /\ gate[mine[c][i]] # None
    /\ line' = [line EXCEPT ![mine[c][i]] = Append(@, c)]
    /\ To(c, i, "waiting")
    /\ UNCHANGED <<rows, lastId, grouped, locks, refs, gate, mine, todo>>

(* lockSubscription: the context ends before the gate is free. *)
WaitCancelled(c, i) ==
    /\ stage[c][i] = "waiting"
    /\ \E k \in DOMAIN line[mine[c][i]] :
          /\ line[mine[c][i]][k] = c
          /\ line' = [line EXCEPT ![mine[c][i]] = RemoveAt(@, k)]
    /\ To(c, i, "gaveup")
    /\ UNCHANGED <<rows, lastId, grouped, locks, refs, gate, mine, todo>>

(* tryLockSubscription: the gate is full. *)
TryFails(c, i) ==
    /\ stage[c][i] = "trying"
    /\ gate[mine[c][i]] # None
    /\ To(c, i, "gaveup")
    /\ UNCHANGED <<rows, lastId, grouped, locks, refs, gate, line, mine, todo>>

(* A plausible bug: the first to leave removes the entry. *)
ForgetEarly(i, l) ==
    /\ refs' = [refs EXCEPT ![l] = @ - 1]
    /\ locks' = [locks EXCEPT ![i] = None]

(* A plausible bug: no entry is ever removed. *)
ForgetNever(i, l) ==
    /\ refs' = [refs EXCEPT ![l] = @ - 1]
    /\ UNCHANGED locks

(* dropSubscriptionLock *)
Forget(i, l) ==
    /\ refs' = [refs EXCEPT ![l] = @ - 1]
    /\ locks' = IF refs[l] = 1 THEN [locks EXCEPT ![i] = None] ELSE locks

Drop(c, i) ==
    /\ stage[c][i] \in {"emptied", "gaveup"}
    /\ Forget(i, mine[c][i])
    /\ Takes(c, i, None)
    /\ To(c, i, "idle")
    /\ UNCHANGED <<rows, lastId, grouped, gate, line, todo>>

(* A plausible bug: the gate is emptied and nobody in line is woken. *)
PassToNobody(l) ==
    /\ gate' = [gate EXCEPT ![l] = None]
    /\ UNCHANGED line

(* The receive of releaseSubscriptionLock: the first in line gets the gate. *)
PassGate(l) ==
    IF line[l] = <<>>
    THEN /\ gate' = [gate EXCEPT ![l] = None]
         /\ UNCHANGED line
    ELSE /\ gate' = [gate EXCEPT ![l] = Head(line[l])]
         /\ line' = [line EXCEPT ![l] = Tail(@)]

Empty(c, i) ==
    LET l == mine[c][i]
    IN /\ PassGate(l)
       /\ stage' = [d \in Callers |->
                       IF d = c THEN [stage[c] EXCEPT ![i] = "emptied"]
                       ELSE IF d = gate'[l] THEN [stage[d] EXCEPT ![i] = "holding"]
                       ELSE stage[d]]
       /\ UNCHANGED <<rows, lastId, grouped, locks, refs, mine>>

RequestRelease(c, i) ==
    /\ c \in Requests
    /\ stage[c][i] = "holding"
    /\ Empty(c, i)
    /\ UNCHANGED todo

(* DeleteSubscription: the holder removes the row it had locked. *)
RemoveRow(c, i) ==
    /\ c \in Requests
    /\ stage[c][i] = "holding"
    /\ i \in rows
    /\ rows' = rows \ {i}
    /\ UNCHANGED <<lastId, grouped, locks, refs, gate, line, stage, mine, todo>>

-----------------------------------------------------------------------------
(* reconcileSubscriptions: list the groups that are no collections, try    *)
(* each, keep those that must stop until the end of the round (the         *)
(* deferred releases).                                                     *)
SweepList ==
    /\ Idle(Sweeper)
    /\ todo = {}
    /\ todo' = rows \intersect grouped
    /\ UNCHANGED <<rows, lastId, grouped, locks, refs, gate, line, stage, mine>>

Listing == \A i \in Ids : stage[Sweeper][i] \in {"idle", "holding"}

SweepTry(i) ==
    /\ Listing
    /\ i \in todo
    /\ \A j \in todo : i <= j
    /\ Retain(Sweeper, i, "trying")
    /\ todo' = todo \ {i}

(* The group is gone or still allowed: its lock goes back at once. *)
SweepSkips(i) ==
    /\ stage[Sweeper][i] = "holding"
    /\ \A j \in Ids : stage[Sweeper][j] = "holding" => j <= i
    /\ \A j \in todo : i < j
    /\ Empty(Sweeper, i)
    /\ UNCHANGED todo

(* The round ends: the deferred releases run, last deferred first. *)
SweepReleases(i) ==
    /\ todo = {}
    /\ Listing
    /\ stage[Sweeper][i] = "holding"
    /\ \A j \in Ids : stage[Sweeper][j] = "holding" => j <= i
    /\ Empty(Sweeper, i)
    /\ UNCHANGED todo

-----------------------------------------------------------------------------
Finish(c, i) == Enter(c, i) \/ TryFails(c, i) \/ Drop(c, i)

Next ==
    \/ CreateCollection
    \/ \E c \in Requests, i \in Ids :
        \/ FindRow(c, i)
        \/ RequestRetain(c, i)
        \/ Wait(c, i)
        \/ WaitCancelled(c, i)
        \/ RequestRelease(c, i)
        \/ RemoveRow(c, i)
    \/ \E c \in Callers, i \in Ids : Finish(c, i)
    \/ SweepList
    \/ \E i \in Ids : SweepTry(i) \/ SweepSkips(i) \/ SweepReleases(i)

(* Every mutation runs under a deadline (subscriptionMutationTimeout, 10 s *)
(* for a read), so a holder releases; a started call finishes its steps.   *)
RequestWorks(c) ==
    \E i \in Ids :
        \/ RequestRetain(c, i) \/ Wait(c, i)
        \/ RequestRelease(c, i) \/ Finish(c, i)

SweeperWorks == \E i \in Ids : SweepTry(i) \/ SweepReleases(i) \/ Finish(Sweeper, i)

Fairness ==
    /\ \A c \in Requests : WF_vars(RequestWorks(c))
    /\ WF_vars(SweeperWorks)

Spec == Init /\ [][Next]_vars /\ Fairness

-----------------------------------------------------------------------------
(* A lock object counts exactly those who use it, and the map keeps an     *)
(* entry as long as somebody does and no longer: what no reader of the map *)
(* can find nobody waits for, and an idle subscription costs no memory     *)
(* (retainSubscriptionLock, dropSubscriptionLock).                         *)
EntriesAreUsed ==
    \A c \in Callers, i \in Ids :
        /\ stage[c][i] \in Counted => locks[i] = mine[c][i]
        /\ locks[i] # None => \E d \in Callers : stage[d][i] \in Counted

(* No two callers are inside the mutation of one subscription, whatever    *)
(* creates, waits, gives up and forgets around them (lockSubscription,     *)
(* tryLockSubscription).                                                   *)
OneHolder ==
    \A i \in Ids : \A c, d \in Callers :
        stage[c][i] = "holding" /\ stage[d][i] = "holding" => c = d

(* A request that waits gets the lock or gives up, although the sweeper    *)
(* holds several locks at once and others come and go: no cycle of waits.  *)
Waits(c) == \E i \in Ids : stage[c][i] = "waiting"

WaitersAreServed == \A c \in Requests : Waits(c) ~> ~Waits(c)

(* The owner of a subscription as the abstract lock sees it: who holds its *)
(* gate.                                                                   *)
OwnerOf(i) ==
    IF \E c \in Callers : stage[c][i] = "holding"
    THEN CHOOSE c \in Callers : stage[c][i] = "holding"
    ELSE None

Mutex == INSTANCE KeyedMutex
            WITH born <- lastId, Nobody <- None,
                 owner <- [i \in Ids |-> OwnerOf(i)]

(* The gates, counts and forgotten entries implement the plain mutex: only *)
(* what was created is ever owned, it changes hands one at a time, and     *)
(* only its owner removes it (lockExistingSubscription,                    *)
(* releaseSubscriptionLock, DeleteSubscription).                           *)
ImplementsMutex == Mutex!Spec
=============================================================================
