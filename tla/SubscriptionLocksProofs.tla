----------------------- MODULE SubscriptionLocksProofs -----------------------
(***************************************************************************)
(* That the keyed locks are locks, for any number of requests, of lock     *)
(* objects and of subscriptions: one holder each, entries that live as     *)
(* long as they are used, and the plain mutex implemented.                 *)
(***************************************************************************)
EXTENDS SubscriptionLocks, FiniteSetTheorems, SequenceTheorems, TLAPS

(* What was never allocated nobody works with, and it has no lock.          *)
Allocated ==
    /\ \A i \in rows \union todo : i <= lastId
    /\ \A c \in Callers, i \in Ids : stage[c][i] # "idle" => i <= lastId
    /\ \A i \in Ids : i > lastId => locks[i] = None

(* A caller has a lock object exactly while it is counted, the one that is  *)
(* registered, and no two subscriptions share one.                          *)
Registered ==
    /\ \A c \in Callers, i \in Ids :
        /\ stage[c][i] \in Counted <=> mine[c][i] # None
        /\ mine[c][i] # None => locks[i] = mine[c][i]
    /\ \A i, j \in Ids : locks[i] # None /\ locks[i] = locks[j] => i = j

(* Every registered lock has a user, and the references count the users.    *)
Used == \A i \in Ids : locks[i] # None => \E d \in Callers : mine[d][i] # None

Counts == \A l \in Locks : IsFiniteSet(Users(l)) /\ refs[l] = Cardinality(Users(l))

(* The gate of a lock that is held has its holder's value, and whoever is   *)
(* in line waits for it, once.                                              *)
Held == \A c \in Callers, i \in Ids : stage[c][i] = "holding" => gate[mine[c][i]] = c

InLine ==
    \A l \in Locks : \A k \in 1..Len(line[l]) :
        /\ \E i \in Ids : stage[line[l][k]][i] = "waiting" /\ mine[line[l][k]][i] = l
        /\ \A m \in 1..Len(line[l]) : line[l][m] = line[l][k] => m = k

(* The sweeper has not yet touched what it has still to look at.            *)
Untouched == \A i \in todo : stage[Sweeper][i] = "idle"

(* The inductive invariant. *)
IInv == TypeOK /\ Allocated /\ Registered /\ Used /\ Counts
            /\ Held /\ InLine /\ Untouched

-----------------------------------------------------------------------------
(* What the operators of the steps do *)

(* Leaving a line keeps the order of the others. *)
LEMMA RemoveAtFacts ==
    ASSUME NEW S, NEW s \in Seq(S), NEW k \in 1..Len(s)
    PROVE  /\ RemoveAt(s, k) \in Seq(S)
           /\ Len(RemoveAt(s, k)) = Len(s) - 1
           /\ \A j \in 1..(Len(s) - 1) :
                RemoveAt(s, k)[j] = IF j < k THEN s[j] ELSE s[j + 1]
<1> DEFINE before == SubSeq(s, 1, k - 1)
           after == SubSeq(s, k + 1, Len(s))
<1>1. Len(s) \in Nat /\ \A j \in 1..Len(s) : s[j] \in S
  BY LenProperties, ElementOfSeq
<1>2. /\ before \in Seq(S)
      /\ Len(before) = k - 1
      /\ \A j \in 1..(k - 1) : before[j] = s[j]
  <2>1. \A j \in 1..(k - 1) : s[j] \in S
    BY <1>1
  <2>2. 1 \in Int /\ k - 1 \in Int
    BY <1>1
  <2> HIDE DEF before
  <2>3. /\ SubSeq(s, 1, k - 1) \in Seq(S)
        /\ Len(SubSeq(s, 1, k - 1)) = IF 1 <= k - 1 THEN k - 1 - 1 + 1 ELSE 0
        /\ \A j \in 1..(k - 1 - 1 + 1) : SubSeq(s, 1, k - 1)[j] = s[1 + j - 1]
    BY <2>1, <2>2, SubSeqProperties
  <2> QED BY <2>3, <1>1 DEF before
<1>3. /\ after \in Seq(S)
      /\ Len(after) = Len(s) - k
      /\ \A j \in 1..(Len(s) - k) : after[j] = s[k + j]
  <2>1. \A j \in (k + 1)..Len(s) : s[j] \in S
    BY <1>1
  <2>2. k + 1 \in Int /\ Len(s) \in Int
    BY <1>1
  <2> HIDE DEF after
  <2>3. /\ SubSeq(s, k + 1, Len(s)) \in Seq(S)
        /\ Len(SubSeq(s, k + 1, Len(s)))
             = IF k + 1 <= Len(s) THEN Len(s) - (k + 1) + 1 ELSE 0
        /\ \A j \in 1..(Len(s) - (k + 1) + 1) :
             SubSeq(s, k + 1, Len(s))[j] = s[k + 1 + j - 1]
    BY <2>1, <2>2, SubSeqProperties
  <2> QED BY <2>3, <1>1 DEF after
<1> HIDE DEF before, after
<1>4. RemoveAt(s, k) = before \o after
  BY DEF RemoveAt, before, after
<1>5. /\ before \o after \in Seq(S)
      /\ Len(before \o after) = Len(before) + Len(after)
      /\ \A j \in 1..(Len(before) + Len(after)) : (before \o after)[j] =
             IF j <= Len(before) THEN before[j] ELSE after[j - Len(before)]
  BY <1>2, <1>3, ConcatProperties
<1> QED
  BY <1>1, <1>2, <1>3, <1>4, <1>5

(* A lock object that is handed out fresh is nobody's. *)
LEMMA NewLockFresh ==
    ASSUME Spare
    PROVE  NewLock \in Locks /\ Fresh(NewLock)
  BY DEF Spare, NewLock

(* Nobody uses a lock object without having it. *)
LEMMA FreshUnused ==
    ASSUME IInv, NEW l \in Locks, Fresh(l)
    PROVE  /\ \A c \in Callers, i \in Ids : mine[c][i] # l
           /\ \A i \in Ids : locks[i] # l
           /\ refs[l] = 0
<1>1. \A c \in Callers, i \in Ids : mine[c][i] # l
  <2> SUFFICES ASSUME NEW c \in Callers, NEW i \in Ids, mine[c][i] = l
               PROVE  FALSE
    OBVIOUS
  <2>1. stage[c][i] \in Counted
    BY LocksAssumption DEF IInv, Registered
  <2>2. <<c, i>> \in Users(l)
    BY <2>1 DEF Users
  <2> QED BY <2>2 DEF Fresh
<1>2. refs[l] = 0
  BY FS_EmptySet DEF IInv, Counts, Fresh
<1> QED
  BY <1>1, <1>2 DEF Fresh

-----------------------------------------------------------------------------
(* The references count the users *)

(* A caller that moves on one subscription moves on no other, and nobody    *)
(* else moves.                                                              *)
LEMMA StageMoves ==
    ASSUME TypeOK, NEW c \in Callers, NEW i \in Ids, NEW s, To(c, i, s)
    PROVE  \A d \in Callers, j \in Ids :
             stage'[d][j] = IF d = c /\ j = i THEN s ELSE stage[d][j]
  BY DEF To, TypeOK

LEMMA MineMoves ==
    ASSUME TypeOK, NEW c \in Callers, NEW i \in Ids, NEW l, Takes(c, i, l)
    PROVE  \A d \in Callers, j \in Ids :
             mine'[d][j] = IF d = c /\ j = i THEN l ELSE mine[d][j]
  BY DEF Takes, TypeOK

(* Nobody came and nobody went. *)
LEMMA SameUsers ==
    ASSUME mine' = mine,
           \A c \in Callers, i \in Ids : stage'[c][i] \in Counted <=> stage[c][i] \in Counted
    PROVE  \A l \in Locks : Users(l)' = Users(l)
  BY DEF Users

(* One more has its lock. *)
LEMMA OneMoreUser ==
    ASSUME IInv, NEW c \in Callers, NEW i \in Ids, NEW s \in Counted, NEW l \in Locks,
           mine[c][i] = None, To(c, i, s), Takes(c, i, l),
           refs' = [refs EXCEPT ![l] = Cardinality(Users(l)) + 1]
    PROVE  Counts'
<1>1. Users(l)' = Users(l) \union {<<c, i>>}
  BY LocksAssumption DEF IInv, TypeOK, Registered, Users, To, Takes
<1>2. \A k \in Locks \ {l} : Users(k)' = Users(k)
  BY LocksAssumption DEF IInv, TypeOK, Registered, Users, To, Takes
<1>3. <<c, i>> \notin Users(l)
  BY LocksAssumption DEF Users
<1>4. /\ IsFiniteSet(Users(l)')
      /\ Cardinality(Users(l)') = Cardinality(Users(l)) + 1
  BY <1>1, <1>3, FS_AddElement DEF IInv, Counts
<1> QED
  BY <1>2, <1>4 DEF IInv, TypeOK, Counts

(* One fewer. *)
LEMMA OneFewerUser ==
    ASSUME IInv, NEW c \in Callers, NEW i \in Ids, NEW l \in Locks,
           mine[c][i] = l, To(c, i, "idle"), Takes(c, i, None),
           refs' = [refs EXCEPT ![l] = @ - 1]
    PROVE  Counts' /\ refs[l] \in Nat \ {0}
                   /\ (refs[l] = 1 <=> Users(l) = {<<c, i>>})
<1>1. Users(l)' = Users(l) \ {<<c, i>>}
  BY LocksAssumption DEF IInv, TypeOK, Users, To, Takes, Counted
<1>2. \A k \in Locks \ {l} : Users(k)' = Users(k)
  BY LocksAssumption DEF IInv, TypeOK, Users, To, Takes, Counted
<1>3. <<c, i>> \in Users(l)
  BY LocksAssumption DEF IInv, Registered, Users
<1>4. /\ IsFiniteSet(Users(l)')
      /\ Cardinality(Users(l)') = Cardinality(Users(l)) - 1
  BY <1>1, <1>3, FS_RemoveElement DEF IInv, Counts
<1>5. Counts'
  BY <1>2, <1>4 DEF IInv, TypeOK, Counts
<1>6. /\ refs[l] \in Nat
      /\ IsFiniteSet(Users(l))
      /\ refs[l] = Cardinality(Users(l))
  BY DEF IInv, TypeOK, Counts
<1>7. refs[l] # 0
  BY <1>3, <1>6, FS_EmptySet
<1>8. refs[l] = 1 <=> Users(l) = {<<c, i>>}
  <2>1. Cardinality(Users(l)) = 1 <=> \E u : Users(l) = {u}
    BY <1>6, FS_Singleton
  <2>2. (\E u : Users(l) = {u}) <=> Users(l) = {<<c, i>>}
    BY <1>3
  <2> QED BY <1>6, <2>1, <2>2
<1> QED
  BY <1>5, <1>6, <1>7, <1>8

-----------------------------------------------------------------------------
(* Every step keeps the invariant *)

LEMMA InitInv == Init => IInv
<1> SUFFICES ASSUME Init PROVE IInv
  OBVIOUS
<1>1. TypeOK
  <2>1. rows \subseteq Ids /\ lastId \in 0..MaxIds /\ grouped \subseteq Ids /\ todo \subseteq Ids
    BY IdsAssumption DEF Init, Ids
  <2>2. <<>> \in Seq(Callers)
    BY EmptySeq
  <2>3. "idle" \in Stages
    BY DEF Stages
  <2> QED BY <2>1, <2>2, <2>3 DEF Init, TypeOK
<1>2. Counts
  <2>1. \A l \in Locks : Users(l) = {}
    BY DEF Init, Users, Counted
  <2> QED BY <2>1, FS_EmptySet DEF Init, Counts
<1>3. Allocated /\ Registered /\ Used /\ Held /\ InLine /\ Untouched
  BY DEF Init, Allocated, Registered, Used, Held, InLine, Untouched, Counted
<1> QED
  BY <1>1, <1>2, <1>3 DEF IInv

LEMMA CreateKeeps == ASSUME IInv, CreateCollection PROVE IInv'
<1> USE DEF IInv
<1>1. /\ lastId + 1 \in Ids /\ lastId' = lastId + 1 /\ lastId \in Nat
      /\ rows' = rows \union {lastId + 1}
      /\ UNCHANGED <<grouped, locks, refs, gate, line, stage, mine, todo>>
  BY IdsAssumption DEF CreateCollection, TypeOK, Ids
<1>2. TypeOK'
  BY <1>1, IdsAssumption DEF TypeOK, Ids
<1>3. Allocated'
  BY <1>1, IdsAssumption DEF TypeOK, Allocated, Ids
<1>4. Counts'
  <2>1. \A l \in Locks : Users(l)' = Users(l)
    BY <1>1 DEF Users
  <2> QED BY <2>1, <1>1 DEF Counts
<1>5. Registered' /\ Used' /\ Held' /\ InLine' /\ Untouched'
  BY <1>1 DEF Registered, Used, Held, InLine, Untouched
<1> QED
  BY <1>2, <1>3, <1>4, <1>5

LEMMA FindKeeps ==
    ASSUME IInv, NEW c \in Requests, NEW i \in Ids, FindRow(c, i) PROVE IInv'
<1> USE DEF IInv
<1>0. c \in Callers
  BY DEF Callers
<1>2. TypeOK'
  BY <1>0 DEF FindRow, TypeOK, To, Stages
<1>3. Allocated'
  BY <1>0 DEF FindRow, TypeOK, To, Allocated
<1>5. Counts'
  <2>1. \A l \in Locks : Users(l)' = Users(l)
    BY <1>0, SameUsers DEF FindRow, TypeOK, To, Idle, Counted
  <2> QED BY <2>1 DEF Counts, FindRow
<1>6. Registered'
  BY <1>0 DEF FindRow, TypeOK, To, Registered, Idle, Counted
<1>7. Used' /\ Held'
  BY <1>0 DEF FindRow, TypeOK, To, Used, Held, Idle
<1>8. InLine'
  BY <1>0 DEF FindRow, TypeOK, To, InLine, Idle
<1>9. Untouched'
  BY <1>0, CallersAssumption DEF FindRow, TypeOK, To, Untouched, Callers
<1> QED
  BY <1>2, <1>3, <1>5, <1>6, <1>7, <1>8, <1>9

LEMMA EnterKeeps ==
    ASSUME IInv, NEW c \in Callers, NEW i \in Ids, Enter(c, i) \/ TryFails(c, i) PROVE IInv'
<1> USE DEF IInv
<1>1. stage[c][i] \in {"retained", "trying"} /\ mine[c][i] \in Locks
  BY DEF Enter, TryFails, TypeOK, Registered, Counted
<1>2. UNCHANGED <<rows, lastId, grouped, locks, refs, line, mine, todo>>
  BY DEF Enter, TryFails
<1>3. PICK s \in {"holding", "gaveup"} :
        /\ stage' = [stage EXCEPT ![c][i] = s]
        /\ \/ /\ s = "holding"
              /\ gate[mine[c][i]] = None
              /\ gate' = [gate EXCEPT ![mine[c][i]] = c]
           \/ s = "gaveup" /\ gate' = gate
  BY DEF Enter, TryFails, To
<1> HIDE DEF IInv
<1>4. TypeOK /\ Allocated /\ Registered /\ Used /\ Counts /\ Held /\ InLine /\ Untouched
  BY DEF IInv
<1>5. TypeOK'
  BY <1>1, <1>2, <1>3, <1>4 DEF TypeOK, Stages
<1>6. Allocated'
  BY <1>1, <1>2, <1>3, <1>4 DEF TypeOK, Allocated
<1>7. Counts'
  <2>1. \A l \in Locks : Users(l)' = Users(l)
    BY <1>1, <1>2, <1>3, <1>4, SameUsers DEF TypeOK, Counted
  <2> QED BY <2>1, <1>2, <1>4 DEF Counts
<1>8. Registered' /\ Used'
  BY <1>1, <1>2, <1>3, <1>4 DEF TypeOK, Registered, Used, Counted
<1>9. Held'
  BY <1>1, <1>2, <1>3, <1>4, CallersAssumption DEF TypeOK, Held, Registered, Counted
<1>10. InLine'
  BY <1>1, <1>2, <1>3, <1>4 DEF TypeOK, InLine
<1>11. Untouched'
  BY <1>1, <1>2, <1>3, <1>4 DEF TypeOK, Untouched
<1> QED
  BY <1>5, <1>6, <1>7, <1>8, <1>9, <1>10, <1>11 DEF IInv

LEMMA WaitKeeps ==
    ASSUME IInv, NEW c \in Requests, NEW i \in Ids, Wait(c, i) PROVE IInv'
<1> USE DEF IInv
<1> DEFINE l == mine[c][i]
<1>0. c \in Callers
  BY DEF Callers
<1>1. stage[c][i] = "retained" /\ l \in Locks
  BY <1>0 DEF Wait, TypeOK, Registered, Counted
<1>2. line[l] \in Seq(Callers) /\ line'[l] = Append(line[l], c)
  BY <1>0, <1>1 DEF Wait, TypeOK
<1>3. TypeOK'
  BY <1>0, <1>1 DEF Wait, TypeOK, To, Stages
<1>4. Allocated' /\ Held'
  BY <1>0, <1>1 DEF Wait, TypeOK, To, Allocated, Held
<1>5. Counts'
  <2>1. \A k \in Locks : Users(k)' = Users(k)
    BY <1>0, <1>1, SameUsers DEF Wait, TypeOK, To, Counted
  <2> QED BY <2>1 DEF Counts, Wait
<1>6. Registered' /\ Used'
  BY <1>0, <1>1 DEF Wait, TypeOK, To, Registered, Used, Counted
<1>7. \A k \in 1..Len(line[l]) : line[l][k] # c
  <2> SUFFICES ASSUME NEW k \in 1..Len(line[l]), line[l][k] = c PROVE FALSE
    OBVIOUS
  <2>1. PICK j \in Ids : stage[c][j] = "waiting" /\ mine[c][j] = l
    BY <1>1 DEF InLine
  <2>2. locks[j] = l /\ locks[i] = l /\ l # None
    BY <2>1, <1>0, <1>1, LocksAssumption DEF Registered
  <2> QED BY <2>1, <2>2, <1>1 DEF Registered
<1>8. InLine'
  <2> SUFFICES ASSUME NEW k \in Locks, NEW n \in 1..Len(line'[k])
               PROVE  /\ \E j \in Ids : stage'[line'[k][n]][j] = "waiting" /\ mine'[line'[k][n]][j] = k
                      /\ \A m \in 1..Len(line'[k]) : line'[k][m] = line'[k][n] => m = n
    BY DEF InLine
  <2>1. CASE k # l
    BY <2>1, <1>0, <1>1 DEF Wait, TypeOK, To, InLine
  <2>2. CASE k = l
    <3>1. /\ Len(line'[l]) = Len(line[l]) + 1
          /\ \A m \in 1..Len(line[l]) : line'[l][m] = line[l][m]
          /\ line'[l][Len(line[l]) + 1] = c
          /\ Len(line[l]) \in Nat
      BY <1>2
    <3>2. CASE n = Len(line[l]) + 1
      <4>1. line'[l][n] = c /\ stage'[c][i] = "waiting" /\ mine'[c][i] = l
        BY <3>1, <3>2, <1>0, <1>1 DEF Wait, TypeOK, To
      <4>2. ASSUME NEW m \in 1..Len(line'[l]), line'[l][m] = c PROVE m = n
        <5>1. m \notin 1..Len(line[l])
          BY <4>2, <3>1, <1>7
        <5> QED BY <5>1, <3>1, <3>2
      <4> QED BY <4>1, <4>2, <2>2
    <3>3. CASE n # Len(line[l]) + 1
      <4>1. n \in 1..Len(line[l]) /\ line'[l][n] = line[l][n]
        BY <2>2, <3>1, <3>3
      <4>2. \E j \in Ids : stage[line[l][n]][j] = "waiting" /\ mine[line[l][n]][j] = l
        BY <4>1, <1>1 DEF InLine
      <4>3. \E j \in Ids : stage'[line[l][n]][j] = "waiting" /\ mine'[line[l][n]][j] = l
        <5>1. line[l] \in Seq(Callers) /\ line[l][n] \in Callers
          BY <4>1, <1>1, ElementOfSeq DEF TypeOK
        <5>2. PICK j \in Ids : stage[line[l][n]][j] = "waiting" /\ mine[line[l][n]][j] = l
          BY <4>2
        <5>3. mine' = mine /\ To(c, i, "waiting")
          BY DEF Wait
        <5>4. \A d \in Callers, k1 \in Ids :
                stage'[d][k1] = IF d = c /\ k1 = i THEN "waiting" ELSE stage[d][k1]
          BY <1>0, <5>3, StageMoves DEF IInv
        <5>5. stage'[line[l][n]][j] = "waiting"
          BY <5>1, <5>2, <5>4
        <5>6. mine'[line[l][n]][j] = l
          BY <5>2, <5>3
        <5> QED BY <5>5, <5>6
      <4>4. \A m \in 1..Len(line'[l]) : line'[l][m] = line[l][n] => m = n
        <5> SUFFICES ASSUME NEW m \in 1..Len(line'[l]), line'[l][m] = line[l][n] PROVE m = n
          OBVIOUS
        <5>1. m # Len(line[l]) + 1
          BY <4>1, <3>1, <1>7
        <5>2. m \in 1..Len(line[l]) /\ line[l][m] = line[l][n]
          BY <5>1, <3>1
        <5> QED BY <4>1, <5>2, <1>1 DEF InLine
      <4> QED BY <4>1, <4>3, <4>4, <2>2
    <3> QED BY <3>2, <3>3
  <2> QED BY <2>1, <2>2
<1>9. Untouched'
  BY <1>0, CallersAssumption DEF Wait, TypeOK, To, Untouched, Callers
<1> QED
  BY <1>3, <1>4, <1>5, <1>6, <1>8, <1>9

LEMMA CancelKeeps ==
    ASSUME IInv, NEW c \in Requests, NEW i \in Ids, WaitCancelled(c, i) PROVE IInv'
<1> USE DEF IInv
<1> DEFINE l == mine[c][i]
<1>0. c \in Callers
  BY DEF Callers
<1>1. stage[c][i] = "waiting" /\ l \in Locks
  BY <1>0 DEF WaitCancelled, TypeOK, Registered, Counted
<1>2. PICK p \in 1..Len(line[l]) :
        line[l][p] = c /\ line' = [line EXCEPT ![l] = RemoveAt(line[l], p)]
  BY <1>0, <1>1, LenProperties DEF WaitCancelled, TypeOK
<1>3. /\ line'[l] \in Seq(Callers) /\ line[l] \in Seq(Callers)
      /\ Len(line[l]) \in Nat
      /\ Len(line'[l]) = Len(line[l]) - 1
      /\ \A n \in 1..(Len(line[l]) - 1) :
           line'[l][n] = IF n < p THEN line[l][n] ELSE line[l][n + 1]
  <2>1. line[l] \in Seq(Callers)
    BY <1>1 DEF TypeOK
  <2>2. line'[l] = RemoveAt(line[l], p)
    BY <1>1, <1>2 DEF TypeOK
  <2> HIDE DEF l
  <2> QED BY <2>1, <2>2, RemoveAtFacts, LenProperties
<1>4. TypeOK'
  BY <1>0, <1>1, <1>2, <1>3 DEF WaitCancelled, TypeOK, To, Stages
<1>5. Allocated' /\ Held'
  BY <1>0, <1>1 DEF WaitCancelled, TypeOK, To, Allocated, Held
<1>6. Counts'
  <2>1. \A k \in Locks : Users(k)' = Users(k)
    BY <1>0, <1>1, SameUsers DEF WaitCancelled, TypeOK, To, Counted
  <2> QED BY <2>1 DEF Counts, WaitCancelled
<1>7. Registered' /\ Used'
  BY <1>0, <1>1 DEF WaitCancelled, TypeOK, To, Registered, Used, Counted
<1>8. InLine'
  <2> SUFFICES ASSUME NEW k \in Locks, NEW n \in 1..Len(line'[k])
               PROVE  /\ \E j \in Ids : stage'[line'[k][n]][j] = "waiting" /\ mine'[line'[k][n]][j] = k
                      /\ \A m \in 1..Len(line'[k]) : line'[k][m] = line'[k][n] => m = n
    BY DEF InLine
  <2>1. CASE k # l
    <3>1. line'[k] = line[k]
      BY <2>1, <1>1, <1>2 DEF TypeOK
    <3>2. PICK j \in Ids : stage[line[k][n]][j] = "waiting" /\ mine[line[k][n]][j] = k
      BY <3>1 DEF InLine
    <3>3. stage'[line[k][n]][j] = "waiting" /\ mine'[line[k][n]][j] = k
      BY <2>1, <3>2, <1>0, <1>1 DEF WaitCancelled, TypeOK, To
    <3> QED BY <3>1, <3>3 DEF InLine
  <2>2. CASE k = l
    <3>1. PICK q \in 1..Len(line[l]) : line'[l][n] = line[l][q] /\ q # p
      BY <2>2, <1>3
    <3>2. line[l][q] # c
      BY <3>1, <1>1, <1>2 DEF InLine
    <3>3. PICK j \in Ids : stage[line[l][q]][j] = "waiting" /\ mine[line[l][q]][j] = l
      BY <3>1, <1>1 DEF InLine
    <3>4. stage'[line[l][q]][j] = "waiting" /\ mine'[line[l][q]][j] = l
      BY <3>2, <3>3, <1>0, <1>1 DEF WaitCancelled, TypeOK, To
    <3>5. ASSUME NEW m \in 1..Len(line'[l]), line'[l][m] = line'[l][n] PROVE m = n
      <4> DEFINE at(x) == IF x < p THEN x ELSE x + 1
      <4>1. at(m) \in 1..Len(line[l]) /\ at(n) \in 1..Len(line[l])
        BY <2>2, <3>5, <1>3
      <4>2. line'[l][m] = line[l][at(m)] /\ line'[l][n] = line[l][at(n)]
        BY <2>2, <3>5, <1>3
      <4>3. at(m) = at(n)
        <5>1. \A x, y \in 1..Len(line[l]) : line[l][x] = line[l][y] => x = y
          BY <1>1 DEF InLine
        <5> HIDE DEF at, l
        <5> QED BY <3>5, <4>1, <4>2, <5>1
      <4> QED BY <2>2, <4>3, <1>3
    <3> QED BY <2>2, <3>1, <3>4, <3>5
  <2> QED BY <2>1, <2>2
<1>9. Untouched'
  BY <1>0, CallersAssumption DEF WaitCancelled, TypeOK, To, Untouched, Callers
<1> QED
  BY <1>4, <1>5, <1>6, <1>7, <1>8, <1>9

LEMMA DropKeeps ==
    ASSUME IInv, NEW c \in Callers, NEW i \in Ids, Drop(c, i) PROVE IInv'
<1> DEFINE l == mine[c][i]
<1>1. /\ TypeOK /\ Allocated /\ Registered /\ Used /\ Held /\ InLine /\ Untouched
      /\ None \notin Locks
  BY LocksAssumption DEF IInv
<1>2. stage[c][i] \in {"emptied", "gaveup"} /\ l \in Locks /\ locks[i] = l
  BY <1>1 DEF Drop, TypeOK, Registered, Counted
<1>3. /\ Counts'
      /\ refs[l] \in Nat \ {0}
      /\ refs[l] = 1 <=> Users(l) = {<<c, i>>}
  BY <1>2, OneFewerUser DEF Drop, Forget
<1>4. refs[l] = 1 => \A d \in Callers, j \in Ids : mine[d][j] = l => d = c /\ j = i
  <2> SUFFICES ASSUME refs[l] = 1, NEW d \in Callers, NEW j \in Ids, mine[d][j] = l
               PROVE  d = c /\ j = i
    OBVIOUS
  <2>1. <<d, j>> \in Users(l)
    BY <1>1, <1>2 DEF Users, Registered
  <2> QED BY <2>1, <1>3
<1>5. refs[l] # 1 => \E d \in Callers : d # c /\ mine[d][i] = l
  <2> SUFFICES ASSUME refs[l] # 1 PROVE \E d \in Callers : d # c /\ mine[d][i] = l
    OBVIOUS
  <2>1. <<c, i>> \in Users(l)
    BY <1>1, <1>2 DEF Users, Registered, Counted
  <2>2. PICK u \in Users(l) : u # <<c, i>>
    BY <1>3, <2>1
  <2>3. u[1] \in Callers /\ u[2] \in Ids /\ mine[u[1]][u[2]] = l /\ u = <<u[1], u[2]>>
    BY DEF Users
  <2>4. u[2] = i
    BY <2>3, <1>1, <1>2 DEF Registered
  <2> QED BY <2>2, <2>3, <2>4
<1>6. TypeOK'
  BY <1>1, <1>2, <1>3 DEF Drop, Forget, TypeOK, To, Takes, Stages
<1>7. Allocated'
  BY <1>1, <1>2 DEF Drop, Forget, TypeOK, To, Takes, Allocated
<1>8. Registered'
  BY <1>1, <1>2, <1>4 DEF Drop, Forget, TypeOK, To, Takes, Registered, Counted
<1>9. Used'
  BY <1>1, <1>2, <1>4, <1>5 DEF Drop, Forget, TypeOK, To, Takes, Used
<1>10. Held'
  BY <1>1, <1>2 DEF Drop, TypeOK, To, Takes, Held
<1>11. InLine'
  <2> SUFFICES ASSUME NEW k \in Locks, NEW n \in 1..Len(line[k])
               PROVE  \E j \in Ids : stage'[line[k][n]][j] = "waiting" /\ mine'[line[k][n]][j] = k
    BY <1>1 DEF Drop, InLine
  <2>1. PICK j \in Ids : stage[line[k][n]][j] = "waiting" /\ mine[line[k][n]][j] = k
    BY <1>1 DEF InLine
  <2>2. line[k][n] \in Callers
    BY <1>1, ElementOfSeq DEF TypeOK
  <2>3. stage'[line[k][n]][j] = "waiting" /\ mine'[line[k][n]][j] = k
    BY <2>1, <2>2, <1>1, <1>2 DEF Drop, TypeOK, To, Takes
  <2> QED BY <2>3
<1>12. Untouched'
  BY <1>1, <1>2 DEF Drop, TypeOK, To, Untouched
<1> QED
  BY <1>3, <1>6, <1>7, <1>8, <1>9, <1>10, <1>11, <1>12 DEF IInv

(* Both ways to a lock object: the registered one, or a fresh one.          *)
LEMMA RetainKeeps ==
    ASSUME IInv, NEW c \in Callers, NEW i \in Ids, NEW s \in {"retained", "trying"},
           Retain(c, i, s), stage[c][i] \in {"idle", "found"}, i <= lastId,
           todo' \subseteq todo, c = Sweeper => i \notin todo'
    PROVE  IInv'
<1>1. /\ TypeOK /\ Allocated /\ Registered /\ Used /\ Held /\ InLine /\ Untouched
      /\ None \notin Locks /\ None \notin Callers
  BY LocksAssumption, CallersAssumption DEF IInv
<1>2. mine[c][i] = None
  BY <1>1 DEF Registered, Counted
<1>3. PICK l \in Locks :
        /\ mine' = [mine EXCEPT ![c][i] = l]
        /\ \/ /\ locks[i] = l
              /\ refs' = [refs EXCEPT ![l] = @ + 1]
              /\ UNCHANGED <<locks, gate, line>>
           \/ /\ locks[i] = None
              /\ Fresh(l)
              /\ locks' = [locks EXCEPT ![i] = l]
              /\ refs' = [refs EXCEPT ![l] = 1]
              /\ gate' = [gate EXCEPT ![l] = None]
              /\ line' = [line EXCEPT ![l] = <<>>]
  <2>1. CASE locks[i] # None
    BY <2>1, <1>1 DEF Retain, Takes, TypeOK
  <2>2. CASE locks[i] = None
    BY <2>2, NewLockFresh DEF Retain, Takes
  <2> QED BY <2>1, <2>2
<1>4. /\ stage' = [stage EXCEPT ![c][i] = s]
      /\ UNCHANGED <<rows, lastId, grouped>>
  BY DEF Retain, To
<1>5. Fresh(l) => /\ \A d \in Callers, j \in Ids : mine[d][j] # l
                  /\ \A j \in Ids : locks[j] # l
                  /\ refs[l] = 0
  BY FreshUnused
<1>6. Counts'
  <2>1. refs' = [refs EXCEPT ![l] = Cardinality(Users(l)) + 1]
    <3>1. refs[l] = Cardinality(Users(l)) /\ refs[l] \in Nat
      BY <1>1 DEF IInv, Counts, TypeOK
    <3>2. refs' = [refs EXCEPT ![l] = refs[l] + 1]
      BY <1>3, <1>5, <3>1
    <3> QED BY <3>1, <3>2
  <2> QED BY <2>1, <1>2, <1>3, <1>4, OneMoreUser DEF To, Takes, Counted
\* Who had a lock object keeps it and its stage; its gate and line stay.
<1>7. /\ locks' \in [Ids -> Locks \union {None}]
      /\ locks'[i] = l
      /\ \A j \in Ids \ {i} : locks'[j] = locks[j]
      /\ \A d \in Callers, j \in Ids : mine[d][j] # None => locks'[j] = locks[j]
  <2>1. \A d \in Callers : mine[d][i] # None => locks[i] # None
    BY <1>1 DEF Registered, TypeOK
  <2>2. CASE locks[i] = l /\ UNCHANGED locks
    BY <2>2, <1>1 DEF TypeOK
  <2>3. CASE locks[i] = None /\ locks' = [locks EXCEPT ![i] = l]
    BY <2>1, <2>3, <1>1 DEF TypeOK
  <2> QED BY <1>3, <2>2, <2>3
<1>8. \A d \in Callers, j \in Ids :
        /\ stage'[d][j] = IF d = c /\ j = i THEN s ELSE stage[d][j]
        /\ mine'[d][j] = IF d = c /\ j = i THEN l ELSE mine[d][j]
  <2>1. To(c, i, s) /\ Takes(c, i, l)
    BY <1>3, <1>4 DEF To, Takes
  <2> QED BY <1>1, <2>1, StageMoves, MineMoves
<1>9. \A k \in Locks :
        \/ gate'[k] = gate[k] /\ line'[k] = line[k]
        \/ k = l /\ Fresh(l) /\ gate'[k] = None /\ line'[k] = <<>>
  BY <1>1, <1>3 DEF TypeOK
<1>10. TypeOK'
  <2>1. /\ stage' \in [Callers -> [Ids -> Stages]]
        /\ mine' \in [Callers -> [Ids -> Locks \union {None}]]
    BY <1>1, <1>3, <1>4 DEF TypeOK, Stages
  <2>2. refs' \in [Locks -> Nat] /\ gate' \in [Locks -> Callers \union {None}]
    <3>1. refs \in [Locks -> Nat] /\ gate \in [Locks -> Callers \union {None}]
      BY <1>1 DEF TypeOK
    <3>2. gate' \in [Locks -> Callers \union {None}]
      BY <1>3, <3>1
    <3>3. refs' \in [Locks -> Nat]
      <4>1. refs' = [refs EXCEPT ![l] = refs[l] + 1] \/ refs' = [refs EXCEPT ![l] = 1]
        BY <1>3
      <4> QED BY <3>1, <4>1
    <3> QED BY <3>2, <3>3
  <2>3. line' \in [Locks -> Seq(Callers)]
    <3>1. <<>> \in Seq(Callers)
      BY EmptySeq
    <3> QED BY <3>1, <1>1, <1>3 DEF TypeOK
  <2>4. rows' \subseteq Ids /\ lastId' \in 0..MaxIds /\ grouped' \subseteq Ids /\ todo' \subseteq Ids
    BY <1>1, <1>4 DEF TypeOK
  <2> QED BY <2>1, <2>2, <2>3, <2>4, <1>7 DEF TypeOK
<1>11. Allocated'
  <2>1. \A j \in rows' \union todo' : j <= lastId'
    BY <1>1, <1>4 DEF Allocated
  <2>2. \A d \in Callers, j \in Ids : stage'[d][j] # "idle" => j <= lastId'
    BY <1>1, <1>4, <1>8 DEF Allocated
  <2>3. \A j \in Ids : j > lastId' => locks'[j] = None
    BY <1>1, <1>4, <1>7, IdsAssumption DEF TypeOK, Allocated, Ids
  <2> QED BY <2>1, <2>2, <2>3 DEF Allocated
<1>13. Registered'
  <2>1. \A j, k \in Ids : locks'[j] # None /\ locks'[j] = locks'[k] => j = k
    BY <1>1, <1>3, <1>5, <1>7 DEF Registered
  <2>2. \A d \in Callers, j \in Ids :
          /\ stage'[d][j] \in Counted <=> mine'[d][j] # None
          /\ mine'[d][j] # None => locks'[j] = mine'[d][j]
    <3> SUFFICES ASSUME NEW d \in Callers, NEW j \in Ids
                 PROVE  /\ stage'[d][j] \in Counted <=> mine'[d][j] # None
                        /\ mine'[d][j] # None => locks'[j] = mine'[d][j]
      OBVIOUS
    <3>1. CASE d = c /\ j = i
      BY <3>1, <1>1, <1>7, <1>8 DEF Counted
    <3>2. CASE ~(d = c /\ j = i)
      BY <3>2, <1>1, <1>7, <1>8 DEF Registered
    <3> QED BY <3>1, <3>2
  <2> QED BY <2>1, <2>2 DEF Registered
<1>14. Used'
  BY <1>1, <1>7, <1>8 DEF Used
<1>15. Held'
  <2> SUFFICES ASSUME NEW d \in Callers, NEW j \in Ids, stage'[d][j] = "holding"
               PROVE  gate'[mine'[d][j]] = d
    BY DEF Held
  <2>1. stage[d][j] = "holding" /\ mine'[d][j] = mine[d][j]
    BY <1>8
  <2>2. mine[d][j] \in Locks /\ gate[mine[d][j]] = d
    BY <2>1, <1>1 DEF Held, Registered, Counted, TypeOK
  <2>3. Fresh(l) => mine[d][j] # l
    BY <1>5
  <2> QED BY <2>1, <2>2, <2>3, <1>9
<1>16. InLine'
  <2> SUFFICES ASSUME NEW k \in Locks, NEW n \in 1..Len(line'[k])
               PROVE  /\ \E j \in Ids : stage'[line'[k][n]][j] = "waiting" /\ mine'[line'[k][n]][j] = k
                      /\ \A m \in 1..Len(line'[k]) : line'[k][m] = line'[k][n] => m = n
    BY DEF InLine
  <2>1. CASE line'[k] = <<>>
    BY <2>1
  <2>2. CASE line'[k] = line[k]
    <3>1. PICK j \in Ids : stage[line[k][n]][j] = "waiting" /\ mine[line[k][n]][j] = k
      BY <2>2, <1>1 DEF InLine
    <3>2. line[k][n] \in Callers
      BY <2>2, <1>1, ElementOfSeq DEF TypeOK
    <3>3. stage'[line[k][n]][j] = "waiting" /\ mine'[line[k][n]][j] = k
      BY <3>1, <3>2, <1>2, <1>8, <1>1
    <3> QED BY <2>2, <3>3, <1>1 DEF InLine
  <2> QED BY <2>1, <2>2, <1>9
<1>17. Untouched'
  BY <1>1, <1>8, CallersAssumption DEF TypeOK, Untouched, Callers
<1> QED
  BY <1>6, <1>10, <1>11, <1>13, <1>14, <1>15, <1>16, <1>17 DEF IInv

(* Whoever is first in line for the subscription c holds waits for it, and  *)
(* is somebody else.                                                        *)
LEMMA FirstInLine ==
    ASSUME IInv, NEW c \in Callers, NEW i \in Ids, stage[c][i] = "holding",
           NEW l \in Locks, l = mine[c][i], line[l] # <<>>
    PROVE  /\ Head(line[l]) \in Callers \ {c}
           /\ stage[Head(line[l])][i] = "waiting"
           /\ mine[Head(line[l])][i] = l
           /\ Tail(line[l]) \in Seq(Callers)
           /\ Len(Tail(line[l])) = Len(line[l]) - 1
           /\ \A n \in 1..(Len(line[l]) - 1) : Tail(line[l])[n] = line[l][n + 1]
           /\ Len(line[l]) \in Nat \ {0}
           /\ line[l][1] = Head(line[l])
<1>1. TypeOK /\ Registered /\ InLine /\ None \notin Locks
  BY LocksAssumption DEF IInv
<1>2. locks[i] = l /\ line[l] \in Seq(Callers)
  BY <1>1 DEF TypeOK, Registered, Counted
<1>3. Len(line[l]) \in Nat \ {0} /\ Head(line[l]) = line[l][1]
  BY <1>2, EmptySeq
<1>4. /\ Head(line[l]) \in Callers
      /\ Tail(line[l]) \in Seq(Callers)
      /\ Len(Tail(line[l])) = Len(line[l]) - 1
      /\ \A n \in 1..(Len(line[l]) - 1) : Tail(line[l])[n] = line[l][n + 1]
  BY <1>2, HeadTailProperties
<1>5. PICK j \in Ids : stage[line[l][1]][j] = "waiting" /\ mine[line[l][1]][j] = l
  BY <1>1, <1>3 DEF InLine
<1>6. j = i
  BY <1>1, <1>2, <1>3, <1>4, <1>5 DEF Registered
<1>7. line[l][1] # c
  BY <1>5, <1>6
<1> QED
  BY <1>3, <1>4, <1>5, <1>6, <1>7

(* The gate of c's lock l goes back to nobody, or on to d who is first in   *)
(* line; nobody else moves.                                                 *)
Passed(c, i, l, d) ==
    /\ d = IF line[l] = <<>> THEN None ELSE Head(line[l])
    /\ gate' = [gate EXCEPT ![l] = d]
    /\ line' = IF line[l] = <<>> THEN line ELSE [line EXCEPT ![l] = Tail(line[l])]
    /\ d # c
    /\ d # None => d \in Callers /\ stage[d][i] = "waiting" /\ mine[d][i] = l
    /\ \A e \in Callers, j \in Ids :
         stage'[e][j] = IF e = c /\ j = i THEN "emptied"
                        ELSE IF e = d /\ j = i THEN "holding" ELSE stage[e][j]

LEMMA GatePasses ==
    ASSUME IInv, NEW c \in Callers, NEW i \in Ids, stage[c][i] = "holding",
           Empty(c, i), NEW l \in Locks, l = mine[c][i]
    PROVE  \E d \in Callers \union {None} : Passed(c, i, l, d)
<1>1. TypeOK /\ None \notin Callers
  BY CallersAssumption DEF IInv
<1>2. line[l] # <<>> => /\ Head(line[l]) \in Callers \ {c}
                        /\ stage[Head(line[l])][i] = "waiting"
                        /\ mine[Head(line[l])][i] = l
  BY FirstInLine
<1>3. PICK d \in Callers \union {None} :
        /\ d = IF line[l] = <<>> THEN None ELSE Head(line[l])
        /\ gate' = [gate EXCEPT ![l] = d]
        /\ line' = IF line[l] = <<>> THEN line ELSE [line EXCEPT ![l] = Tail(line[l])]
  BY <1>2 DEF Empty, PassGate
<1>4. d # c /\ (d # None => d \in Callers /\ stage[d][i] = "waiting" /\ mine[d][i] = l)
  BY <1>1, <1>2, <1>3
<1>5. \A e \in Callers, j \in Ids :
        stage'[e][j] = IF e = c /\ j = i THEN "emptied"
                       ELSE IF e = d /\ j = i THEN "holding" ELSE stage[e][j]
  <2>1. gate'[l] = d
    BY <1>1, <1>3 DEF TypeOK
  <2>2. stage' = [e \in Callers |->
                    IF e = c THEN [stage[c] EXCEPT ![i] = "emptied"]
                    ELSE IF e = d THEN [stage[e] EXCEPT ![i] = "holding"]
                    ELSE stage[e]]
    BY <2>1 DEF Empty
  <2> QED BY <2>2, <1>1, <1>4 DEF TypeOK
<1> QED
  BY <1>3, <1>4, <1>5 DEF Passed

LEMMA EmptyKeeps ==
    ASSUME IInv, NEW c \in Callers, NEW i \in Ids, stage[c][i] = "holding",
           Empty(c, i), todo' = todo
    PROVE  IInv'
<1> DEFINE l == mine[c][i]
<1>1. /\ TypeOK /\ Allocated /\ Registered /\ Used /\ Held /\ InLine /\ Untouched
      /\ None \notin Locks /\ None \notin Callers
  BY LocksAssumption, CallersAssumption DEF IInv
<1>2. l \in Locks /\ locks[i] = l /\ gate[l] = c
  BY <1>1 DEF TypeOK, Registered, Held, Counted
<1>3. UNCHANGED <<rows, lastId, grouped, locks, refs, mine, todo>>
  BY DEF Empty
<1>4. line[l] \in Seq(Callers)
  BY <1>1, <1>2 DEF TypeOK
<1>5. line[l] # <<>> =>
        /\ Head(line[l]) \in Callers \ {c}
        /\ Tail(line[l]) \in Seq(Callers)
        /\ Len(Tail(line[l])) = Len(line[l]) - 1
        /\ \A n \in 1..(Len(line[l]) - 1) : Tail(line[l])[n] = line[l][n + 1]
        /\ Len(line[l]) \in Nat \ {0}
        /\ line[l][1] = Head(line[l])
  BY <1>2, FirstInLine
<1>p. PICK d \in Callers \union {None} : Passed(c, i, l, d)
  BY <1>2, GatePasses
<1>6. /\ d = IF line[l] = <<>> THEN None ELSE Head(line[l])
      /\ gate' = [gate EXCEPT ![l] = d]
      /\ line' = IF line[l] = <<>> THEN line ELSE [line EXCEPT ![l] = Tail(line[l])]
  BY <1>p DEF Passed
<1>7. d # c /\ (d # None => d \in Callers /\ stage[d][i] = "waiting" /\ mine[d][i] = l)
  BY <1>p DEF Passed
<1>8. \A e \in Callers, j \in Ids :
        stage'[e][j] = IF e = c /\ j = i THEN "emptied"
                       ELSE IF e = d /\ j = i THEN "holding" ELSE stage[e][j]
  BY <1>p DEF Passed
<1>9. TypeOK'
  <2>1. stage' \in [Callers -> [Ids -> Stages]]
    BY <1>1 DEF Empty, TypeOK, Stages
  <2>2. gate' \in [Locks -> Callers \union {None}] /\ line' \in [Locks -> Seq(Callers)]
    BY <1>1, <1>5, <1>6 DEF TypeOK
  <2> QED BY <2>1, <2>2, <1>1, <1>3 DEF TypeOK
<1> HIDE DEF l
<1>10. Allocated'
  BY <1>1, <1>3, <1>7, <1>8 DEF Allocated
<1>11. Registered' /\ Used'
  <2>1. \A e \in Callers, j \in Ids : stage'[e][j] \in Counted <=> stage[e][j] \in Counted
    BY <1>1, <1>7, <1>8 DEF Counted
  <2> QED BY <2>1, <1>1, <1>3 DEF Registered, Used
<1>12. Counts'
  <2>1. \A e \in Callers, j \in Ids : stage'[e][j] \in Counted <=> stage[e][j] \in Counted
    BY <1>1, <1>7, <1>8 DEF Counted
  <2>2. \A k \in Locks : Users(k)' = Users(k)
    BY <2>1, <1>3, SameUsers
  <2> QED BY <2>2, <1>3 DEF IInv, Counts
<1>13. Held'
  <2> SUFFICES ASSUME NEW e \in Callers, NEW j \in Ids, stage'[e][j] = "holding"
               PROVE  gate'[mine[e][j]] = e
    BY <1>3 DEF Held
  <2>1. CASE e = d /\ j = i
    BY <2>1, <1>1, <1>2, <1>6, <1>7 DEF TypeOK
  <2>2. CASE ~(e = d /\ j = i)
    <3>1. stage[e][j] = "holding" /\ ~(e = c /\ j = i)
      BY <2>2, <1>8
    <3>2. mine[e][j] \in Locks /\ gate[mine[e][j]] = e /\ locks[j] = mine[e][j]
      BY <3>1, <1>1 DEF Held, Registered, Counted, TypeOK
    <3>3. mine[e][j] # l
      BY <3>1, <3>2, <1>1, <1>2 DEF Registered
    <3> QED BY <3>2, <3>3, <1>1, <1>6 DEF TypeOK
  <2> QED BY <2>1, <2>2
<1>14. InLine'
  <2> SUFFICES ASSUME NEW k \in Locks, NEW n \in 1..Len(line'[k])
               PROVE  /\ \E j \in Ids : stage'[line'[k][n]][j] = "waiting" /\ mine[line'[k][n]][j] = k
                      /\ \A m \in 1..Len(line'[k]) : line'[k][m] = line'[k][n] => m = n
    BY <1>3 DEF InLine
  <2>1. CASE line'[k] = line[k] /\ ~(k = l /\ line[l] # <<>>)
    <3>1. PICK j \in Ids : stage[line[k][n]][j] = "waiting" /\ mine[line[k][n]][j] = k
      BY <2>1, <1>1 DEF InLine
    <3>2. line[k][n] \in Callers
      BY <2>1, <1>1, ElementOfSeq DEF TypeOK
    <3>3. ~(line[k][n] = d /\ j = i)
      <4> SUFFICES ASSUME line[k][n] = d, j = i PROVE FALSE
        OBVIOUS
      <4>1. d # None /\ k = l
        BY <3>1, <3>2, <1>1, <1>7
      <4> QED BY <4>1, <2>1, <1>6
    <3>4. stage'[line[k][n]][j] = "waiting"
      BY <3>1, <3>2, <3>3, <1>8
    <3> QED BY <2>1, <3>1, <3>4, <1>1 DEF InLine
  <2>2. CASE k = l /\ line[l] # <<>>
    <3>1. line'[l] = Tail(line[l])
      BY <2>2, <1>1, <1>2, <1>6 DEF TypeOK
    <3>2. n + 1 \in 1..Len(line[l]) /\ line'[l][n] = line[l][n + 1]
      BY <2>2, <3>1, <1>5
    <3>3. PICK j \in Ids : stage[line[l][n + 1]][j] = "waiting" /\ mine[line[l][n + 1]][j] = l
      BY <3>2, <1>1, <1>2 DEF InLine
    <3>4. line[l][n + 1] \in Callers
      BY <3>2, <1>4, ElementOfSeq
    <3>5. line[l][n + 1] # d
      <4>1. \A x, y \in 1..Len(line[l]) : line[l][x] = line[l][y] => x = y
        BY <1>1, <1>2 DEF InLine
      <4> QED BY <2>2, <4>1, <3>2, <1>5, <1>6
    <3>6. stage'[line[l][n + 1]][j] = "waiting"
      BY <3>3, <3>4, <3>5, <1>8
    <3>7. ASSUME NEW m \in 1..Len(line'[l]), line'[l][m] = line'[l][n] PROVE m = n
      <4>1. \A x, y \in 1..Len(line[l]) : line[l][x] = line[l][y] => x = y
        BY <1>1, <1>2 DEF InLine
      <4>2. m + 1 \in 1..Len(line[l]) /\ line'[l][m] = line[l][m + 1]
        BY <2>2, <3>1, <3>7, <1>5
      <4>3. m + 1 = n + 1
        BY <3>2, <3>7, <4>1, <4>2
      <4> QED BY <2>2, <3>1, <1>5, <3>7, <4>3
    <3> QED BY <2>2, <3>2, <3>3, <3>6, <3>7
  <2>3. line'[k] = line[k] \/ (k = l /\ line[l] # <<>>)
    BY <1>1, <1>2, <1>6 DEF TypeOK
  <2> QED BY <2>1, <2>2, <2>3
<1>15. Untouched'
  <2>1. \A j \in todo : ~(d = Sweeper /\ j = i) /\ ~(c = Sweeper /\ j = i)
    <3>1. Sweeper \in Callers
      BY DEF Callers
    <3> QED BY <3>1, <1>1, <1>7 DEF Untouched
  <2> QED BY <2>1, <1>1, <1>3, <1>8 DEF Untouched, TypeOK, Callers
<1> QED
  BY <1>9, <1>10, <1>11, <1>12, <1>13, <1>14, <1>15 DEF IInv

LEMMA RemoveKeeps ==
    ASSUME IInv, NEW c \in Requests, NEW i \in Ids, RemoveRow(c, i) PROVE IInv'
<1>2. Counts'
  <2>1. \A l \in Locks : Users(l)' = Users(l)
    BY DEF RemoveRow, Users
  <2> QED BY <2>1 DEF RemoveRow, IInv, Counts
<1> QED
  BY <1>2 DEF IInv, RemoveRow, TypeOK, Allocated, Registered, Used, Held,
              InLine, Untouched

LEMMA ListKeeps == ASSUME IInv, SweepList PROVE IInv'
<1>1. Counts'
  <2>1. \A l \in Locks : Users(l)' = Users(l)
    BY DEF SweepList, Users
  <2> QED BY <2>1 DEF SweepList, IInv, Counts
<1>2. TypeOK' /\ Allocated' /\ Registered' /\ Used' /\ Held' /\ InLine'
  BY DEF IInv, SweepList, TypeOK, Allocated, Registered, Used, Held, InLine
<1>3. Untouched'
  BY DEF IInv, TypeOK, SweepList, Idle, Untouched
<1> QED
  BY <1>1, <1>2, <1>3 DEF IInv

LEMMA StutterKeeps == ASSUME IInv, UNCHANGED vars PROVE IInv'
<1>1. Counts'
  <2>1. \A l \in Locks : Users(l)' = Users(l)
    BY DEF vars, Users
  <2> QED BY <2>1 DEF vars, IInv, Counts
<1> QED
  BY <1>1 DEF IInv, vars, TypeOK, Allocated, Registered, Used, Held,
              InLine, Untouched

LEMMA NextInv == IInv /\ [Next]_vars => IInv'
<1> SUFFICES ASSUME IInv, [Next]_vars PROVE IInv'
  OBVIOUS
<1>1. CASE CreateCollection
  BY <1>1, CreateKeeps
<1>2. ASSUME NEW c \in Requests, NEW i \in Ids,
             \/ FindRow(c, i) \/ Wait(c, i)
             \/ WaitCancelled(c, i) \/ RemoveRow(c, i)
      PROVE  IInv'
  BY <1>2, FindKeeps, WaitKeeps, CancelKeeps, RemoveKeeps
<1>3. ASSUME NEW c \in Requests, NEW i \in Ids, RequestRetain(c, i) PROVE IInv'
  <2>1. c \in Callers /\ c # Sweeper
    BY CallersAssumption DEF Callers
  <2>2. /\ Retain(c, i, "retained") /\ stage[c][i] \in {"idle", "found"}
        /\ i <= lastId /\ todo' \subseteq todo
    BY <1>3, <2>1 DEF RequestRetain, IInv, Allocated
  <2> QED BY <2>1, <2>2, RetainKeeps
<1>4. ASSUME NEW i \in Ids, SweepTry(i) PROVE IInv'
  <2>1. Sweeper \in Callers
    BY DEF Callers
  <2>2. /\ Retain(Sweeper, i, "trying") /\ stage[Sweeper][i] \in {"idle", "found"}
        /\ i <= lastId /\ todo' \subseteq todo /\ i \notin todo'
    BY <1>4, <2>1 DEF SweepTry, IInv, Allocated, Untouched
  <2> QED BY <2>1, <2>2, RetainKeeps
<1>5. ASSUME NEW c \in Requests, NEW i \in Ids, RequestRelease(c, i) PROVE IInv'
  BY <1>5, EmptyKeeps DEF RequestRelease, Callers
<1>6. ASSUME NEW i \in Ids, SweepSkips(i) \/ SweepReleases(i) PROVE IInv'
  BY <1>6, EmptyKeeps DEF SweepSkips, SweepReleases, Callers
<1>7. ASSUME NEW c \in Callers, NEW i \in Ids, Finish(c, i) PROVE IInv'
  BY <1>7, EnterKeeps, DropKeeps DEF Finish
<1>8. CASE SweepList
  BY <1>8, ListKeeps
<1>9. CASE UNCHANGED vars
  BY <1>9, StutterKeeps
<1> QED
  BY <1>1, <1>2, <1>3, <1>4, <1>5, <1>6, <1>7, <1>8, <1>9 DEF Next

(* The map, the gates, their lines and their counts always fit together as  *)
(* the parts of the inductive invariant say (subscriptionLocksMu).          *)
THEOREM InductiveInvariant == Spec => []IInv
<1> QED
  BY InitInv, NextInv, PTL DEF Spec

(* Every variable keeps its type: no reference is counted below zero, no    *)
(* gate holds anything but the value of one caller.                         *)
THEOREM LocksTyped == Spec => []TypeOK
<1>1. IInv => TypeOK
  BY DEF IInv
<1> QED
  BY <1>1, InductiveInvariant, PTL

(* No two callers are inside the mutation of one subscription, for any      *)
(* number of callers, lock objects and subscriptions (lockSubscription,     *)
(* tryLockSubscription, reserveSubscription): both would have the object    *)
(* that is registered, and its gate holds one value.                        *)
THEOREM LocksExclude == Spec => []OneHolder
<1>1. IInv => OneHolder
  <2> SUFFICES ASSUME IInv, NEW i \in Ids, NEW c \in Callers, NEW d \in Callers,
                      stage[c][i] = "holding", stage[d][i] = "holding"
               PROVE  c = d
    BY DEF OneHolder
  <2>1. mine[c][i] = locks[i] /\ mine[d][i] = locks[i]
    BY DEF IInv, Registered, Counted
  <2> QED BY <2>1 DEF IInv, Held
<1> QED
  BY <1>1, InductiveInvariant, PTL

(* Whoever is counted uses the registered object, and an entry without      *)
(* users does not stay (retainSubscriptionLock, dropSubscriptionLock).      *)
THEOREM LocksForgotten == Spec => []EntriesAreUsed
<1>1. IInv => EntriesAreUsed
  BY DEF IInv, Registered, Used, EntriesAreUsed
<1> QED
  BY <1>1, InductiveInvariant, PTL

-----------------------------------------------------------------------------
(* Nobody waits in a circle *)

(* Whoever is waited for waits for nobody: a request works on one           *)
(* subscription at a time, and the enforcement loop, which keeps several    *)
(* locks until its round ends, only ever tries the next one                 *)
(* (lockSubscription, tryLockSubscription, reconcileSubscriptions).         *)
WaitersHaveAHolder ==
    \A c \in Callers, i \in Ids : stage[c][i] = "waiting" =>
        \E d \in Callers : /\ stage[d][i] = "holding"
                           /\ \A j \in Ids : stage[d][j] # "waiting"

(* A request has one subscription in hand, the sweeper never blocks.        *)
OneTask ==
    /\ \A c \in Requests, i, j \in Ids :
         stage[c][i] # "idle" /\ stage[c][j] # "idle" => i = j
    /\ \A i \in Ids : stage[Sweeper][i] # "waiting"

(* Whoever waits is in the line of its lock, the gate of a lock waited for  *)
(* is full, and the value in a gate is that of a holder.                    *)
Queued ==
    \A c \in Callers, i \in Ids : stage[c][i] = "waiting" =>
        \E k \in 1..Len(line[mine[c][i]]) : line[mine[c][i]][k] = c

Guarded ==
    \A c \in Callers, i \in Ids : stage[c][i] = "waiting" => gate[mine[c][i]] # None

Occupied ==
    \A l \in Locks, c \in Callers : gate[l] = c =>
        \E i \in Ids : stage[c][i] = "holding" /\ mine[c][i] = l

(* The second inductive invariant, on top of the first. *)
Lined == OneTask /\ Queued /\ Guarded /\ Occupied

Unused(l) == \A c \in Callers, i \in Ids : mine[c][i] # l

(* One caller moves on one subscription to the stage s, and joins no line.  *)
LEMMA OneTaskMoves ==
    ASSUME OneTask, NEW c \in Callers, NEW i \in Ids, NEW s,
           \A d \in Callers, j \in Ids :
             stage'[d][j] = IF d = c /\ j = i THEN s ELSE stage[d][j],
           c = Sweeper => s # "waiting",
           c # Sweeper => stage[c][i] # "idle" \/ Idle(c)
    PROVE  OneTask'
<1>1. Sweeper \in Callers /\ \A d \in Requests : d \in Callers /\ d # Sweeper
  BY CallersAssumption DEF Callers
<1>2. ASSUME NEW d \in Requests, NEW j \in Ids, NEW k \in Ids,
             stage'[d][j] # "idle", stage'[d][k] # "idle"
      PROVE  j = k
  <2>1. CASE d # c
    <3>1. stage[d][j] # "idle" /\ stage[d][k] # "idle"
      BY <1>1, <1>2, <2>1
    <3> QED BY <3>1 DEF OneTask
  <2>2. CASE d = c /\ Idle(c)
    BY <1>1, <1>2, <2>2 DEF Idle
  <2>3. CASE d = c /\ stage[c][i] # "idle"
    <3>1. (j = i \/ stage[c][j] # "idle") /\ (k = i \/ stage[c][k] # "idle")
      BY <1>1, <1>2, <2>3
    <3> QED BY <2>3, <3>1 DEF OneTask
  <2> QED BY <1>1, <2>1, <2>2, <2>3
<1>3. ASSUME NEW j \in Ids PROVE stage'[Sweeper][j] # "waiting"
  BY <1>1 DEF OneTask
<1> QED
  BY <1>2, <1>3 DEF OneTask

(* It takes an empty gate, has an unused lock object made, or leaves the    *)
(* gates and the lines alone.                                               *)
LEMMA LinesStay ==
    ASSUME IInv, Queued, Guarded, Occupied, NEW c \in Callers, NEW i \in Ids, NEW s,
           \A d \in Callers, j \in Ids :
             /\ stage'[d][j] = IF d = c /\ j = i THEN s ELSE stage[d][j]
             /\ (d = c /\ j = i) \/ mine'[d][j] = mine[d][j],
           stage[c][i] \notin {"waiting", "holding"}, s # "waiting",
           \A l \in Locks : line'[l] = line[l] \/ Unused(l),
           \A l \in Locks : \/ gate'[l] = gate[l]
                            \/ gate'[l] = c /\ s = "holding" /\ mine'[c][i] = l
                            \/ gate'[l] = None /\ Unused(l)
    PROVE  Queued' /\ Guarded' /\ Occupied'
<1>1. TypeOK /\ Registered /\ None \notin Callers
  BY CallersAssumption DEF IInv
\* Who waits then has waited before, for the same lock.
<1>2. ASSUME NEW d \in Callers, NEW j \in Ids, stage'[d][j] = "waiting"
      PROVE  /\ stage[d][j] = "waiting" /\ mine'[d][j] = mine[d][j]
             /\ mine[d][j] \in Locks /\ ~Unused(mine[d][j])
  <2>1. ~(d = c /\ j = i)
    BY <1>2
  <2>2. stage[d][j] = "waiting" /\ mine'[d][j] = mine[d][j]
    BY <1>2, <2>1
  <2>3. mine[d][j] \in Locks
    BY <2>2, <1>1 DEF Registered, Counted, TypeOK
  <2> QED BY <2>2, <2>3 DEF Unused
<1>3. ASSUME NEW d \in Callers, NEW j \in Ids, stage'[d][j] = "waiting"
      PROVE  \E k \in 1..Len(line'[mine'[d][j]]) : line'[mine'[d][j]][k] = d
  <2>1. line'[mine'[d][j]] = line[mine[d][j]]
    BY <1>2, <1>3
  <2>2. \E k \in 1..Len(line[mine[d][j]]) : line[mine[d][j]][k] = d
    BY <1>2, <1>3 DEF Queued
  <2> QED BY <2>1, <2>2
<1>4. ASSUME NEW d \in Callers, NEW j \in Ids, stage'[d][j] = "waiting"
      PROVE  gate'[mine'[d][j]] # None
  <2>1. gate[mine[d][j]] # None
    BY <1>2, <1>4 DEF Guarded
  <2>2. gate'[mine[d][j]] = gate[mine[d][j]] \/ gate'[mine[d][j]] = c
    BY <1>2, <1>4
  <2> QED BY <2>1, <2>2, <1>1, <1>2, <1>4
<1>5. ASSUME NEW l \in Locks, NEW d \in Callers, gate'[l] = d
      PROVE  \E j \in Ids : stage'[d][j] = "holding" /\ mine'[d][j] = l
  <2>1. CASE gate'[l] = gate[l]
    <3>1. PICK j \in Ids : stage[d][j] = "holding" /\ mine[d][j] = l
      BY <1>5, <2>1 DEF Occupied
    <3>2. ~(d = c /\ j = i)
      BY <3>1
    <3>3. stage'[d][j] = "holding" /\ mine'[d][j] = l
      BY <3>1, <3>2
    <3> QED BY <3>3
  <2>2. CASE gate'[l] = c /\ s = "holding" /\ mine'[c][i] = l
    <3>1. d = c /\ stage'[c][i] = "holding"
      BY <1>5, <2>2
    <3> QED BY <3>1, <2>2
  <2> QED BY <1>1, <1>5, <2>1, <2>2
<1> QED
  BY <1>3, <1>4, <1>5 DEF Queued, Guarded, Occupied

LEMMA LinedInit == Init => Lined
<1> SUFFICES ASSUME Init PROVE Lined
  OBVIOUS
<1>1. Sweeper \in Callers /\ Requests \subseteq Callers /\ None \notin Callers
  BY CallersAssumption DEF Callers
<1> QED
  BY <1>1 DEF Init, Lined, OneTask, Queued, Guarded, Occupied

(* The steps that join or leave no line and empty no gate.                  *)
LEMMA CalmLined ==
    ASSUME IInv, Lined, NEW c \in Callers, NEW i \in Ids,
           \/ FindRow(c, i)
           \/ c \in Requests /\ RequestRetain(c, i)
           \/ Finish(c, i)
           \/ c = Sweeper /\ SweepTry(i)
    PROVE  Lined'
<1>1. /\ TypeOK /\ Registered /\ Untouched /\ OneTask /\ Queued /\ Guarded /\ Occupied
      /\ Sweeper \in Callers /\ Sweeper \notin Requests /\ None \notin Locks
  BY CallersAssumption, LocksAssumption DEF IInv, Lined, Callers
<1>0. gate \in [Locks -> Callers \union {None}] /\ line \in [Locks -> Seq(Callers)]
  BY <1>1 DEF TypeOK
<1>2. ASSUME NEW s, NEW l, To(c, i, s), Takes(c, i, l) \/ mine' = mine
      PROVE  \A d \in Callers, j \in Ids :
               /\ stage'[d][j] = IF d = c /\ j = i THEN s ELSE stage[d][j]
               /\ (d = c /\ j = i) \/ mine'[d][j] = mine[d][j]
  <2>1. \A d \in Callers, j \in Ids :
          stage'[d][j] = IF d = c /\ j = i THEN s ELSE stage[d][j]
    BY <1>1, <1>2, StageMoves
  <2>2. \A d \in Callers, j \in Ids : (d = c /\ j = i) \/ mine'[d][j] = mine[d][j]
    BY <1>1, <1>2, MineMoves
  <2> QED BY <2>1, <2>2
<1>3. ASSUME NEW l \in Locks, Fresh(l) PROVE Unused(l)
  BY <1>3, FreshUnused DEF Unused
<1>5. ASSUME NEW s \in {"retained", "trying"}, Retain(c, i, s),
             stage[c][i] \in {"idle", "found"}
      PROVE  Queued' /\ Guarded' /\ Occupied'
  <2>1. PICK l \in Locks \union {None} :
          /\ To(c, i, s) /\ Takes(c, i, l)
          /\ \/ UNCHANGED <<gate, line>>
             \/ /\ l \in Locks /\ Unused(l)
                /\ gate' = [gate EXCEPT ![l] = None]
                /\ line' = [line EXCEPT ![l] = <<>>]
    <3>1. CASE locks[i] # None
      BY <3>1, <1>1, <1>5 DEF Retain, TypeOK
    <3>2. CASE locks[i] = None
      <4>1. NewLock \in Locks /\ Unused(NewLock)
        BY <3>2, <1>3, <1>5, NewLockFresh DEF Retain
      <4> QED BY <3>2, <4>1, <1>5 DEF Retain
    <3> QED BY <3>1, <3>2
  <2>2. \A k \in Locks : line'[k] = line[k] \/ Unused(k)
    BY <2>1, <1>0
  <2>3. \A k \in Locks : gate'[k] = gate[k] \/ (gate'[k] = None /\ Unused(k))
    BY <2>1, <1>0
  <2>4. \A d \in Callers, j \in Ids :
          /\ stage'[d][j] = IF d = c /\ j = i THEN s ELSE stage[d][j]
          /\ (d = c /\ j = i) \/ mine'[d][j] = mine[d][j]
    BY <1>2, <2>1
  <2> QED BY <1>1, <1>5, <2>2, <2>3, <2>4, LinesStay
<1>6. CASE FindRow(c, i)
  <2>1. /\ c # Sweeper /\ Idle(c) /\ stage[c][i] = "idle" /\ To(c, i, "found")
        /\ mine' = mine /\ UNCHANGED <<gate, line>>
    BY <1>1, <1>6 DEF FindRow, Idle
  <2>2. OneTask'
    BY <1>1, <1>2, <2>1, OneTaskMoves
  <2>3. Queued' /\ Guarded' /\ Occupied'
    BY <1>1, <1>2, <2>1, LinesStay
  <2> QED BY <2>2, <2>3 DEF Lined
<1>7. CASE c \in Requests /\ RequestRetain(c, i)
  <2>1. stage[c][i] = "found" /\ Retain(c, i, "retained") /\ To(c, i, "retained")
    BY <1>7 DEF RequestRetain, Retain
  <2>2. OneTask'
    BY <1>1, <2>1, StageMoves, OneTaskMoves
  <2> QED BY <2>1, <2>2, <1>5 DEF Lined
<1>8. CASE c = Sweeper /\ SweepTry(i)
  <2>1. stage[c][i] = "idle" /\ Retain(c, i, "trying") /\ To(c, i, "trying")
    BY <1>1, <1>8 DEF SweepTry, Retain, Untouched
  <2>2. OneTask'
    BY <1>1, <1>8, <2>1, StageMoves, OneTaskMoves
  <2> QED BY <2>1, <2>2, <1>5 DEF Lined
<1>9. CASE Enter(c, i)
  <2>1. /\ stage[c][i] \in {"retained", "trying"} /\ To(c, i, "holding")
        /\ mine' = mine /\ line' = line /\ mine[c][i] \in Locks
        /\ gate' = [gate EXCEPT ![mine[c][i]] = c]
    BY <1>1, <1>9 DEF Enter, TypeOK, Registered, Counted
  <2>2. OneTask'
    BY <1>1, <1>2, <2>1, OneTaskMoves
  <2>3. \A k \in Locks : gate'[k] = gate[k] \/ (gate'[k] = c /\ mine'[c][i] = k)
    BY <2>1, <1>0
  <2>4. Queued' /\ Guarded' /\ Occupied'
    BY <1>1, <1>2, <2>1, <2>3, LinesStay
  <2> QED BY <2>2, <2>4 DEF Lined
<1>10. CASE TryFails(c, i)
  <2>1. /\ stage[c][i] = "trying" /\ To(c, i, "gaveup")
        /\ mine' = mine /\ UNCHANGED <<gate, line>>
    BY <1>10 DEF TryFails
  <2>2. OneTask'
    BY <1>1, <1>2, <2>1, OneTaskMoves
  <2>3. Queued' /\ Guarded' /\ Occupied'
    BY <1>1, <1>2, <2>1, LinesStay
  <2> QED BY <2>2, <2>3 DEF Lined
<1>11. CASE Drop(c, i)
  <2>1. /\ stage[c][i] \in {"emptied", "gaveup"} /\ To(c, i, "idle")
        /\ Takes(c, i, None) /\ UNCHANGED <<gate, line>>
    BY <1>11 DEF Drop
  <2>2. OneTask'
    BY <1>1, <1>2, <2>1, OneTaskMoves
  <2>3. Queued' /\ Guarded' /\ Occupied'
    BY <1>1, <1>2, <2>1, LinesStay
  <2> QED BY <2>2, <2>3 DEF Lined
<1> QED
  BY <1>6, <1>7, <1>8, <1>9, <1>10, <1>11 DEF Finish

LEMMA WaitLined ==
    ASSUME IInv, Lined, NEW c \in Requests, NEW i \in Ids, Wait(c, i) PROVE Lined'
<1> DEFINE l == mine[c][i]
<1>1. /\ TypeOK /\ Registered /\ OneTask /\ Queued /\ Guarded /\ Occupied
      /\ c \in Callers /\ c # Sweeper
  BY CallersAssumption DEF IInv, Lined, Callers
<1>2. /\ stage[c][i] = "retained" /\ l \in Locks /\ gate[l] # None
      /\ mine' = mine /\ gate' = gate /\ To(c, i, "waiting")
      /\ line' = [line EXCEPT ![l] = Append(line[l], c)]
  BY <1>1 DEF Wait, TypeOK, Registered, Counted
<1>3. \A d \in Callers, j \in Ids :
        stage'[d][j] = IF d = c /\ j = i THEN "waiting" ELSE stage[d][j]
  BY <1>1, <1>2, StageMoves
<1>4. OneTask'
  BY <1>1, <1>2, <1>3, OneTaskMoves
<1>5. /\ Len(line[l]) \in Nat
      /\ Len(line'[l]) = Len(line[l]) + 1
      /\ \A k \in 1..Len(line[l]) : line'[l][k] = line[l][k]
      /\ line'[l][Len(line[l]) + 1] = c
  <2>1. line[l] \in Seq(Callers) /\ line'[l] = Append(line[l], c)
    BY <1>1, <1>2 DEF TypeOK
  <2> HIDE DEF l
  <2> QED BY <1>1, <2>1, AppendProperties, LenProperties
<1>6. ASSUME NEW d \in Callers, NEW j \in Ids, stage'[d][j] = "waiting"
      PROVE  \E k \in 1..Len(line'[mine[d][j]]) : line'[mine[d][j]][k] = d
  <2>1. CASE d = c /\ j = i
    <3>1. Len(line[l]) + 1 \in 1..Len(line'[l])
      BY <1>5
    <3> QED BY <2>1, <3>1, <1>5
  <2>2. CASE ~(d = c /\ j = i)
    <3> DEFINE m == mine[d][j]
    <3>1. stage[d][j] = "waiting" /\ m \in Locks
      BY <2>2, <1>1, <1>3, <1>6 DEF Registered, Counted, TypeOK
    <3>2. PICK k \in 1..Len(line[m]) : line[m][k] = d
      BY <3>1, <1>1 DEF Queued
    <3>3. m # l => line'[m] = line[m]
      BY <3>1, <1>1, <1>2 DEF TypeOK
    <3> HIDE DEF l, m
    <3>4. k \in 1..Len(line'[m]) /\ line'[m][k] = d
      BY <3>2, <3>3, <1>5
    <3> QED BY <3>4 DEF m
  <2> QED BY <2>1, <2>2
<1>7. Queued'
  BY <1>2, <1>6 DEF Queued
<1>8. Guarded'
  BY <1>1, <1>2, <1>3 DEF Guarded
<1>9. Occupied'
  <2> SUFFICES ASSUME NEW k \in Locks, NEW d \in Callers, gate[k] = d
               PROVE  \E j \in Ids : stage'[d][j] = "holding" /\ mine[d][j] = k
    BY <1>2 DEF Occupied
  <2>1. PICK j \in Ids : stage[d][j] = "holding" /\ mine[d][j] = k
    BY <1>1 DEF Occupied
  <2>2. stage'[d][j] = "holding"
    BY <2>1, <1>2, <1>3
  <2> QED BY <2>1, <2>2
<1> QED
  BY <1>4, <1>7, <1>8, <1>9 DEF Lined

LEMMA CancelLined ==
    ASSUME IInv, Lined, NEW c \in Requests, NEW i \in Ids, WaitCancelled(c, i) PROVE Lined'
<1> DEFINE l == mine[c][i]
<1>1. /\ TypeOK /\ Registered /\ InLine /\ OneTask /\ Queued /\ Guarded /\ Occupied
      /\ c \in Callers /\ c # Sweeper /\ None \notin Locks
  BY CallersAssumption, LocksAssumption DEF IInv, Lined, Callers
<1>2. /\ stage[c][i] = "waiting" /\ l \in Locks /\ locks[i] = l
      /\ mine' = mine /\ gate' = gate /\ To(c, i, "gaveup")
  BY <1>1 DEF WaitCancelled, TypeOK, Registered, Counted
<1>3. line[l] \in Seq(Callers) /\ line \in [Locks -> Seq(Callers)]
  BY <1>1, <1>2 DEF TypeOK
<1>4. PICK p \in 1..Len(line[l]) :
        line[l][p] = c /\ line' = [line EXCEPT ![l] = RemoveAt(line[l], p)]
  BY <1>3, LenProperties DEF WaitCancelled
<1>5. /\ Len(line[l]) \in Nat
      /\ Len(line'[l]) = Len(line[l]) - 1
      /\ \A n \in 1..(Len(line[l]) - 1) :
           line'[l][n] = IF n < p THEN line[l][n] ELSE line[l][n + 1]
  <2>1. line'[l] = RemoveAt(line[l], p)
    BY <1>2, <1>3, <1>4
  <2> HIDE DEF l
  <2> QED BY <2>1, <1>3, RemoveAtFacts, LenProperties
<1>6. \A d \in Callers, j \in Ids :
        stage'[d][j] = IF d = c /\ j = i THEN "gaveup" ELSE stage[d][j]
  BY <1>1, <1>2, StageMoves
<1>7. OneTask'
  BY <1>1, <1>2, <1>6, OneTaskMoves
<1>8. ASSUME NEW d \in Callers, NEW j \in Ids, stage'[d][j] = "waiting"
      PROVE  \E k \in 1..Len(line'[mine[d][j]]) : line'[mine[d][j]][k] = d
  <2> DEFINE m == mine[d][j]
  <2>1. stage[d][j] = "waiting" /\ ~(d = c /\ j = i)
    BY <1>6, <1>8
  <2>2. m \in Locks /\ locks[j] = m
    BY <2>1, <1>1 DEF Registered, Counted, TypeOK
  <2>3. PICK k \in 1..Len(line[m]) : line[m][k] = d
    BY <2>1, <1>1 DEF Queued
  <2>4. m = l => d # c
    BY <2>1, <2>2, <1>1, <1>2 DEF Registered
  <2>5. m # l => line'[m] = line[m]
    BY <2>2, <1>3, <1>4
  <2> HIDE DEF l, m
  <2>6. CASE m # l
    BY <2>3, <2>5, <2>6 DEF m
  <2>7. CASE m = l
    <3>1. k # p
      BY <2>3, <2>4, <2>7, <1>4
    <3>2. CASE k < p
      <4>1. k \in 1..Len(line'[l]) /\ line'[l][k] = d
        BY <2>3, <2>7, <3>2, <1>5
      <4> QED BY <4>1, <2>7 DEF m
    <3>3. CASE k > p
      <4>1. k - 1 \in 1..Len(line'[l]) /\ line'[l][k - 1] = d
        BY <2>3, <2>7, <3>3, <1>5
      <4> QED BY <4>1, <2>7 DEF m
    <3> QED BY <3>1, <3>2, <3>3, <1>5, <2>3, <2>7
  <2> QED BY <2>6, <2>7
<1>9. Queued'
  BY <1>2, <1>8 DEF Queued
<1>10. Guarded'
  BY <1>1, <1>2, <1>6 DEF Guarded
<1>11. Occupied'
  <2> SUFFICES ASSUME NEW k \in Locks, NEW d \in Callers, gate[k] = d
               PROVE  \E j \in Ids : stage'[d][j] = "holding" /\ mine[d][j] = k
    BY <1>2 DEF Occupied
  <2>1. PICK j \in Ids : stage[d][j] = "holding" /\ mine[d][j] = k
    BY <1>1 DEF Occupied
  <2>2. stage'[d][j] = "holding"
    BY <2>1, <1>2, <1>6
  <2> QED BY <2>1, <2>2
<1> QED
  BY <1>7, <1>9, <1>10, <1>11 DEF Lined

(* The gate of a lock that somebody waits for is never left empty.          *)
LEMMA EmptyLined ==
    ASSUME IInv, Lined, NEW c \in Callers, NEW i \in Ids, stage[c][i] = "holding",
           Empty(c, i)
    PROVE  Lined'
<1>1. /\ TypeOK /\ Registered /\ OneTask /\ Queued /\ Guarded /\ Occupied
      /\ None \notin Locks /\ None \notin Callers
      /\ Sweeper \in Callers /\ \A e \in Requests : e \in Callers
  BY CallersAssumption, LocksAssumption DEF IInv, Lined, Callers
<1>2. PICK l \in Locks : l = mine[c][i] /\ locks[i] = l /\ mine' = mine
  BY <1>1 DEF TypeOK, Registered, Counted, Empty
<1>3. PICK d \in Callers \union {None} : Passed(c, i, l, d)
  BY <1>2, GatePasses
<1>4. \A e \in Callers, j \in Ids :
        stage'[e][j] = IF e = c /\ j = i THEN "emptied"
                       ELSE IF e = d /\ j = i THEN "holding" ELSE stage[e][j]
  BY <1>3 DEF Passed
<1>5. /\ d = IF line[l] = <<>> THEN None ELSE Head(line[l])
      /\ d # c
      /\ d # None => d \in Callers /\ stage[d][i] = "waiting" /\ mine[d][i] = l
  BY <1>3 DEF Passed
<1>6. /\ gate'[l] = d
      /\ \A k \in Locks \ {l} : gate'[k] = gate[k] /\ line'[k] = line[k]
      /\ line'[l] = IF line[l] = <<>> THEN <<>> ELSE Tail(line[l])
  BY <1>1, <1>3 DEF Passed, TypeOK
<1>7. line[l] # <<>> =>
        /\ Len(Tail(line[l])) = Len(line[l]) - 1
        /\ \A n \in 1..(Len(line[l]) - 1) : Tail(line[l])[n] = line[l][n + 1]
        /\ Len(line[l]) \in Nat \ {0}
        /\ line[l][1] = Head(line[l])
  BY <1>2, FirstInLine
<1>8. OneTask'
  <2>1. ASSUME NEW e \in Callers, NEW j \in Ids, stage'[e][j] # "idle"
        PROVE  stage[e][j] # "idle"
    BY <2>1, <1>1, <1>4, <1>5
  <2>2. \A j \in Ids : stage'[Sweeper][j] # "waiting"
    BY <1>1, <1>4 DEF OneTask
  <2> QED BY <2>1, <2>2, <1>1 DEF OneTask
\* Who waits then has waited before, and is not the one the gate went to.
<1>9. ASSUME NEW e \in Callers, NEW j \in Ids, stage'[e][j] = "waiting"
      PROVE  /\ stage[e][j] = "waiting" /\ mine[e][j] \in Locks
             /\ mine[e][j] = l => e # d
  <2>1. stage[e][j] = "waiting" /\ ~(e = d /\ j = i)
    BY <1>4, <1>9
  <2>2. mine[e][j] \in Locks /\ locks[j] = mine[e][j]
    BY <2>1, <1>1 DEF Registered, Counted, TypeOK
  <2>3. mine[e][j] = l => j = i
    BY <2>2, <1>1, <1>2 DEF Registered
  <2> QED BY <2>1, <2>2, <2>3
<1>10. ASSUME NEW e \in Callers, NEW j \in Ids, stage'[e][j] = "waiting"
       PROVE  /\ \E k \in 1..Len(line'[mine[e][j]]) : line'[mine[e][j]][k] = e
              /\ gate'[mine[e][j]] # None
  <2> DEFINE m == mine[e][j]
  <2>1. stage[e][j] = "waiting" /\ m \in Locks /\ (m = l => e # d)
    BY <1>9, <1>10
  <2>2. (\E k \in 1..Len(line[m]) : line[m][k] = e) /\ gate[m] # None
    BY <2>1, <1>1 DEF Queued, Guarded
  <2> HIDE DEF m
  <2>3. PICK k \in 1..Len(line[m]) : line[m][k] = e
    BY <2>2
  <2>4. CASE m # l
    BY <2>1, <2>2, <2>4, <1>6 DEF m
  <2>5. CASE m = l
    <3>1. line[l] # <<>>
      BY <2>3, <2>5
    <3>2. d \in Callers /\ d = line[l][1] /\ line'[l] = Tail(line[l])
      BY <3>1, <1>1, <1>5, <1>6, <1>7, FirstInLine, <1>2
    <3>3. k # 1
      BY <2>1, <2>3, <2>5, <3>2
    <3>4. k - 1 \in 1..Len(line'[l]) /\ line'[l][k - 1] = e
      BY <2>3, <2>5, <3>1, <3>2, <3>3, <1>7
    <3>5. gate'[l] # None
      BY <3>2, <1>1, <1>6
    <3> QED BY <3>4, <3>5, <2>5 DEF m
  <2> QED BY <2>4, <2>5
<1>11. Queued' /\ Guarded'
  BY <1>2, <1>10 DEF Queued, Guarded
<1>12. Occupied'
  <2> SUFFICES ASSUME NEW k \in Locks, NEW e \in Callers, gate'[k] = e
               PROVE  \E j \in Ids : stage'[e][j] = "holding" /\ mine[e][j] = k
    BY <1>2 DEF Occupied
  <2>1. CASE k = l
    <3>1. e = d /\ d # None
      BY <2>1, <1>1, <1>6
    <3>2. stage'[e][i] = "holding" /\ mine[e][i] = k
      BY <2>1, <3>1, <1>4, <1>5
    <3> QED BY <3>2
  <2>2. CASE k # l
    <3>1. PICK j \in Ids : stage[e][j] = "holding" /\ mine[e][j] = k
      BY <2>2, <1>1, <1>6 DEF Occupied
    <3>2. ~(e = c /\ j = i)
      BY <2>2, <3>1, <1>2
    <3>3. stage'[e][j] = "holding"
      BY <3>1, <3>2, <1>4
    <3> QED BY <3>1, <3>3
  <2> QED BY <2>1, <2>2
<1> QED
  BY <1>8, <1>11, <1>12 DEF Lined

LEMMA NextLined == IInv /\ Lined /\ [Next]_vars => Lined'
<1> SUFFICES ASSUME IInv, Lined, [Next]_vars PROVE Lined'
  OBVIOUS
<1>1. Sweeper \in Callers /\ \A c \in Requests : c \in Callers
  BY DEF Callers
<1>3. ASSUME NEW c \in Requests, NEW i \in Ids,
             FindRow(c, i) \/ RequestRetain(c, i)
      PROVE  Lined'
  BY <1>1, <1>3, CalmLined
<1>4. ASSUME NEW c \in Requests, NEW i \in Ids, Wait(c, i) \/ WaitCancelled(c, i)
      PROVE  Lined'
  BY <1>4, WaitLined, CancelLined
<1>5. ASSUME NEW c \in Requests, NEW i \in Ids, RequestRelease(c, i) PROVE Lined'
  BY <1>1, <1>5, EmptyLined DEF RequestRelease
<1>6. ASSUME NEW i \in Ids, SweepSkips(i) \/ SweepReleases(i) PROVE Lined'
  BY <1>1, <1>6, EmptyLined DEF SweepSkips, SweepReleases
<1>7. ASSUME NEW c \in Callers, NEW i \in Ids, Finish(c, i) PROVE Lined'
  BY <1>7, CalmLined
<1>8. ASSUME NEW i \in Ids, SweepTry(i) PROVE Lined'
  BY <1>1, <1>8, CalmLined
<1>9. ASSUME UNCHANGED <<gate, line, stage, mine>> PROVE Lined'
  BY <1>9 DEF Lined, OneTask, Queued, Guarded, Occupied
<1>10. ASSUME NEW c \in Requests, NEW i \in Ids, RemoveRow(c, i) PROVE Lined'
  BY <1>9, <1>10 DEF RemoveRow
<1>11. CASE CreateCollection \/ SweepList \/ UNCHANGED vars
  BY <1>9, <1>11 DEF CreateCollection, SweepList, vars
<1> QED
  BY <1>3, <1>4, <1>5, <1>6, <1>7, <1>8, <1>10, <1>11 DEF Next

(* There is no circle of waiting callers, and none waits for a lock that    *)
(* nobody holds: behind every waiter is a holder who is not waiting, for    *)
(* any number of callers, locks and subscriptions (lockSubscription,        *)
(* releaseSubscriptionLock, reconcileSubscriptions).                        *)
THEOREM LocksNeverDeadlock == Spec => []WaitersHaveAHolder
<1>1. IInv /\ Lined => WaitersHaveAHolder
  <2> SUFFICES ASSUME IInv, Lined, NEW c \in Callers, NEW i \in Ids, stage[c][i] = "waiting"
               PROVE  \E d \in Callers : /\ stage[d][i] = "holding"
                                         /\ \A j \in Ids : stage[d][j] # "waiting"
    BY DEF WaitersHaveAHolder
  <2>1. PICK l \in Locks : l = mine[c][i] /\ locks[i] = l /\ l # None
    BY LocksAssumption DEF IInv, TypeOK, Registered, Counted
  <2>2. gate[l] \in Callers
    BY <2>1 DEF IInv, TypeOK, Lined, Guarded
  <2>3. PICK d \in Callers, j \in Ids : stage[d][j] = "holding" /\ mine[d][j] = l
    BY <2>2 DEF Lined, Occupied
  <2>4. locks[j] = l
    BY <2>1, <2>3 DEF IInv, Registered
  <2>5. j = i
    BY <2>1, <2>4 DEF IInv, Registered
  <2>6. \A k \in Ids : stage[d][k] # "waiting"
    BY <2>3 DEF Lined, OneTask, Callers
  <2> QED BY <2>3, <2>5, <2>6
<1>2. Spec => []Lined
  BY LinedInit, NextLined, InductiveInvariant, PTL DEF Spec
<1> QED
  BY <1>1, <1>2, InductiveInvariant, PTL

-----------------------------------------------------------------------------
(* The plain mutex *)

Owns(c, i) == stage[c][i] = "holding"

owners == [i \in Ids |-> OwnerOf(i)]

(* The abstract owner is whoever holds the gate.                            *)
OwnersKnown ==
    \A i \in Ids : /\ owners[i] \in Callers \union {None}
                   /\ \A c \in Callers : owners[i] = c <=> Owns(c, i)

LEMMA OwnersAreKnown == IInv => OwnersKnown
<1> SUFFICES ASSUME IInv, NEW i \in Ids
             PROVE  /\ OwnerOf(i) \in Callers \union {None}
                    /\ \A c \in Callers : OwnerOf(i) = c <=> Owns(c, i)
  BY DEF OwnersKnown, owners
<1>1. \A c, d \in Callers : Owns(c, i) /\ Owns(d, i) => c = d
  <2> SUFFICES ASSUME NEW c \in Callers, NEW d \in Callers, Owns(c, i), Owns(d, i)
               PROVE  c = d
    OBVIOUS
  <2>1. stage[c][i] = "holding" => mine[c][i] = locks[i] /\ locks[i] # None
    BY DEF IInv, Registered, Counted
  <2>2. stage[d][i] = "holding" => mine[d][i] = locks[i] /\ locks[i] # None
    BY DEF IInv, Registered, Counted
  <2> QED BY <2>1, <2>2 DEF Owns, IInv, Held
<1>2. CASE \E c \in Callers : Owns(c, i)
  <2>1. OwnerOf(i) \in Callers /\ Owns(OwnerOf(i), i)
    BY <1>2 DEF OwnerOf, Owns
  <2> QED BY <1>1, <2>1
<1>3. CASE ~ \E c \in Callers : Owns(c, i)
  BY <1>3, CallersAssumption DEF OwnerOf, Owns
<1> QED
  BY <1>2, <1>3

(* Ownership that does not move leaves the abstract owners as they are.     *)
LEMMA SameOwners ==
    ASSUME OwnersKnown, OwnersKnown',
           \A c \in Callers, i \in Ids : Owns(c, i)' <=> Owns(c, i)
    PROVE  owners' = owners
<1>1. \A i \in Ids : owners'[i] = owners[i]
  BY DEF OwnersKnown
<1> QED
  BY <1>1 DEF owners

(* Ownership that moves for one subscription changes its owner.             *)
LEMMA OwnerMoves ==
    ASSUME OwnersKnown, OwnersKnown', NEW i \in Ids, NEW o \in Callers \union {None},
           \A c \in Callers, j \in Ids : Owns(c, j)' <=> IF j = i THEN c = o ELSE Owns(c, j)
    PROVE  owners' = [owners EXCEPT ![i] = o]
<1>1. \A j \in Ids : owners'[j] = IF j = i THEN o ELSE owners[j]
  BY CallersAssumption DEF OwnersKnown
<1> QED
  BY <1>1 DEF owners

LEMMA MutexInit == Init => Mutex!Init
  BY DEF Init, Mutex!Init, OwnerOf, Mutex!Ids, Ids

LEMMA MutexStep ==
    ASSUME IInv, IInv', OwnersKnown, OwnersKnown', [Next]_vars
    PROVE  [Mutex!Next]_(Mutex!vars)
<1> SUFFICES \/ Mutex!Next
             \/ UNCHANGED <<rows, lastId, owners>>
  BY DEF Mutex!vars, owners
<1>0. /\ TypeOK /\ Registered /\ Held /\ Allocated
      /\ None \notin Callers /\ None \notin Locks
  BY CallersAssumption, LocksAssumption DEF IInv
\* A row is inserted: nobody's.
<1>1. CASE CreateCollection
  <2>1. /\ lastId < MaxIds /\ lastId' = lastId + 1 /\ rows' = rows \union {lastId + 1}
        /\ stage' = stage
    BY <1>1 DEF CreateCollection
  <2>2. owners' = owners
    BY <2>1, SameOwners DEF Owns
  <2> QED BY <2>1, <2>2 DEF Mutex!Next, Mutex!Create, owners
\* An empty gate is taken.
<1>2. ASSUME NEW c \in Callers, NEW i \in Ids, Enter(c, i) PROVE Mutex!Next
  <2>1. i <= lastId /\ UNCHANGED <<rows, lastId>>
    BY <1>0, <1>2 DEF Enter, Allocated
  <2>2. \A d \in Callers : ~Owns(d, i)
    <3> SUFFICES ASSUME NEW d \in Callers, Owns(d, i) PROVE FALSE
      OBVIOUS
    <3>1. mine[c][i] \in Locks /\ locks[i] = mine[c][i] /\ gate[mine[c][i]] = None
      BY <1>0, <1>2 DEF Enter, TypeOK, Registered, Counted
    <3>2. stage[d][i] = "holding" => mine[d][i] = locks[i] /\ gate[mine[d][i]] = d
      BY <1>0 DEF Registered, Counted, Held
    <3> QED BY <1>0, <3>1, <3>2 DEF Owns
  <2>3. stage' = [stage EXCEPT ![c][i] = "holding"]
    BY <1>2 DEF Enter, To
  <2>4. \A d \in Callers, j \in Ids : Owns(d, j)' <=> IF j = i THEN d = c ELSE Owns(d, j)
    BY <1>0, <2>2, <2>3 DEF Owns, TypeOK
  <2>5. owners' = [owners EXCEPT ![i] = c] /\ owners[i] = None
    BY <2>2, <2>4, OwnerMoves DEF OwnersKnown
  <2>6. Mutex!Acquire(c, i)
    BY <2>1, <2>5 DEF Mutex!Acquire, owners
  <2> QED BY <2>6 DEF Mutex!Next, Mutex!Ids, Ids
\* A gate goes back, or on to the first in line.
<1>3. ASSUME NEW c \in Callers, NEW i \in Ids, stage[c][i] = "holding", Empty(c, i)
      PROVE  Mutex!Next
  <2>1. UNCHANGED <<rows, lastId>>
    BY <1>3 DEF Empty
  <2>2. owners[i] = c /\ \A d \in Callers : Owns(d, i) <=> d = c
    BY <1>3 DEF OwnersKnown, Owns
  <2> DEFINE l == mine[c][i]
  <2>3. l \in Locks
    BY <1>0, <1>3 DEF Registered, Counted, TypeOK
  <2> DEFINE o == gate'[l]
  <2>4. o \in Callers \union {None}
    BY <2>3 DEF IInv, TypeOK
  <2>5. o # c
    <3> SUFFICES ASSUME o = c PROVE FALSE
      OBVIOUS
    <3>1. line[l] # <<>> /\ Head(line[l]) = c
      BY <1>0, <1>3, <2>3 DEF Empty, PassGate, TypeOK
    <3>2. line[l] \in Seq(Callers)
      BY <1>0, <2>3 DEF TypeOK
    <3> HIDE DEF l
    <3>3. 1 \in 1..Len(line[l]) /\ line[l][1] = c
      BY <3>1, <3>2, EmptySeq
    <3>4. PICK j \in Ids : stage[c][j] = "waiting" /\ mine[c][j] = l
      BY <3>3, <2>3 DEF IInv, InLine
    <3>5. j = i
      BY <3>4, <1>0, <1>3, <2>3 DEF Registered, Counted, l
    <3> QED BY <3>4, <3>5, <1>3
  <2>6. stage' = [d \in Callers |->
                    IF d = c THEN [stage[c] EXCEPT ![i] = "emptied"]
                    ELSE IF d = o THEN [stage[d] EXCEPT ![i] = "holding"]
                    ELSE stage[d]]
    BY <1>3 DEF Empty
  <2> HIDE DEF o, l
  <2>7. \A d \in Callers, j \in Ids : Owns(d, j)' <=> IF j = i THEN d = o ELSE Owns(d, j)
    BY <1>0, <2>2, <2>5, <2>6 DEF Owns, TypeOK
  <2>8. owners' = [owners EXCEPT ![i] = o]
    BY <2>4, <2>7, OwnerMoves
  <2>9. CASE o = None
    <3>1. Mutex!Release(c, i)
      BY <2>1, <2>2, <2>8, <2>9 DEF Mutex!Release, owners
    <3> QED BY <3>1 DEF Mutex!Next, Mutex!Ids, Ids
  <2>10. CASE o \in Callers
    <3>1. Mutex!HandOver(c, o, i)
      BY <2>1, <2>2, <2>8 DEF Mutex!HandOver, owners
    <3> QED BY <3>1, <2>10 DEF Mutex!Next, Mutex!Ids, Ids
  <2> QED BY <2>4, <2>9, <2>10
\* A row is removed by its owner.
<1>4. ASSUME NEW c \in Requests, NEW i \in Ids, RemoveRow(c, i) PROVE Mutex!Next
  <2>1. c \in Callers /\ rows' = rows \ {i} /\ UNCHANGED <<lastId, stage>>
    BY <1>4 DEF RemoveRow, Callers
  <2>2. owners[i] = c
    BY <1>4, <2>1 DEF RemoveRow, OwnersKnown, Owns
  <2>3. owners' = owners
    BY <2>1, SameOwners DEF Owns
  <2>4. Mutex!Remove(c, i)
    BY <2>1, <2>2, <2>3 DEF Mutex!Remove, owners
  <2> QED BY <2>1, <2>4 DEF Mutex!Next, Mutex!Ids, Ids
\* Everything else moves no ownership.
<1>5. ASSUME NEW c \in Callers, NEW i \in Ids, NEW s, NEW t, stage[c][i] = s,
             stage' = [stage EXCEPT ![c][i] = t], UNCHANGED <<rows, lastId>>,
             s = "holding" <=> t = "holding"
      PROVE  UNCHANGED <<rows, lastId, owners>>
  <2>1. \A d \in Callers, j \in Ids : Owns(d, j)' <=> Owns(d, j)
    BY <1>0, <1>5 DEF Owns, TypeOK
  <2> QED BY <1>5, <2>1, SameOwners
<1>6. ASSUME NEW c \in Requests, NEW i \in Ids,
             \/ FindRow(c, i) \/ RequestRetain(c, i)
             \/ Wait(c, i) \/ WaitCancelled(c, i)
      PROVE  UNCHANGED <<rows, lastId, owners>>
  <2>1. c \in Callers
    BY DEF Callers
  <2>3. CASE FindRow(c, i)
    <3>1. /\ stage[c][i] = "idle" /\ UNCHANGED <<rows, lastId>>
          /\ stage' = [stage EXCEPT ![c][i] = "found"]
      BY <2>3 DEF FindRow, Idle, To
    <3> QED BY <2>1, <3>1, <1>5
  <2>4. CASE RequestRetain(c, i)
    BY <2>1, <2>4, <1>5 DEF RequestRetain, Retain, To
  <2>5. CASE Wait(c, i)
    BY <2>1, <2>5, <1>5 DEF Wait, To
  <2>6. CASE WaitCancelled(c, i)
    BY <2>1, <2>6, <1>5 DEF WaitCancelled, To
  <2> QED BY <1>6, <2>3, <2>4, <2>5, <2>6
<1>7. ASSUME NEW c \in Callers, NEW i \in Ids, TryFails(c, i) \/ Drop(c, i)
      PROVE  UNCHANGED <<rows, lastId, owners>>
  <2>1. CASE TryFails(c, i)
    BY <2>1, <1>5 DEF TryFails, To
  <2>2. CASE Drop(c, i)
    BY <2>2, <1>5 DEF Drop, To
  <2> QED BY <1>7, <2>1, <2>2
<1>8. ASSUME NEW i \in Ids, SweepTry(i) PROVE UNCHANGED <<rows, lastId, owners>>
  <2>1. Sweeper \in Callers /\ stage[Sweeper][i] = "idle"
    BY <1>8 DEF SweepTry, IInv, Untouched, Callers
  <2> QED BY <2>1, <1>5, <1>8 DEF SweepTry, Retain, To
<1>9. ASSUME SweepList \/ UNCHANGED vars PROVE UNCHANGED <<rows, lastId, owners>>
  <2>1. UNCHANGED <<rows, lastId, stage>>
    BY <1>9 DEF SweepList, vars
  <2> QED BY <2>1, SameOwners DEF Owns
<1>10. ASSUME NEW c \in Requests, NEW i \in Ids, RequestRelease(c, i) PROVE Mutex!Next
  BY <1>3, <1>10 DEF RequestRelease, Callers
<1>11. ASSUME NEW i \in Ids, SweepSkips(i) \/ SweepReleases(i) PROVE Mutex!Next
  BY <1>3, <1>11 DEF SweepSkips, SweepReleases, Callers
<1> QED
  BY <1>1, <1>2, <1>4, <1>6, <1>7, <1>8, <1>9, <1>10, <1>11 DEF Next, Finish

(* The gates, their counts and the entries that come and go implement the   *)
(* plain lock of a subscription: every step is a step of KeyedMutex or      *)
(* invisible to it, so what follows from one owner at a time, of rows that  *)
(* exist or existed, and from rows only their owner removes holds of the    *)
(* code (lockExistingSubscription, lockSubscription,                        *)
(* releaseSubscriptionLock, DeleteSubscription).                            *)
THEOREM LocksAreAMutex == Spec => ImplementsMutex
<1>1. Init => Mutex!Init
  BY MutexInit
<1>2. IInv => OwnersKnown
  BY OwnersAreKnown
<1>3. IInv /\ IInv' /\ OwnersKnown /\ OwnersKnown' /\ [Next]_vars => [Mutex!Next]_(Mutex!vars)
  BY MutexStep
<1> QED
  BY <1>1, <1>2, <1>3, InductiveInvariant, PTL DEF Spec, ImplementsMutex, Mutex!Spec
=============================================================================
