--------------------------- MODULE SingBoxQuotaProofs ---------------------------
(***************************************************************************)
(* That the usage of a sing-box user is what it has carried while its      *)
(* rules are there, and how far it may be off once some were lost, for any *)
(* number of operators, bytes, days, losses and restarts, however late     *)
(* whole rows are written back.                                            *)
(***************************************************************************)
EXTENDS SingBoxQuota, TLAPS

(* What a counter that shows c adds to a row whose last reading was raw.   *)
Grown(raw, c) == IF raw = 0 \/ c < raw THEN c ELSE c - raw

(* The rows somebody may write: the one in the database, those in hand and *)
(* the row of a user that has carried nothing.                             *)
Known == {row, NoRow} \union {job[a].row : a \in Actors}

(* A reading was taken and is not recorded yet. *)
InHand == job[Collector].at \in {"status", "record"}
Seen == job[Collector].seen

(* Until the rules are lost, the counter has everything. *)
CounterKnows ==
    /\ counter <= carried
    /\ ~flushed => rules /\ counter = carried

(* What a row says was used and what the next reading would add to it were *)
(* carried, or shown by rules that survived a loss of others; with a       *)
(* reading in hand, so were what that adds and what the counter has shown  *)
(* since.                                                                  *)
Counted(u) == u.used + Grown(u.raw, counter) <= carried + kept
CountedInHand(u) == u.used + Grown(u.raw, Seen) + Grown(Seen, counter) <= carried + kept

NothingTwice ==
    /\ \A u \in Known : ~u.cleared => Counted(u)
    /\ InHand => \A u \in Known : ~u.cleared => CountedInHand(u)

(* What a row says was used is what its last reading had shown since its   *)
(* period began; readings only go up.                                      *)
Balanced(u) == u.used + u.since = u.raw /\ u.raw <= counter

NothingLost ==
    ~flushed => /\ \A u \in Known : ~u.cleared => Balanced(u)
                /\ InHand => /\ Seen <= counter
                             /\ \A u \in Known : ~u.cleared => u.raw <= Seen

Ledger == CounterKnows /\ NothingTwice /\ NothingLost

(* The inductive invariant. *)
IInv == TypeOK /\ Ledger

-----------------------------------------------------------------------------
(* What the steps do to rows and jobs *)

Wishes == [base : Quotas \union {0}, days : Periods, expires : Nat, on : BOOLEAN]
Jobs == [at : Phases, op : Ops \union {"none", "on", "off"}, row : Rows, wish : Wishes,
         seen : Bytes]

(* A row that is written came from one that was known: its account is      *)
(* unchanged, or its period was ended, or an operator has cleared it.      *)
Derived(v, u) ==
    \/ v.cleared /\ (u.cleared \/ "reset" \in Ops)
    \/ /\ v.cleared = u.cleared /\ v.raw = u.raw
       /\ \/ v.used = u.used /\ v.since = u.since
          \/ v.used = 0 /\ v.since = u.raw
Origin(v) == v \in Rows /\ \E u \in Known : Derived(v, u)

(* One actor moves on; nobody takes or records a reading. *)
Moves(a, j) ==
    /\ job' = [job EXCEPT ![a] = j] /\ j \in Jobs
    /\ Origin(row') /\ Origin(j.row)
    /\ a = Collector /\ j.at \in {"status", "record"} => InHand /\ j.seen = Seen
    /\ UNCHANGED kernel

LEMMA Shapes ==
    /\ 0 \in Bytes /\ Bytes \subseteq Nat
    /\ NoRow \in Rows /\ \A q \in Quotas : NewRow(q) \in Rows
    /\ NoRow = NewRow(0)
    /\ Blank \in Jobs /\ Blank.at = "idle" /\ Blank.row = NoRow
    /\ NoWish \in Wishes
    /\ \A q \in {0} \union Quotas :
          /\ NewRow(q).used = 0 /\ NewRow(q).raw = 0
          /\ NewRow(q).since = 0 /\ NewRow(q).cleared = FALSE
<1>1. 0 \in Bytes /\ Bytes \subseteq Nat
  BY BoundsAssumption DEF Bytes
<1>2. \A q \in {0} \union Quotas : NewRow(q) \in Rows
  BY <1>1, BoundsAssumption DEF NewRow, Rows, Statuses, Never
<1>w. NoWish \in Wishes
  BY BoundsAssumption DEF NoWish, Wishes, Never
<1>r. NoRow = NewRow(0) /\ NoRow \in Rows
  BY <1>2 DEF NoRow
<1>3. Blank \in Jobs
  <2>1. "idle" \in Phases
    BY DEF Phases
  <2> QED BY <1>1, <1>r, <1>w, <2>1 DEF Blank, Jobs
<1>4. Blank.at = "idle" /\ Blank.row = NoRow
  BY DEF Blank
<1>5. \A q \in {0} \union Quotas :
          /\ NewRow(q).used = 0 /\ NewRow(q).raw = 0
          /\ NewRow(q).since = 0 /\ NewRow(q).cleared = FALSE
  BY DEF NewRow
<1> QED
  BY <1>1, <1>2, <1>3, <1>4, <1>5, <1>r, <1>w

LEMMA KnownRows ==
    ASSUME TypeOK
    PROVE  /\ job \in [Actors -> Jobs] /\ row \in Rows /\ Collector \in Actors
           /\ \A u \in Known : u \in Rows /\ Origin(u)
           /\ row \in Known /\ NoRow \in Known
           /\ \A a \in Actors : job[a] \in Jobs /\ job[a].row \in Known
<1>1. job \in [Actors -> Jobs] /\ row \in Rows /\ Collector \in Actors
  BY DEF TypeOK, Jobs, Wishes, Actors
<1>2. \A a \in Actors : job[a] \in Jobs /\ job[a].row \in Known /\ job[a].row \in Rows
  BY <1>1 DEF Known, Jobs
<1>3. \A u \in Known : u \in Rows
  BY <1>1, <1>2, Shapes DEF Known
<1>4. \A u \in Known : Origin(u)
  BY <1>3 DEF Origin, Derived
<1> QED
  BY <1>1, <1>2, <1>3, <1>4 DEF Known

(* Changes of a row that leave its account alone. *)
LEMMA Unaccounted ==
    ASSUME TypeOK, NEW u \in Known, NEW v \in Rows,
           v.used = u.used, v.raw = u.raw, v.since = u.since, v.cleared = u.cleared
    PROVE  Origin(v)
  BY DEF Origin, Derived

(* Goto, Hold and Return, as moves of one actor. *)
LEMMA Gone ==
    ASSUME TypeOK, NEW a \in Actors, NEW p \in Phases, Goto(a, p), Origin(row'), UNCHANGED kernel,
           a = Collector /\ p \in {"status", "record"} => InHand
    PROVE  \E j : Moves(a, j)
<1> DEFINE j == [job[a] EXCEPT !.at = p]
<1>1. job' = [job EXCEPT ![a] = j]
  BY KnownRows DEF Goto
<1>2. j \in Jobs /\ j.at = p /\ j.row = job[a].row /\ j.seen = job[a].seen
  <2>1. job[a] \in Jobs
    BY KnownRows
  <2> QED BY <2>1 DEF Jobs
<1>3. Origin(j.row)
  BY <1>2, KnownRows
<1> HIDE DEF j
<1>4. Moves(a, j)
  BY <1>1, <1>2, <1>3 DEF Moves, Seen
<1> QED
  BY <1>4

LEMMA Held ==
    ASSUME TypeOK, NEW a \in Actors, NEW p \in Phases, NEW u, Hold(a, p, u), Origin(u),
           Origin(row'), UNCHANGED kernel,
           a = Collector /\ p \in {"status", "record"} => InHand
    PROVE  \E j : Moves(a, j)
<1> DEFINE j == [job[a] EXCEPT !.at = p, !.row = u]
<1>0. u \in Rows /\ job[a] \in Jobs
  BY KnownRows DEF Origin
<1>1. job' = [job EXCEPT ![a] = j]
  BY KnownRows DEF Hold
<1>2. j \in Jobs /\ j.at = p /\ j.row = u /\ j.seen = job[a].seen
  BY <1>0 DEF Jobs
<1> HIDE DEF j
<1>4. Moves(a, j)
  BY <1>1, <1>2 DEF Moves, Seen
<1> QED
  BY <1>4

LEMMA Returned ==
    ASSUME TypeOK, NEW a \in Actors, Return(a), Origin(row'), UNCHANGED kernel
    PROVE  \E j : Moves(a, j)
<1>1. Origin(Blank.row)
  BY Shapes, KnownRows
<1>2. Moves(a, Blank)
  BY <1>1, Shapes DEF Moves, Return
<1> QED
  BY <1>2

LEMMA Again ==
    ASSUME TypeOK, NEW a \in Actors, NEW o \in {"on", "off"},
           \/ job' = [job EXCEPT ![a].op = o, ![a].at = "begin"]
           \/ job' = [job EXCEPT ![a].at = "begin", ![a].op = o],
           Origin(row'), UNCHANGED kernel
    PROVE  \E j : Moves(a, j)
<1> DEFINE j == [job[a] EXCEPT !.op = o, !.at = "begin"]
           k == [job[a] EXCEPT !.at = "begin", !.op = o]
<1>0. "begin" \in Phases /\ job[a] \in Jobs
  BY KnownRows DEF Phases
<1>1. job' = [job EXCEPT ![a] = j] \/ job' = [job EXCEPT ![a] = k]
  BY KnownRows
<1>2. j \in Jobs /\ j.at = "begin" /\ j.row = job[a].row
      /\ k \in Jobs /\ k.at = "begin" /\ k.row = job[a].row
  BY <1>0 DEF Jobs
<1>3. Origin(j.row) /\ Origin(k.row)
  BY <1>2, KnownRows
<1> HIDE DEF j, k
<1>4. Moves(a, j) \/ Moves(a, k)
  BY <1>1, <1>2, <1>3 DEF Moves
<1> QED
  BY <1>4

LEMMA Commanded ==
    ASSUME TypeOK, NEW a \in Actors, NEW p, NEW to, NEW next \in Phases \ {"status", "record"},
           Command(a, p, to, next)
    PROVE  \E j : Moves(a, j)
<1>1. Origin(row') /\ UNCHANGED kernel
  BY KnownRows DEF Command
<1>2. Goto(a, next) \/ Return(a)
  BY DEF Command
<1> QED
  BY <1>1, <1>2, Gone, Returned

(* What is written of a row in hand. *)
LEMMA Reworded ==
    ASSUME TypeOK, NEW u \in Known
    PROVE  /\ \A s \in Statuses, on, paused \in BOOLEAN :
                 /\ Origin([u EXCEPT !.status = s])
                 /\ Origin([u EXCEPT !.enabled = on, !.status = s])
                 /\ Origin([u EXCEPT !.enabled = on, !.paused = paused, !.status = s])
           /\ \A b \in Quotas \union {0}, d \in Periods, e \in Nat :
                 Origin([u EXCEPT !.base = b, !.top = 0, !.days = d, !.expires = e])
           /\ \A e \in Nat : Origin([u EXCEPT !.expires = e])
           /\ Origin(TopUp(u)) /\ Origin(Rolled(u)) /\ ("reset" \in Ops => Origin(Reset(u)))
           /\ 1 < Quota(u) => Origin(Reduce(u))
<1>1. u \in Rows
  BY KnownRows
<1>f. /\ u.top \in Nat /\ u.used \in Nat /\ u.raw \in Bytes /\ u.since \in Bytes
      /\ u.base \in Quotas \union Nat /\ u.base \in Nat /\ u.cleared \in BOOLEAN
  BY <1>1, BoundsAssumption DEF Rows
<1>2. ASSUME NEW s \in Statuses, NEW on \in BOOLEAN, NEW paused \in BOOLEAN
      PROVE  /\ Origin([u EXCEPT !.status = s])
             /\ Origin([u EXCEPT !.enabled = on, !.status = s])
             /\ Origin([u EXCEPT !.enabled = on, !.paused = paused, !.status = s])
  <2>1. /\ [u EXCEPT !.status = s] \in Rows
        /\ [u EXCEPT !.enabled = on, !.status = s] \in Rows
        /\ [u EXCEPT !.enabled = on, !.paused = paused, !.status = s] \in Rows
    BY <1>1 DEF Rows
  <2> QED BY <1>1, <2>1 DEF Origin, Derived, Rows
<1>3. ASSUME NEW b \in Quotas \union {0}, NEW d \in Periods, NEW e \in Nat
      PROVE  Origin([u EXCEPT !.base = b, !.top = 0, !.days = d, !.expires = e])
  <2> DEFINE v == [u EXCEPT !.base = b, !.top = 0, !.days = d, !.expires = e]
  <2>2. b \in Quotas \union Nat
    OBVIOUS
  <2>3. v \in Rows
    BY <1>1, <2>2 DEF Rows
  <2>4. v.used = u.used /\ v.raw = u.raw /\ v.since = u.since /\ v.cleared = u.cleared
    BY <1>1 DEF Rows
  <2> HIDE DEF v
  <2>5. Origin(v)
    BY <2>3, <2>4, Unaccounted
  <2> QED BY <2>5 DEF v
<1>e. ASSUME NEW e \in Nat PROVE Origin([u EXCEPT !.expires = e])
  <2>1. [u EXCEPT !.expires = e] \in Rows
    BY <1>1 DEF Rows
  <2> QED BY <1>1, <2>1 DEF Origin, Derived, Rows
<1>4. Origin(TopUp(u))
  <2>1. TopUp(u) \in Rows
    BY <1>1 DEF Rows, TopUp
  <2> QED BY <1>1, <2>1 DEF Origin, Derived, Rows, TopUp
<1>5. ASSUME "reset" \in Ops PROVE Origin(Reset(u))
  <2>1. Reset(u) \in Rows
    BY <1>1, <1>f, Shapes DEF Rows, Reset
  <2>2. Reset(u).cleared
    BY <1>1 DEF Rows, Reset
  <2> QED BY <1>5, <2>1, <2>2 DEF Origin, Derived
<1>6. Origin(Rolled(u))
  <2> DEFINE s == u.started + u.days * ((clock - u.started) \div u.days)
  <2>1. s \in Int
    <3>0. u.started \in Int /\ u.days \in Periods
      BY <1>1 DEF Rows
    <3>5. clock \in Int
      BY BoundsAssumption DEF TypeOK
    <3>6. u.days \in Nat \ {0}
      BY <3>0, BoundsAssumption, Zenon
    <3>1. clock - u.started \in Int /\ u.days \in Nat \ {0}
      BY <3>0, <3>5, <3>6
    <3> DEFINE n == (clock - u.started) \div u.days
    <3>2. n \in Int
      BY <3>1
    <3> HIDE DEF n
    <3>3. u.days * n \in Int /\ u.started \in Int
      BY <1>1, <3>1, <3>2 DEF Rows
    <3>4. u.started + u.days * n \in Int
      BY <3>3
    <3> QED BY <3>4 DEF n
  <2>2. Rolled(u) = [u EXCEPT !.top = 0, !.used = 0, !.paused = FALSE, !.since = u.raw, !.started = s]
    BY <1>1 DEF Rolled, Rows
  <2> HIDE DEF s
  <2>3. Rolled(u) \in Rows
    <3> DEFINE v == [u EXCEPT !.top = 0, !.used = 0, !.paused = FALSE]
    <3>1. v \in Rows
      BY <1>1 DEF Rows
    <3>2. Rolled(u) = [v EXCEPT !.since = u.raw, !.started = s]
      BY <1>1, <2>2 DEF Rows
    <3> HIDE DEF v
    <3> QED BY <1>f, <2>1, <3>1, <3>2 DEF Rows
  <2>4. /\ Rolled(u).cleared = u.cleared /\ Rolled(u).raw = u.raw
        /\ Rolled(u).used = 0 /\ Rolled(u).since = u.raw
    BY <1>1, <2>2 DEF Rows
  <2> QED BY <2>3, <2>4 DEF Origin, Derived
<1>7. ASSUME 1 < Quota(u) PROVE Origin(Reduce(u))
  <2> DEFINE t == IF u.top > 0 THEN u.top - 1 ELSE 0
             b == IF u.top > 0 THEN u.base ELSE u.base - 1
  <2>1. t \in Nat /\ b \in Quotas \union Nat
    <3>1. u.top > 0 => t \in Nat /\ b = u.base
      BY <1>f
    <3>2. ~(u.top > 0) => t = 0 /\ u.base - 1 \in Nat /\ b = u.base - 1
      BY <1>f, <1>7 DEF Quota
    <3> HIDE DEF t, b
    <3> QED BY <1>f, <3>1, <3>2
  <2> DEFINE left == [u EXCEPT !.top = t, !.base = b]
  <2>2. Reduce(u) = [left EXCEPT !.paused = Spent(left)]
    BY <1>1 DEF Reduce, Rows
  <2>3. left \in Rows /\ left.used = u.used /\ left.raw = u.raw /\ left.since = u.since
        /\ left.cleared = u.cleared
    <3> HIDE DEF t, b
    <3> QED BY <1>1, <2>1 DEF Rows
  <2>4. Spent(left) \in BOOLEAN
    BY DEF Spent
  <2> HIDE DEF left
  <2>5. Reduce(u) \in Rows /\ Reduce(u).used = u.used /\ Reduce(u).raw = u.raw
        /\ Reduce(u).since = u.since /\ Reduce(u).cleared = u.cleared
    BY <2>2, <2>3, <2>4 DEF Rows
  <2> QED BY <2>5, Unaccounted
<1> QED
  BY <1>2, <1>3, <1>e, <1>4, <1>5, <1>6, <1>7

LEMMA OperatorsMove ==
    ASSUME TypeOK, NEW r \in Requests, Ask(r) \/ Operate(r)
    PROVE  \E j : Moves(r, j)
<1>0. /\ r \in Actors /\ r # Collector /\ job[r] \in Jobs /\ job[r].row \in Known
      /\ row \in Known /\ Origin(row) /\ Origin(job[r].row)
  BY KnownRows, ActorsAssumption DEF Actors
<1>p. {"begin", "columns", "reduce", "reread", "start", "stop", "write", "edit", "restart", "saved",
       "unreached", "quotastop", "quotawrite"} \subseteq Phases \ {"status", "record"}
  BY DEF Phases
<1>s. "presence" \in Statuses /\ "exhausted" \in Statuses
  BY DEF Statuses
<1>w. job[r].wish.base \in Quotas \union {0} /\ job[r].wish.expires \in Nat
      /\ job[r].wish.days \in Periods
  BY <1>0 DEF Jobs, Wishes
<1>1. CASE Ask(r)
  <2>1. row' = row /\ UNCHANGED kernel
    BY <1>1 DEF Ask
  <2>2. \E j \in Jobs : job' = [job EXCEPT ![r] = j] /\ j.row = Blank.row
    <3>1. PICK op \in Ops :
            \/ \E w \in Edits :
                  job' = [job EXCEPT ![r] = [Blank EXCEPT !.at = "begin", !.op = op,
                      !.wish = [base |-> w.base, days |-> w.days, on |-> w.on,
                                expires |-> IF w.life = 0 THEN Never ELSE clock + w.life]]]
            \/ \E e \in {Never, clock + 1} :
                  job' = [job EXCEPT ![r] = [Blank EXCEPT !.at = "begin", !.op = op,
                                 !.wish = [NoWish EXCEPT !.expires = e]]]
            \/ job' = [job EXCEPT ![r] = [Blank EXCEPT !.op = op,
                            !.at = IF op \in {"on", "off"} THEN "begin" ELSE "columns"]]
      <4>1. \E op \in Ops :
              \/ /\ op = "edit"
                 /\ \E w \in Edits :
                      job' = [job EXCEPT ![r] = [Blank EXCEPT !.at = "begin", !.op = op,
                          !.wish = [base |-> w.base, days |-> w.days, on |-> w.on,
                                    expires |-> IF w.life = 0 THEN Never ELSE clock + w.life]]]
              \/ /\ op = "expiry"
                 /\ \E e \in {Never, clock + 1} :
                      job' = [job EXCEPT ![r] = [Blank EXCEPT !.at = "begin", !.op = op,
                                     !.wish = [NoWish EXCEPT !.expires = e]]]
              \/ /\ op \notin {"edit", "expiry"}
                 /\ job' = [job EXCEPT ![r] = [Blank EXCEPT !.op = op,
                                  !.at = IF op \in {"on", "off"} THEN "begin" ELSE "columns"]]
        BY <1>1 DEF Ask
      <4> QED BY <4>1, Zenon
    <3>2. Never \in Nat /\ clock + 1 \in Nat /\ clock \in Nat
      BY BoundsAssumption DEF TypeOK, Never
    <3>3. ASSUME NEW w \in Wishes
          PROVE  LET j == [Blank EXCEPT !.at = "begin", !.op = op, !.wish = w]
                 IN j \in Jobs /\ j.row = Blank.row
      BY <1>p, Shapes DEF Jobs
    <3>4. ASSUME NEW at \in {"begin", "columns"}
          PROVE  LET j == [Blank EXCEPT !.op = op, !.at = at]
                 IN j \in Jobs /\ j.row = Blank.row
      BY <1>p, Shapes DEF Jobs
    <3>5. CASE \E w \in Edits :
                  job' = [job EXCEPT ![r] = [Blank EXCEPT !.at = "begin", !.op = op,
                      !.wish = [base |-> w.base, days |-> w.days, on |-> w.on,
                                expires |-> IF w.life = 0 THEN Never ELSE clock + w.life]]]
      <4>1. PICK w \in Edits :
                  job' = [job EXCEPT ![r] = [Blank EXCEPT !.at = "begin", !.op = op,
                      !.wish = [base |-> w.base, days |-> w.days, on |-> w.on,
                                expires |-> IF w.life = 0 THEN Never ELSE clock + w.life]]]
        BY <3>5
      <4> DEFINE e == IF w.life = 0 THEN Never ELSE clock + w.life
                 x == [base |-> w.base, days |-> w.days, on |-> w.on, expires |-> e]
                 j == [Blank EXCEPT !.at = "begin", !.op = op, !.wish = x]
      <4>2. w \in [base : Quotas, days : Periods, life : Nat, on : BOOLEAN]
        BY EditsAssumption
      <4>3. e \in Nat
        BY <3>2, <4>2
      <4>4. job' = [job EXCEPT ![r] = j]
        BY <4>1
      <4> HIDE DEF e
      <4>5. x \in Wishes
        BY <4>2, <4>3 DEF Wishes
      <4> HIDE DEF x
      <4>6. j \in Jobs /\ j.row = Blank.row
        BY <3>3, <4>5
      <4> QED BY <4>4, <4>6
    <3>6. CASE \E e \in {Never, clock + 1} :
                  job' = [job EXCEPT ![r] = [Blank EXCEPT !.at = "begin", !.op = op,
                                 !.wish = [NoWish EXCEPT !.expires = e]]]
      <4>1. PICK e \in {Never, clock + 1} :
                  job' = [job EXCEPT ![r] = [Blank EXCEPT !.at = "begin", !.op = op,
                                 !.wish = [NoWish EXCEPT !.expires = e]]]
        BY <3>6
      <4> DEFINE x == [NoWish EXCEPT !.expires = e]
                 j == [Blank EXCEPT !.at = "begin", !.op = op, !.wish = x]
      <4>2. x \in Wishes
        BY <3>2, Shapes DEF Wishes
      <4>3. job' = [job EXCEPT ![r] = j]
        BY <4>1
      <4> HIDE DEF x
      <4>4. j \in Jobs /\ j.row = Blank.row
        BY <3>3, <4>2
      <4> QED BY <4>3, <4>4
    <3>7. CASE job' = [job EXCEPT ![r] = [Blank EXCEPT !.op = op,
                            !.at = IF op \in {"on", "off"} THEN "begin" ELSE "columns"]]
      <4> DEFINE at == IF op \in {"on", "off"} THEN "begin" ELSE "columns"
                 j == [Blank EXCEPT !.op = op, !.at = at]
      <4>1. at \in {"begin", "columns"}
        OBVIOUS
      <4>2. job' = [job EXCEPT ![r] = j]
        BY <3>7
      <4> HIDE DEF at
      <4>3. j \in Jobs /\ j.row = Blank.row
        BY <3>4, <4>1
      <4> QED BY <4>2, <4>3
    <3> QED BY <3>1, <3>5, <3>6, <3>7
  <2>3. Origin(Blank.row)
    BY Shapes, KnownRows
  <2> QED BY <1>0, <2>1, <2>2, <2>3 DEF Moves
<1>2. CASE Switch(r)
  <2>1. row' = row /\ UNCHANGED kernel
    BY <1>2 DEF Switch
  <2>2. Return(r) \/ \E p \in {"start", "stop"} : Hold(r, p, row)
    BY <1>2 DEF Switch
  <2> QED BY <1>0, <1>p, <2>1, <2>2, Returned, Held
<1>3. CASE Start(r) \/ Stop(r) \/ QuotaStop(r)
  BY <1>0, <1>3, <1>p, Commanded DEF Start, Stop, QuotaStop
<1>4. CASE SwitchWrite(r) \/ QuotaWrite(r)
  <2>1. Return(r) /\ UNCHANGED kernel
    BY <1>4 DEF SwitchWrite, QuotaWrite
  <2>2. Origin(row')
    <3>1. \E on, paused \in BOOLEAN, s \in Statuses :
             \/ row' = [job[r].row EXCEPT !.enabled = on, !.status = s]
             \/ row' = [job[r].row EXCEPT !.enabled = on, !.paused = paused, !.status = s]
      BY <1>4, <1>s DEF SwitchWrite, QuotaWrite, Save
    <3>2. PICK on \in BOOLEAN, paused \in BOOLEAN, s \in Statuses :
             \/ row' = [job[r].row EXCEPT !.enabled = on, !.status = s]
             \/ row' = [job[r].row EXCEPT !.enabled = on, !.paused = paused, !.status = s]
      BY <3>1
    <3>3. /\ Origin([job[r].row EXCEPT !.enabled = on, !.status = s])
          /\ Origin([job[r].row EXCEPT !.enabled = on, !.paused = paused, !.status = s])
      BY <1>0, Reworded
    <3> QED BY <3>2, <3>3
  <2> QED BY <1>0, <2>1, <2>2, Returned
<1>5. CASE Columns(r)
  <2>1. UNCHANGED kernel
    BY <1>5 DEF Columns
  <2>2. \/ Goto(r, "reread") \/ Return(r)
        \/ job' = [job EXCEPT ![r].op = "on", ![r].at = "begin"]
        \/ Hold(r, "reduce", Reduce(row)) /\ ~(1 >= Quota(row))
    BY <1>5 DEF Columns
  <2>3. row' = row \/ row' = TopUp(row) \/ (row' = Reset(row) /\ job[r].op = "reset")
    BY <1>5 DEF Columns
  <2>7. job[r].op = "reset" => "reset" \in Ops
    BY <1>0 DEF Jobs
  <2>4. Quota(row) \in Nat
    <3>1. row.base \in Nat /\ row.top \in Nat
      <4>1. row \in Rows
        BY KnownRows
      <4> QED BY <4>1, BoundsAssumption DEF Rows
    <3> QED BY <3>1 DEF Quota
  <2>5. ~(1 >= Quota(row)) => 1 < Quota(row)
    BY <2>4
  <2>6. Origin(row') /\ (~(1 >= Quota(row)) => Origin(Reduce(row)))
    <3>1. /\ Origin(TopUp(row)) /\ ("reset" \in Ops => Origin(Reset(row)))
          /\ 1 < Quota(row) => Origin(Reduce(row))
      BY <1>0, Reworded
    <3> QED BY <1>0, <2>3, <2>5, <2>7, <3>1
  <2> QED BY <1>0, <1>p, <2>1, <2>2, <2>6, Gone, Returned, Again, Held
<1>13. CASE ReduceWrite(r)
  <2> DEFINE u == job[r].row
             v == [row EXCEPT !.base = u.base, !.top = u.top, !.paused = u.paused]
  <2>1. row' = v /\ UNCHANGED kernel /\ Hold(r, "reread", NoRow)
    BY <1>13 DEF ReduceWrite
  <2>2. u \in Rows /\ row \in Rows
    BY <1>0, KnownRows
  <2>3. u.base \in Quotas \union Nat /\ u.top \in Nat /\ u.paused \in BOOLEAN
    BY <2>2 DEF Rows
  <2> HIDE DEF u
  <2>4. v \in Rows
    BY <2>2, <2>3 DEF Rows
  <2>5. v.used = row.used /\ v.raw = row.raw /\ v.since = row.since /\ v.cleared = row.cleared
    BY <2>2 DEF Rows
  <2> HIDE DEF v
  <2>6. Origin(v) /\ Origin(NoRow)
    BY <1>0, <2>4, <2>5, Unaccounted, KnownRows
  <2> QED BY <1>0, <1>p, <2>1, <2>6, Held
<1>6. CASE Reread(r)
  <2>1. row' = row /\ UNCHANGED kernel
    BY <1>6 DEF Reread
  <2>2. \/ job' = [job EXCEPT ![r].op = "on", ![r].at = "begin"]
        \/ Hold(r, "quotastop", row) \/ Return(r)
    BY <1>6 DEF Reread
  <2> QED BY <1>0, <1>p, <2>1, <2>2, Held, Returned, Again
<1>7. CASE EditRead(r)
  <2> DEFINE u == [row EXCEPT !.base = job[r].wish.base, !.top = 0, !.days = job[r].wish.days,
                              !.expires = job[r].wish.expires]
  <2>1. row' = row /\ UNCHANGED kernel /\ (Return(r) \/ Hold(r, "edit", u))
    BY <1>7 DEF EditRead
  <2>2. Origin(u)
    BY <1>0, <1>w, Reworded
  <2> HIDE DEF u
  <2> QED BY <1>0, <1>p, <2>1, <2>2, Held, Returned
<1>8. CASE EditWrite(r)
  <2>1. row' = job[r].row /\ UNCHANGED kernel /\ Goto(r, "restart")
    BY <1>8 DEF EditWrite, Save
  <2> QED BY <1>0, <1>p, <2>1, Gone
<1>9. CASE EditRestart(r)
  <2>1. row' = row /\ UNCHANGED kernel /\ \E p \in {"saved", "unreached"} : Goto(r, p)
    BY <1>9 DEF EditRestart
  <2> QED BY <1>0, <1>p, <2>1, Gone
<1>10. CASE EditSaved(r)
  <2>1. (row' = job[r].row \/ row' = row) /\ UNCHANGED kernel
    BY <1>10 DEF EditSaved, Save
  <2>2. Return(r) \/ \E o \in {"on", "off"} :
                        job' = [job EXCEPT ![r].at = "begin", ![r].op = o]
    BY <1>10 DEF EditSaved
  <2> QED BY <1>0, <1>p, <2>1, <2>2, Returned, Again
<1>11. CASE ExpiryRead(r)
  <2> DEFINE u == [row EXCEPT !.expires = job[r].wish.expires]
  <2>1. row' = row /\ UNCHANGED kernel /\ (Return(r) \/ \E p \in {"write", "start"} : Hold(r, p, u))
    BY <1>11 DEF ExpiryRead
  <2>2. Origin(u)
    BY <1>0, <1>w, Reworded
  <2> HIDE DEF u
  <2> QED BY <1>0, <1>p, <2>1, <2>2, Held, Returned
<1>12. CASE ExpiryWrite(r)
  <2>1. UNCHANGED kernel /\ Return(r)
        /\ (row' = job[r].row \/ row' = [job[r].row EXCEPT !.enabled = TRUE, !.status = "presence"])
    BY <1>12 DEF ExpiryWrite, Save
  <2> DEFINE u == [job[r].row EXCEPT !.enabled = TRUE, !.status = "presence"]
  <2>2. Origin(u)
    BY <1>0, <1>s, Reworded
  <2> HIDE DEF u
  <2>3. Origin(row')
    BY <1>0, <2>1, <2>2 DEF u
  <2> QED BY <1>0, <2>1, <2>3, Returned
<1> QED
  BY <1>1, <1>2, <1>3, <1>4, <1>5, <1>6, <1>7, <1>8, <1>9, <1>10, <1>11, <1>12, <1>13 DEF Operate

LEMMA LoopsMove ==
    ASSUME TypeOK, Round \/ Presence, ~ReadCounters, ~RecordRead
    PROVE  \E a \in Actors : \E j : Moves(a, j)
<1>0. /\ Collector \in Actors /\ Sampler \in Actors /\ row \in Known /\ Origin(row)
      /\ \A a \in Actors : job[a].row \in Known /\ Origin(job[a].row)
  BY KnownRows DEF Actors
<1>p. {"expirestop", "expirewrite", "roll", "counters", "resume", "resumed", "quotastop",
       "quotawrite", "probe"} \subseteq Phases \ {"status", "record"}
      /\ "record" \in Phases
  BY DEF Phases
<1>s. Statuses = {"presence", "exhausted", "expired"}
  BY DEF Statuses
<1>1. CASE Collect
  <2>1. row' = row /\ UNCHANGED kernel
    BY <1>1 DEF Collect
  <2>2. \E p \in {"expirestop", "expirewrite", "roll", "counters"} : Hold(Collector, p, row)
    BY <1>1 DEF Collect
  <2>3. PICK p \in {"expirestop", "expirewrite", "roll", "counters"} : Hold(Collector, p, row)
    BY <2>2
  <2>4. \E j : Moves(Collector, j)
    BY <1>0, <1>p, <2>1, <2>3, Held
  <2> QED BY <1>0, <2>4
<1>2. CASE ExpireStop \/ Resume \/ QuotaStop(Collector)
  BY <1>0, <1>p, <1>2, Commanded DEF ExpireStop, Resume, QuotaStop
<1>3. CASE ExpireWrite \/ QuotaWrite(Collector)
  <2>1. Return(Collector) /\ UNCHANGED kernel
        /\ \E s \in Statuses : row' = [job[Collector].row EXCEPT !.enabled = FALSE, !.status = s]
    BY <1>3, <1>s DEF ExpireWrite, QuotaWrite, Save
  <2>2. PICK s \in Statuses : row' = [job[Collector].row EXCEPT !.enabled = FALSE, !.status = s]
    BY <2>1
  <2>3. Origin(row')
    BY <1>0, <2>2, Reworded
  <2> QED BY <1>0, <2>1, <2>3, Returned
<1>4. CASE Roll
  <2> DEFINE u == job[Collector].row
  <2>1. row' = Rolled(u) /\ UNCHANGED kernel
        /\ \E p \in {"resume", "counters"} : Hold(Collector, p, Rolled(u))
    BY <1>4 DEF Roll, Save
  <2>2. Origin(Rolled(u))
    BY <1>0, Reworded
  <2> HIDE DEF u
  <2>3. PICK p \in {"resume", "counters"} : Hold(Collector, p, Rolled(u))
    BY <2>1
  <2>4. \E j : Moves(Collector, j)
    BY <1>0, <1>p, <2>1, <2>2, <2>3, Held
  <2> QED BY <1>0, <2>4
<1>5. CASE Resumed
  <2> DEFINE u == [job[Collector].row EXCEPT !.enabled = TRUE, !.status = "presence"]
  <2>1. row' = u /\ UNCHANGED kernel /\ Hold(Collector, "counters", u)
    BY <1>5 DEF Resumed, Save
  <2>2. Origin(u)
    BY <1>0, <1>s, Reworded
  <2> HIDE DEF u
  <2> QED BY <1>0, <1>p, <2>1, <2>2, Held
<1>6. CASE CollectStatus
  <2>1. Hold(Collector, "record", NoRow) /\ UNCHANGED kernel /\ InHand
        /\ (row' = row \/ row' = [job[Collector].row EXCEPT !.status = "presence"])
    BY <1>6 DEF CollectStatus, Save, InHand
  <2> DEFINE u == [job[Collector].row EXCEPT !.status = "presence"]
  <2>2. Origin(u)
    BY <1>0, <1>s, Reworded
  <2> HIDE DEF u
  <2>3. Origin(row') /\ Origin(NoRow)
    BY <1>0, <2>1, <2>2, KnownRows DEF u
  <2> QED BY <1>0, <1>p, <2>1, <2>3, Held
<1>7. CASE RecordWrite
  <2> DEFINE u == job[Collector].row
  <2>1. row' = [row EXCEPT !.used = u.used, !.raw = u.raw, !.paused = u.paused,
                           !.since = u.since, !.cleared = u.cleared]
        /\ UNCHANGED kernel /\ (Goto(Collector, "quotastop") \/ Return(Collector))
    BY <1>7 DEF RecordWrite
  <2>2. u \in Known /\ u \in Rows /\ row \in Rows
    BY <1>0, KnownRows
  <2> HIDE DEF u
  <2>3. /\ u.used \in Nat /\ u.raw \in Bytes /\ u.since \in Bytes /\ u.cleared \in BOOLEAN
        /\ u.paused \in BOOLEAN
    BY <2>2 DEF Rows
  <2>4. row' \in Rows
    <3> DEFINE v == [row EXCEPT !.used = u.used, !.raw = u.raw, !.paused = u.paused]
    <3>1. v \in Rows
      BY <2>2, <2>3 DEF Rows
    <3>2. row' = [v EXCEPT !.since = u.since, !.cleared = u.cleared]
      BY <2>1, <2>2 DEF Rows
    <3> HIDE DEF v
    <3> QED BY <2>3, <3>1, <3>2 DEF Rows
  <2>5. row'.used = u.used /\ row'.raw = u.raw /\ row'.since = u.since /\ row'.cleared = u.cleared
    BY <2>1, <2>2 DEF Rows
  <2>6. Origin(row')
    BY <2>2, <2>4, <2>5, Unaccounted
  <2> QED BY <1>0, <1>p, <2>1, <2>6, Gone, Returned
<1>8. CASE Sample
  <2>1. row' = row /\ UNCHANGED kernel /\ Hold(Sampler, "probe", row)
    BY <1>8 DEF Sample
  <2> QED BY <1>0, <1>p, <2>1, Held
<1>9. CASE SampleWrite
  <2>1. Return(Sampler) /\ UNCHANGED kernel
        /\ (row' = row \/ row' = [job[Sampler].row EXCEPT !.status = "presence"])
    BY <1>9 DEF SampleWrite, Save
  <2> DEFINE u == [job[Sampler].row EXCEPT !.status = "presence"]
  <2>2. Origin(u)
    BY <1>0, <1>s, Reworded
  <2> HIDE DEF u
  <2>3. Origin(row')
    BY <1>0, <2>1, <2>2 DEF u
  <2> QED BY <1>0, <2>1, <2>3, Returned
<1> QED
  BY <1>1, <1>2, <1>3, <1>4, <1>5, <1>6, <1>7, <1>8, <1>9 DEF Round, Presence

-----------------------------------------------------------------------------
(* Types *)

LEMMA MovedTypes ==
    ASSUME TypeOK, NEW a \in Actors, NEW j, Moves(a, j)
    PROVE  row' \in Rows /\ job' \in [Actors -> Jobs] /\ UNCHANGED kernel
<1>1. job \in [Actors -> Jobs]
  BY KnownRows
<1> QED
  BY <1>1 DEF Moves, Origin

(* A reading, its record and the fall of every job. *)
LEMMA ReadTypes ==
    ASSUME TypeOK, ReadCounters
    PROVE  row' \in Rows /\ job' \in [Actors -> Jobs]
<1>1. row' = row /\ row \in Rows /\ job[Collector] \in Jobs /\ job \in [Actors -> Jobs]
  BY KnownRows DEF ReadCounters
<1>2. CASE job' = [job EXCEPT ![Collector].seen = counter, ![Collector].at = "status"]
  <2> DEFINE j == [job[Collector] EXCEPT !.seen = counter, !.at = "status"]
  <2>2. job' = [job EXCEPT ![Collector] = j]
    BY <1>2, KnownRows
  <2>3. j \in Jobs
    <3>1. "status" \in Phases /\ counter \in Bytes
      BY DEF Phases, TypeOK
    <3> QED BY <1>1, <3>1 DEF Jobs
  <2> HIDE DEF j
  <2> QED BY <1>1, <2>2, <2>3
<1>4. CASE job' = [job EXCEPT ![Collector].seen = counter, ![Collector].at = "record",
                              ![Collector].row = NoRow]
  <2> DEFINE j == [job[Collector] EXCEPT !.seen = counter, !.at = "record", !.row = NoRow]
  <2>2. job' = [job EXCEPT ![Collector] = j]
    BY <1>4, KnownRows
  <2>3. j \in Jobs
    <3>1. "record" \in Phases /\ counter \in Bytes /\ NoRow \in Rows
      BY Shapes DEF Phases, TypeOK
    <3> QED BY <1>1, <3>1 DEF Jobs
  <2> HIDE DEF j
  <2> QED BY <1>1, <2>2, <2>3
<1>3. CASE Return(Collector)
  BY <1>1, <1>3, Shapes DEF Return
<1> QED
  BY <1>1, <1>2, <1>3, <1>4 DEF ReadCounters

LEMMA Record ==
    ASSUME TypeOK, NEW u \in Rows, NEW c \in Bytes
    PROVE  /\ Recorded(u, c) \in Rows
           /\ Recorded(u, c).used = u.used + Grown(u.raw, c) /\ Recorded(u, c).raw = c
           /\ Recorded(u, c).since = u.since /\ Recorded(u, c).cleared = u.cleared
<1>f. /\ u.used \in Nat /\ u.raw \in Bytes /\ u.raw \in Nat /\ c \in Nat /\ u.paused \in BOOLEAN
  BY Shapes DEF Rows
<1>1. Grown(u.raw, c) \in Nat
  BY <1>f DEF Grown
<1> DEFINE v == [u EXCEPT !.used = u.used + Grown(u.raw, c), !.raw = c]
<1>2. v \in Rows
  <2>1. u.used + Grown(u.raw, c) \in Nat
    BY <1>f, <1>1
  <2> QED BY <2>1 DEF Rows
<1>3. v.used = u.used + Grown(u.raw, c) /\ v.raw = c /\ v.since = u.since /\ v.cleared = u.cleared
  BY DEF Rows
<1>4. Recorded(u, c) = [v EXCEPT !.paused = v.paused \/ Spent(v)]
  BY DEF Recorded, Grown
<1> HIDE DEF v
<1>5. (v.paused \/ Spent(v)) \in BOOLEAN
  BY DEF Spent
<1> QED
  BY <1>2, <1>3, <1>4, <1>5 DEF Rows

LEMMA RecordTypes ==
    ASSUME TypeOK, RecordRead
    PROVE  /\ row' \in Rows /\ job' \in [Actors -> Jobs]
           /\ \E j \in Jobs : /\ job' = [job EXCEPT ![Collector] = j] /\ j.at = "account"
                              /\ j.row = Recorded(row, Seen)
<1>1. /\ row' = row /\ row \in Rows /\ job[Collector] \in Jobs /\ job \in [Actors -> Jobs]
      /\ Collector \in Actors
  BY KnownRows DEF RecordRead
<1>2. Seen \in Bytes
  BY <1>1 DEF Seen, Jobs
<1> DEFINE j == [job[Collector] EXCEPT !.at = "account", !.row = Recorded(row, Seen)]
<1>3. job' = [job EXCEPT ![Collector] = j]
  BY <1>1 DEF RecordRead, Hold, Seen
<1>4. j \in Jobs /\ j.at = "account" /\ j.row = Recorded(row, Seen)
  <2>1. Recorded(row, Seen) \in Rows /\ "account" \in Phases
    BY <1>1, <1>2, Record DEF Phases
  <2> QED BY <1>1, <2>1 DEF Jobs
<1> HIDE DEF j
<1> QED
  BY <1>1, <1>3, <1>4

(* Every step, by what it does to rows and jobs. *)
LEMMA Steps ==
    ASSUME TypeOK, [Next]_vars
    PROVE  \/ \E a \in Actors : \E j : Moves(a, j)
           \/ ReadCounters \/ RecordRead \/ Carry \/ Flush \/ Tick \/ Crash \/ UNCHANGED vars
<1>1. CASE \E r \in Requests : Ask(r) \/ Operate(r)
  <2>1. PICK r \in Requests : Ask(r) \/ Operate(r)
    BY <1>1
  <2>2. r \in Actors
    BY DEF Actors
  <2> QED BY <2>1, <2>2, OperatorsMove
<1>2. CASE Round \/ Presence
  BY <1>2, LoopsMove
<1> QED
  BY <1>1, <1>2 DEF Next

LEMMA Sum ==
    ASSUME NEW m \in Nat, NEW n \in Nat
    PROVE  m + n \in Nat
  OBVIOUS

LEMMA Types ==
    ASSUME TypeOK, CounterKnows, [Next]_vars
    PROVE  TypeOK'
<1>0. /\ counter \in Nat /\ carried \in Nat /\ MaxBytes \in Nat /\ clock \in Nat /\ MaxDays \in Nat
      /\ events \in Nat /\ MaxEvents \in Nat /\ carried <= MaxBytes
  BY BoundsAssumption DEF TypeOK, Bytes
<1>k. kept \in Nat
  BY DEF TypeOK
<1>1. row' \in Rows /\ job' \in [Actors -> Jobs]
  <2>1. CASE \E a \in Actors : \E j : Moves(a, j)
    BY <2>1, MovedTypes
  <2>2. CASE ReadCounters \/ RecordRead
    BY <2>2, ReadTypes, RecordTypes
  <2>3. CASE Carry \/ Flush \/ Tick \/ UNCHANGED vars
    BY <2>3, KnownRows DEF Carry, Flush, Tick, vars
  <2>4. CASE Crash
    BY <2>4, KnownRows, Shapes DEF Crash
  <2> QED BY <2>1, <2>2, <2>3, <2>4, Steps
<1>2. /\ rules' \in BOOLEAN /\ counter' \in Bytes /\ carried' \in Bytes /\ flushed' \in BOOLEAN
      /\ kept' \in Nat
  <2>1. CASE UNCHANGED kernel
    BY <2>1 DEF kernel, TypeOK
  <2>2. CASE ReadCounters
    BY <2>2 DEF ReadCounters, TypeOK
  <2>3. CASE Carry
    <3>1. /\ carried' = carried + 1 /\ carried < MaxBytes /\ rules' = rules /\ flushed' = flushed
          /\ kept' = kept
          /\ counter' = counter + 1 \/ counter' = counter
      BY <2>3 DEF Carry
    <3>2. counter <= carried
      BY DEF CounterKnows
    <3> QED BY <1>0, <3>1, <3>2 DEF TypeOK, Bytes
  <2>4. CASE Flush
    <3>1. /\ rules' = FALSE /\ flushed' = TRUE /\ carried' = carried
          /\ counter' \in 0..counter /\ kept' = kept + counter'
      BY <2>4 DEF Flush
    <3>2. counter' \in Nat /\ counter' <= counter
      BY <1>0, <3>1
    <3>4. counter <= MaxBytes
      BY <1>0 DEF CounterKnows
    <3>3. counter' \in Bytes
      BY <1>0, <3>2, <3>4 DEF Bytes
    <3>5. kept' \in Nat
      <4>1. kept' = kept + counter' /\ counter' \in Nat
        BY <3>1, <3>2
      <4> QED BY <1>k, <4>1, Sum, Zenon
    <3> QED BY <1>0, <3>1, <3>3, <3>5 DEF TypeOK
  <2>5. CASE RecordRead \/ Tick \/ Crash \/ UNCHANGED vars
    BY <2>5, <2>1 DEF RecordRead, Tick, Crash, vars, kernel
  <2>6. CASE \E a \in Actors : \E j : Moves(a, j)
    BY <2>6, <2>1 DEF Moves
  <2> QED BY <2>2, <2>3, <2>4, <2>5, <2>6, Steps
<1>u. unit \in {"stopped", "running"}
  BY DEF TypeOK
<1>3. unit' \in {"stopped", "running"}
  <2>1. ASSUME NEW a, QuotaStop(a) PROVE unit' \in {"stopped", "running"}
    BY <1>u, <2>1 DEF QuotaStop, Command
  <2>2. ASSUME NEW r, Ask(r) \/ Operate(r) PROVE unit' \in {"stopped", "running"}
    <3>1. CASE Start(r) \/ Stop(r)
      BY <1>u, <3>1 DEF Start, Stop, Command
    <3>2. CASE EditRestart(r)
      <4>1. unit' = unit \/ unit' \in {unit, "running", "stopped"}
        BY <3>2 DEF EditRestart
      <4> QED BY <1>u, <4>1
    <3>3. CASE ~(Start(r) \/ Stop(r)) /\ ~EditRestart(r)
      <4>1. UNCHANGED unit \/ QuotaStop(r)
        BY <2>2, <3>3 DEF Ask, Operate, Switch, SwitchWrite, Columns, ReduceWrite, Reread,
           QuotaWrite, EditRead, EditWrite, EditSaved, ExpiryRead, ExpiryWrite
      <4> QED BY <1>u, <2>1, <4>1
    <3> QED BY <3>1, <3>2, <3>3
  <2>3. ASSUME Round \/ Presence PROVE unit' \in {"stopped", "running"}
    <3>1. CASE ExpireStop \/ Resume
      BY <1>u, <3>1 DEF ExpireStop, Resume, Command
    <3>2. CASE ~(ExpireStop \/ Resume)
      <4>1. UNCHANGED unit \/ QuotaStop(Collector)
        BY <2>3, <3>2 DEF Round, Presence, Collect, ExpireWrite, Roll, Resumed, ReadCounters,
           CollectStatus, RecordRead, RecordWrite, QuotaWrite, Sample, SampleWrite
      <4> QED BY <1>u, <2>1, <4>1
    <3> QED BY <3>1, <3>2
  <2>4. ASSUME Carry \/ Flush \/ Tick \/ Crash \/ UNCHANGED vars
        PROVE  unit' \in {"stopped", "running"}
    BY <1>u, <2>4 DEF Carry, Flush, Tick, Crash, vars
  <2> QED BY <2>2, <2>3, <2>4 DEF Next
<1>4. clock' = clock \/ (clock < MaxDays /\ clock' = clock + 1)
  BY DEF Next, vars, Ask, Operate, Round, Presence, Carry, Flush, Tick, Crash,
         Switch, Start, Stop, SwitchWrite, Columns, ReduceWrite, Reread, QuotaStop, QuotaWrite, EditRead,
         EditWrite, EditRestart, EditSaved, ExpiryRead, ExpiryWrite, Collect, ExpireStop,
         ExpireWrite, Roll, Resume, Resumed, ReadCounters, CollectStatus, RecordRead,
         RecordWrite, Sample, SampleWrite, Command
<1>5. events' = events \/ (events < MaxEvents /\ events' = events + 1)
  BY DEF Next, vars, Ask, Operate, Round, Presence, Carry, Flush, Tick, Crash, Succeeds, Fails,
         Switch, Start, Stop, SwitchWrite, Columns, ReduceWrite, Reread, QuotaStop, QuotaWrite, EditRead,
         EditWrite, EditRestart, EditSaved, ExpiryRead, ExpiryWrite, Collect, ExpireStop,
         ExpireWrite, Roll, Resume, Resumed, ReadCounters, CollectStatus, RecordRead,
         RecordWrite, Sample, SampleWrite, Command
<1>6. clock' \in 1..MaxDays /\ events' \in 0..MaxEvents
  BY <1>0, <1>4, <1>5 DEF TypeOK
<1> QED
  BY <1>1, <1>2, <1>3, <1>6 DEF TypeOK, Jobs, Wishes

-----------------------------------------------------------------------------
(* Numbers *)

LEMMA Growth ==
    ASSUME NEW r \in Nat, NEW c \in Nat
    PROVE  /\ Grown(r, c) \in Nat /\ Grown(r, 0) = 0 /\ Grown(r, c + 1) <= Grown(r, c) + 1
           /\ Grown(c, c) = 0 /\ Grown(r, c) <= c
           /\ r <= c => Grown(r, c) = c - r
<1>1. CASE r = 0
  BY <1>1 DEF Grown
<1>2. CASE r > 0 /\ c < r
  BY <1>2 DEF Grown
<1>3. CASE r > 0 /\ c >= r
  BY <1>3 DEF Grown
<1> QED
  BY <1>1, <1>2, <1>3

LEMMA Numbers ==
    ASSUME TypeOK
    PROVE  /\ counter \in Nat /\ carried \in Nat /\ Seen \in Nat /\ Seen \in Bytes
           /\ kept \in Nat
           /\ \A u \in Known : u.used \in Nat /\ u.raw \in Nat /\ u.since \in Nat
<1>1. job[Collector] \in Jobs
  BY KnownRows
<1>2. Seen \in Bytes
  BY <1>1 DEF Jobs, Seen
<1>3. ASSUME NEW u \in Known
      PROVE  u.used \in Nat /\ u.raw \in Nat /\ u.since \in Nat
  <2>1. u \in Rows
    BY KnownRows
  <2>2. u.used \in Nat /\ u.raw \in Bytes /\ u.since \in Bytes
    BY <2>1 DEF Rows
  <2> QED BY <2>2, Shapes
<1> QED
  BY <1>2, <1>3, Shapes DEF TypeOK

-----------------------------------------------------------------------------
(* The ledger through every step *)

(* A row that may be written after a step comes from one that could be     *)
(* written before it.                                                      *)
LEMMA MovedKnown ==
    ASSUME TypeOK, NEW a \in Actors, NEW j, Moves(a, j), NEW v \in Known'
    PROVE  v \in Rows /\ \E u \in Known : Derived(v, u)
<1>1. CASE v = row' \/ v = j.row
  BY <1>1 DEF Moves, Origin
<1>2. CASE v \in Known
  BY <1>2, KnownRows DEF Origin
<1>3. v = row' \/ v = NoRow \/ \E b \in Actors : v = job'[b].row
  BY DEF Known
<1>4. \A b \in Actors : job'[b] = j \/ job'[b] = job[b]
  BY KnownRows DEF Moves
<1> QED BY <1>1, <1>2, <1>3, <1>4, KnownRows

LEMMA ReadKnown ==
    ASSUME TypeOK, ReadCounters
    PROVE  Known' \subseteq Known /\ (InHand' => Seen' = counter)
<1>1. /\ \A b \in Actors : job'[b].row \in Known
      /\ InHand' => Seen' = counter
  <2>0. job[Collector] \in Jobs /\ Collector \in Actors
    BY KnownRows
  <2>1. CASE job' = [job EXCEPT ![Collector].seen = counter, ![Collector].at = "status"]
    <3>1. job'[Collector] = [job[Collector] EXCEPT !.seen = counter, !.at = "status"]
      BY <2>1, KnownRows
    <3>2. job'[Collector].seen = counter /\ job'[Collector].row = job[Collector].row
      BY <2>0, <3>1 DEF Jobs
    <3>3. \A b \in Actors : b # Collector => job'[b] = job[b]
      BY <2>1, KnownRows
    <3> QED BY <3>2, <3>3, KnownRows DEF Seen
  <2>3. CASE job' = [job EXCEPT ![Collector].seen = counter, ![Collector].at = "record",
                                ![Collector].row = NoRow]
    <3>1. job'[Collector] = [job[Collector] EXCEPT !.seen = counter, !.at = "record",
                                                   !.row = NoRow]
      BY <2>3, KnownRows
    <3>2. job'[Collector].seen = counter /\ job'[Collector].row = NoRow
      BY <2>0, <3>1 DEF Jobs
    <3>3. \A b \in Actors : b # Collector => job'[b] = job[b]
      BY <2>3, KnownRows
    <3> QED BY <3>2, <3>3, KnownRows DEF Seen
  <2>2. CASE Return(Collector)
    <3>1. \A b \in Actors : job'[b] = Blank \/ job'[b] = job[b]
      BY <2>2, KnownRows DEF Return
    <3>2. job'[Collector] = Blank
      BY <2>2, KnownRows DEF Return
    <3> QED BY <3>1, <3>2, Shapes, KnownRows DEF InHand
  <2> QED BY <2>1, <2>2, <2>3 DEF ReadCounters
<1>2. row' = row
  BY DEF ReadCounters
<1> QED
  BY <1>1, <1>2, KnownRows DEF Known

LEMMA RecordKnown ==
    ASSUME TypeOK, RecordRead
    PROVE  Known' \subseteq Known \union {Recorded(row, Seen)}
<1>1. PICK j \in Jobs : /\ job' = [job EXCEPT ![Collector] = j]
                        /\ j.row = Recorded(row, Seen)
  BY RecordTypes
<1>2. row' = row
  BY DEF RecordRead
<1>3. \A b \in Actors : job'[b] = j \/ job'[b] = job[b]
  BY <1>1, KnownRows
<1> QED
  BY <1>1, <1>2, <1>3 DEF Known

LEMMA WorldKnown ==
    ASSUME TypeOK, Carry \/ Flush \/ Tick \/ Crash \/ UNCHANGED vars
    PROVE  Known' \subseteq Known /\ (InHand' => InHand /\ Seen' = Seen)
<1>1. CASE row' = row /\ job' = job
  BY <1>1 DEF Known, InHand, Seen
<1>2. CASE Crash
  <2>1. row' = row /\ \A b \in Actors : job'[b] = Blank
    BY <1>2 DEF Crash
  <2> QED BY <2>1, Shapes, KnownRows DEF Known, InHand
<1> QED BY <1>1, <1>2 DEF Carry, Flush, Tick, vars

(* A derived row owes no more than the one it came from. *)
LEMMA Inherits ==
    ASSUME TypeOK, NEW u \in Known, NEW v \in Rows, Derived(v, u), ~v.cleared
    PROVE  /\ ~u.cleared /\ v.raw = u.raw /\ v.used <= u.used /\ v.used \in Nat
           /\ u.used + u.since = u.raw => v.used + v.since = v.raw
<1>1. u.used \in Nat /\ u.raw \in Nat /\ u.since \in Nat
  BY Numbers
<1>2. /\ v.cleared = u.cleared /\ v.raw = u.raw
      /\ (v.used = u.used /\ v.since = u.since) \/ (v.used = 0 /\ v.since = u.raw)
  BY DEF Derived
<1> QED
  BY <1>1, <1>2

LEMMA MovedLedger ==
    ASSUME TypeOK, Ledger, NEW a \in Actors, NEW j, Moves(a, j)
    PROVE  Ledger'
<1>1. /\ rules' = rules /\ counter' = counter /\ carried' = carried /\ flushed' = flushed
      /\ kept' = kept
  BY DEF Moves, kernel
<1>2. CounterKnows'
  BY <1>1 DEF Ledger, CounterKnows
<1>3. \A v \in Known' : v \in Rows /\ \E u \in Known : Derived(v, u)
  BY MovedKnown
<1>4. InHand' => InHand /\ Seen' = Seen
  <2>1. CASE a = Collector
    <3>1. job'[Collector] = j
      BY <2>1, KnownRows DEF Moves
    <3> QED BY <2>1, <3>1 DEF Moves, InHand, Seen
  <2>2. CASE a # Collector
    <3>1. job'[Collector] = job[Collector]
      BY <2>2, KnownRows DEF Moves
    <3> QED BY <3>1 DEF InHand, Seen
  <2> QED BY <2>1, <2>2
<1>5. ASSUME NEW v \in Known', ~v.cleared
      PROVE  /\ Counted(v)'
             /\ InHand' => CountedInHand(v)'
             /\ ~flushed => Balanced(v)' /\ (InHand' => v.raw <= Seen')
  <2>1. PICK u \in Known : Derived(v, u)
    BY <1>3
  <2>2. /\ ~u.cleared /\ v.raw = u.raw /\ v.used <= u.used /\ v.used \in Nat
        /\ u.used + u.since = u.raw => v.used + v.since = v.raw
    BY <1>3, <1>5, <2>1, Inherits
  <2>3. Counted(u) /\ (InHand => CountedInHand(u))
        /\ (~flushed => Balanced(u) /\ (InHand => u.raw <= Seen))
    BY <2>2 DEF Ledger, NothingTwice, NothingLost
  <2>4. u.used \in Nat /\ u.raw \in Nat /\ counter \in Nat /\ Seen \in Nat /\ carried \in Nat
        /\ kept \in Nat
    BY Numbers
  <2>5. Grown(u.raw, counter) \in Nat /\ Grown(u.raw, Seen) \in Nat /\ Grown(Seen, counter) \in Nat
    BY <2>4, Growth
  <2>6. Counted(v)'
    <3>1. v.used + Grown(u.raw, counter) <= carried + kept
      BY <2>2, <2>3, <2>4, <2>5 DEF Counted
    <3> QED BY <1>1, <2>2, <3>1 DEF Counted
  <2>7. InHand' => CountedInHand(v)'
    <3>1. InHand => v.used + Grown(u.raw, Seen) + Grown(Seen, counter) <= carried + kept
      BY <2>2, <2>3, <2>4, <2>5 DEF CountedInHand
    <3> QED BY <1>1, <1>4, <2>2, <3>1 DEF CountedInHand
  <2>8. ~flushed => Balanced(v)' /\ (InHand' => v.raw <= Seen')
    BY <1>1, <1>4, <2>2, <2>3 DEF Balanced
  <2> QED BY <2>6, <2>7, <2>8
<1>6. NothingTwice'
  BY <1>5 DEF NothingTwice
<1>7. NothingLost'
  <2>1. ~flushed => (InHand' => Seen' <= counter')
    BY <1>1, <1>4 DEF Ledger, NothingLost
  <2> QED BY <1>1, <1>5, <2>1 DEF NothingLost
<1> QED
  BY <1>2, <1>6, <1>7 DEF Ledger

(* A reading that was just taken: all the counter has is in hand. *)
LEMMA ReadLedger ==
    ASSUME TypeOK, Ledger, ReadCounters
    PROVE  Ledger'
<1>1. /\ counter' = counter /\ carried' = carried /\ flushed' = flushed /\ row' = row
      /\ kept' = kept /\ rules' \in {TRUE, rules}
  BY DEF ReadCounters
<1>2. CounterKnows'
  BY <1>1 DEF Ledger, CounterKnows
<1>3. Known' \subseteq Known /\ (InHand' => Seen' = counter)
  BY ReadKnown
<1>5. ASSUME NEW v \in Known, ~v.cleared
      PROVE  /\ Counted(v)'
             /\ InHand' => CountedInHand(v)'
             /\ ~flushed => Balanced(v)' /\ (InHand' => v.raw <= Seen')
  <2>1. Counted(v) /\ (~flushed => Balanced(v))
    BY <1>5 DEF Ledger, NothingTwice, NothingLost
  <2>2. v.used \in Nat /\ v.raw \in Nat /\ counter \in Nat
    BY Numbers
  <2>3. Grown(v.raw, counter) \in Nat /\ Grown(counter, counter) = 0
    BY <2>2, Growth
  <2>4. Counted(v)' /\ (~flushed => Balanced(v)')
    BY <1>1, <2>1 DEF Counted, Balanced
  <2>5. v.used + Grown(v.raw, counter) + Grown(counter, counter) <= carried + kept
    BY <2>1, <2>2, <2>3 DEF Counted
  <2>6. InHand' => CountedInHand(v)'
    BY <1>1, <1>3, <2>5 DEF CountedInHand
  <2> QED BY <1>3, <2>1, <2>4, <2>6 DEF Balanced
<1>6. NothingTwice'
  BY <1>3, <1>5 DEF NothingTwice
<1>7. NothingLost'
  <2>1. InHand' => Seen' <= counter'
    BY <1>1, <1>3, Numbers
  <2> QED BY <1>1, <1>3, <1>5, <2>1 DEF NothingLost
<1> QED
  BY <1>2, <1>6, <1>7 DEF Ledger

(* A reading that is recorded: the row has what was in hand. *)
LEMMA RecordLedger ==
    ASSUME TypeOK, Ledger, RecordRead
    PROVE  Ledger'
<1>1. /\ counter' = counter /\ carried' = carried /\ flushed' = flushed /\ row' = row
      /\ rules' = rules /\ kept' = kept /\ InHand
  BY DEF RecordRead, kernel, InHand
<1>2. CounterKnows'
  BY <1>1 DEF Ledger, CounterKnows
<1> DEFINE new == Recorded(row, Seen)
<1>3. PICK j \in Jobs : job' = [job EXCEPT ![Collector] = j] /\ j.at = "account" /\ j.row = new
  BY RecordTypes
<1>4. /\ new.used = row.used + Grown(row.raw, Seen) /\ new.raw = Seen
      /\ new.since = row.since /\ new.cleared = row.cleared
  BY Numbers, KnownRows, Record
<1> HIDE DEF new
<1>5. Known' \subseteq Known \union {new}
  BY RecordKnown DEF new
<1>6. ~InHand'
  <2>1. job'[Collector] = j
    BY <1>3, KnownRows
  <2> QED BY <1>3, <2>1 DEF InHand
<1>7. ASSUME NEW v \in Known', ~v.cleared
      PROVE  Counted(v)' /\ (~flushed => Balanced(v)')
  <2>1. CASE v \in Known
    <3>1. Counted(v) /\ (~flushed => Balanced(v))
      BY <1>7, <2>1 DEF Ledger, NothingTwice, NothingLost
    <3> QED BY <1>1, <3>1 DEF Counted, Balanced
  <2>2. CASE v = new
    <3>1. /\ ~row.cleared /\ row \in Known
      BY <1>4, <1>7, <2>2, KnownRows
    <3>2. /\ CountedInHand(row)
          /\ ~flushed => Balanced(row) /\ row.raw <= Seen /\ Seen <= counter
      BY <1>1, <3>1 DEF Ledger, NothingTwice, NothingLost
    <3>3. /\ row.used \in Nat /\ row.raw \in Nat /\ row.since \in Nat /\ Seen \in Nat
      BY <3>1, Numbers
    <3>4. Counted(v)'
      <4>1. v.used + Grown(v.raw, counter) <= carried + kept
        BY <1>4, <2>2, <3>2 DEF CountedInHand
      <4> QED BY <1>1, <4>1 DEF Counted
    <3>5. ASSUME ~flushed PROVE Balanced(v)'
      <4>1. Grown(row.raw, Seen) = Seen - row.raw
        BY <3>2, <3>3, <3>5, Growth
      <4>2. v.used + v.since = v.raw /\ v.raw <= counter
        BY <1>4, <2>2, <3>2, <3>3, <3>5, <4>1 DEF Balanced
      <4> QED BY <1>1, <4>2 DEF Balanced
    <3> QED BY <3>4, <3>5
  <2> QED BY <1>5, <2>1, <2>2
<1> QED
  BY <1>1, <1>2, <1>6, <1>7 DEF Ledger, NothingTwice, NothingLost

(* The world: bytes, lost rules, days and crashes. *)
LEMMA WorldLedger ==
    ASSUME TypeOK, Ledger, Carry \/ Flush \/ Tick \/ Crash \/ UNCHANGED vars
    PROVE  Ledger'
<1>1. Known' \subseteq Known /\ (InHand' => InHand /\ Seen' = Seen)
  BY WorldKnown
<1>n. counter \in Nat /\ carried \in Nat /\ Seen \in Nat /\ kept \in Nat
  BY Numbers
<1>2. CounterKnows'
  <2>1. CASE Carry
    BY <1>n, <2>1 DEF Ledger, CounterKnows, Carry
  <2>2. CASE Flush
    BY <1>n, <2>2 DEF Ledger, CounterKnows, Flush
  <2>3. CASE UNCHANGED kernel
    BY <2>3 DEF Ledger, CounterKnows, kernel
  <2> QED BY <2>1, <2>2, <2>3 DEF Tick, Crash, vars, kernel
<1>3. ASSUME NEW r \in Nat
      PROVE  /\ (Grown(r, counter') - Grown(r, counter)) + (carried + kept) <= carried' + kept'
             /\ Grown(r, counter') \in Nat /\ Grown(r, counter) \in Nat
             /\ carried' \in Nat /\ kept' \in Nat
  <2>1. Grown(r, counter) \in Nat /\ Grown(r, counter + 1) <= Grown(r, counter) + 1
        /\ Grown(r, counter + 1) \in Nat
    BY <1>n, Growth
  <2>2. CASE Carry
    <3>1. carried' = carried + 1 /\ (counter' = counter \/ counter' = counter + 1) /\ kept' = kept
      BY <2>2 DEF Carry
    <3>2. CASE counter' = counter
      BY <1>n, <2>1, <3>1, <3>2
    <3>3. CASE counter' = counter + 1
      BY <1>n, <2>1, <3>1, <3>3
    <3> QED BY <3>1, <3>2, <3>3
  <2>3. CASE Flush
    <3>1. carried' = carried /\ counter' \in 0..counter /\ kept' = kept + counter'
      BY <2>3 DEF Flush
    <3>2. counter' \in Nat
      BY <3>1
    <3>3. Grown(r, counter') \in Nat /\ Grown(r, counter') <= counter'
      BY <3>2, Growth
    <3>4. Grown(r, counter') - Grown(r, counter) <= counter'
      BY <2>1, <3>2, <3>3
    <3>5. /\ carried' \in Nat /\ kept' \in Nat
          /\ carried' + kept' = (carried + kept) + counter'
      <4>1. kept' = kept + counter' /\ counter' \in Nat /\ carried' = carried
        BY <3>1, <3>2
      <4>3. kept' \in Nat
        BY <1>n, <4>1, Sum, Zenon
      <4>4. carried' + kept' = carried + (kept + counter')
        BY <4>1, Zenon
      <4>5. carried + (kept + counter') = (carried + kept) + counter'
        BY <1>n, <4>1
      <4>6. carried' \in Nat
        BY <1>n, <4>1, Zenon
      <4> QED BY <4>3, <4>4, <4>5, <4>6, Zenon
    <3> QED BY <1>n, <2>1, <3>2, <3>3, <3>4, <3>5
  <2>4. CASE carried' = carried /\ counter' = counter /\ kept' = kept
    BY <1>n, <2>1, <2>4
  <2> QED BY <2>2, <2>3, <2>4 DEF Tick, Crash, vars, kernel
<1>4. ~flushed' => ~flushed /\ counter' >= counter
  <2>1. CASE Carry
    BY <1>n, <2>1 DEF Carry
  <2>2. CASE Flush
    BY <2>2 DEF Flush
  <2>3. CASE UNCHANGED kernel
    BY <1>n, <2>3 DEF kernel
  <2> QED BY <2>1, <2>2, <2>3 DEF Tick, Crash, vars, kernel
<1>5. counter' \in Nat
  BY <1>n DEF Carry, Flush, Tick, Crash, vars, kernel
<1>6. ASSUME NEW v \in Known, ~v.cleared
      PROVE  /\ Counted(v)'
             /\ InHand' => CountedInHand(v)'
             /\ ~flushed' => Balanced(v)' /\ (InHand' => v.raw <= Seen')
  <2>1. /\ Counted(v) /\ (InHand => CountedInHand(v))
        /\ ~flushed => Balanced(v) /\ (InHand => v.raw <= Seen)
    BY <1>6 DEF Ledger, NothingTwice, NothingLost
  <2>2. v.used \in Nat /\ v.raw \in Nat
    BY Numbers
  <2>3. Counted(v)'
    <3>1. v.used + Grown(v.raw, counter') <= carried' + kept'
      BY <1>3, <1>n, <2>1, <2>2 DEF Counted
    <3> QED BY <3>1 DEF Counted
  <2>4. InHand' => CountedInHand(v)'
    <3>1. Grown(v.raw, Seen) \in Nat
      BY <1>n, <2>2, Growth
    <3>2. InHand => v.used + Grown(v.raw, Seen) + Grown(Seen, counter') <= carried' + kept'
      BY <1>3, <1>n, <2>1, <2>2, <3>1 DEF CountedInHand
    <3> QED BY <1>1, <3>2 DEF CountedInHand
  <2>5. ~flushed' => Balanced(v)' /\ (InHand' => v.raw <= Seen')
    BY <1>1, <1>4, <1>5, <1>n, <2>1, <2>2 DEF Balanced
  <2> QED BY <2>3, <2>4, <2>5
<1>7. NothingTwice'
  BY <1>1, <1>6 DEF NothingTwice
<1>8. NothingLost'
  <2>1. ~flushed' => (InHand' => Seen' <= counter')
    BY <1>1, <1>4, <1>5, <1>n DEF Ledger, NothingLost
  <2> QED BY <1>1, <1>6, <2>1 DEF NothingLost
<1> QED
  BY <1>2, <1>7, <1>8 DEF Ledger

-----------------------------------------------------------------------------
LEMMA Initially == Init => IInv
<1> SUFFICES ASSUME Init PROVE IInv
  OBVIOUS
<1>1. PICK q \in Quotas : row = NewRow(q)
  BY DEF Init
<1>2. TypeOK
  <2>1. row \in Rows /\ job \in [Actors -> Jobs] /\ counter \in Bytes /\ carried \in Bytes
    BY <1>1, Shapes DEF Init
  <2>2. clock \in 1..MaxDays /\ events \in 0..MaxEvents
    BY BoundsAssumption DEF Init
  <2> QED BY <2>1, <2>2 DEF Init, TypeOK, Jobs, Wishes
<1>3. ~InHand
  BY KnownRows, <1>2, Shapes DEF Init, InHand
<1>4. \A u \in Known : u.used = 0 /\ u.raw = 0 /\ u.since = 0
  <2>1. \A a \in Actors : job[a].row = NoRow
    BY Shapes DEF Init
  <2>2. \A u \in Known : u = NewRow(q) \/ u = NoRow
    BY <1>1, <2>1 DEF Known
  <2> QED BY <2>2, Shapes
<1>5. counter = 0 /\ carried = 0 /\ kept = 0 /\ rules /\ Grown(0, 0) = 0
  BY DEF Init, Grown
<1>6. \A u \in Known : Counted(u) /\ Balanced(u)
  BY <1>4, <1>5 DEF Counted, Balanced
<1> QED
  BY <1>2, <1>3, <1>5, <1>6 DEF IInv, Ledger, CounterKnows, NothingTwice, NothingLost

LEMMA Inductive == IInv /\ [Next]_vars => IInv'
<1> SUFFICES ASSUME IInv, [Next]_vars PROVE IInv'
  OBVIOUS
<1>1. TypeOK /\ Ledger /\ CounterKnows
  BY DEF IInv, Ledger
<1>2. TypeOK'
  BY <1>1, Types
<1>3. Ledger'
  BY <1>1, Steps, MovedLedger, ReadLedger, RecordLedger, WorldLedger
<1> QED
  BY <1>2, <1>3 DEF IInv

(* A row whose usage nobody cleared balances, whoever wrote it. *)
LEMMA LedgerAddsUp == IInv => UsageAddsUp
<1> SUFFICES ASSUME IInv, ~row.cleared
             PROVE  IF flushed THEN row.used <= carried + kept
                    ELSE row.used + counter - row.raw = carried - row.since
  BY DEF UsageAddsUp
<1>1. TypeOK /\ row \in Known /\ row.used \in Nat /\ row.raw \in Nat /\ row.since \in Nat
      /\ counter \in Nat /\ carried \in Nat /\ kept \in Nat
  BY KnownRows, Numbers DEF IInv
<1>2. CounterKnows /\ Counted(row) /\ (~flushed => Balanced(row))
  BY <1>1 DEF IInv, Ledger, NothingTwice, NothingLost
<1>3. Grown(row.raw, counter) \in Nat
  BY <1>1, Growth
<1>4. CASE flushed
  BY <1>1, <1>2, <1>3, <1>4 DEF Counted
<1>5. CASE ~flushed
  BY <1>1, <1>2, <1>5 DEF Balanced, CounterKnows
<1> QED
  BY <1>4, <1>5

(* Where nobody clears a usage no row says that somebody did, *)
Uncleared == \A u \in Known : ~u.cleared

LEMMA UnclearedInit == Init => Uncleared
<1> SUFFICES ASSUME Init, NEW u \in Known PROVE ~u.cleared
  BY DEF Uncleared
<1>1. PICK q \in Quotas : row = NewRow(q)
  BY DEF Init
<1>2. \A a \in Actors : job[a].row = NoRow
  BY Shapes DEF Init
<1> QED
  BY <1>1, <1>2, Shapes DEF Known

LEMMA UnclearedNext ==
    ASSUME "reset" \notin Ops, TypeOK, Uncleared, [Next]_vars
    PROVE  Uncleared'
<1> SUFFICES ASSUME NEW v \in Known' PROVE ~v.cleared
  BY DEF Uncleared
<1>1. CASE \E a \in Actors : \E j : Moves(a, j)
  <2>1. \E u \in Known : Derived(v, u)
    BY <1>1, MovedKnown
  <2> QED BY <2>1 DEF Uncleared, Derived
<1>2. CASE RecordRead
  <2>1. v \in Known \/ v = Recorded(row, Seen)
    BY <1>2, RecordKnown
  <2>2. Recorded(row, Seen).cleared = row.cleared /\ row \in Known
    BY Numbers, KnownRows, Record
  <2> QED BY <2>1, <2>2 DEF Uncleared
<1>3. CASE ReadCounters \/ Carry \/ Flush \/ Tick \/ Crash \/ UNCHANGED vars
  BY <1>3, ReadKnown, WorldKnown DEF Uncleared
<1> QED
  BY <1>1, <1>2, <1>3, Steps

(* and a usage that balances was carried since the last reading before it  *)
(* was set to nothing.                                                     *)
LEMMA BalancedIsLater == IInv /\ Uncleared => NothingBeforeTheReset
<1> SUFFICES ASSUME IInv, Uncleared, ~flushed PROVE row.used <= carried - row.since
  BY DEF NothingBeforeTheReset
<1>1. /\ TypeOK /\ row \in Known /\ row.used \in Nat /\ row.raw \in Nat /\ row.since \in Nat
      /\ counter \in Nat /\ carried \in Nat
  BY KnownRows, Numbers DEF IInv
<1>2. Balanced(row) /\ counter <= carried
  BY <1>1 DEF IInv, Uncleared, Ledger, NothingLost, CounterKnows
<1> QED
  BY <1>1, <1>2 DEF Balanced

(* What every actor holds is a row, and every row somebody may write, read *)
(* however long ago, accounts for the bytes carried (UpdateSingBoxUser).   *)
THEOREM InductiveInvariant == Spec => []IInv
<1> QED
  BY Initially, Inductive, PTL DEF Spec

(* Rows, jobs, counters and clocks keep their shape: no handler leaves the *)
(* user with a negative quota or usage (ReduceSingBoxQuota).               *)
THEOREM QuotaTyped == Spec => []TypeOK
<1>1. IInv => TypeOK
  BY DEF IInv
<1> QED
  BY <1>1, InductiveInvariant, PTL

(* While all rules are there every byte is counted once and none twice,    *)
(* and where some were lost no more is counted again than what the others  *)
(* showed then: for any number of operators, bytes, periods, failed        *)
(* commands and restarts, though whole rows are written back long after    *)
(* they were read (RecordSingBoxTraffic, RollSingBoxPeriod,                *)
(* UpdateSingBoxUser).                                                     *)
THEOREM UsageStaysInStep == Spec => []UsageAddsUp
<1> QED
  BY LedgerAddsUp, InductiveInvariant, PTL

(* The disagreement with docs/SINGBOX.md that reset_usage shows comes from *)
(* the reset alone: where no operator clears a usage, a period that starts *)
(* from nothing counts nothing carried before its start, however many      *)
(* periods end and whoever writes the row back (RollSingBoxPeriod keeps    *)
(* the last reading, ResetSingBoxUsage does not).                          *)
THEOREM OnlyResetsRecount ==
    ASSUME "reset" \notin Ops
    PROVE  Spec => []NothingBeforeTheReset
<1>1. Init => Uncleared
  BY UnclearedInit
<1>2. IInv /\ Uncleared /\ [Next]_vars => Uncleared'
  BY UnclearedNext DEF IInv
<1> QED
  BY <1>1, <1>2, BalancedIsLater, InductiveInvariant, PTL DEF Spec
=============================================================================
