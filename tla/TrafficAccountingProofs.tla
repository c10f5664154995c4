----------------------- MODULE TrafficAccountingProofs -----------------------
(***************************************************************************)
(* That what is counted has crossed, for any length of the chain, any      *)
(* families, any number of appliers, any faults and any traffic.           *)
(***************************************************************************)
EXTENDS TrafficAccounting, TLAPS

Fold(h) == CounterDelta(base[h], Reading(h))

(* What the next reading would add has crossed, or is left over.            *)
UnreadCrossed ==
    \A h \in Hops : total[h] + Fold(h) <= crossed[h] + again[h] + left[h]

(* So has what the reading in hand will add, by itself and with what comes  *)
(* after it.                                                                *)
InHandCrossed ==
    loop.pc = "record" =>
        LET h == loop.hop
            delta == CounterDelta(base[h], loop.got)
        IN  /\ total[h] + delta <= crossed[h] + again[h]
            /\ total[h] + delta + CounterDelta(loop.got, Reading(h))
                 <= crossed[h] + again[h] + left[h]

(* The inductive invariant behind NoOvercount.                              *)
Inv == TypeOK /\ NoOvercount /\ UnreadCrossed /\ InHandCrossed

-----------------------------------------------------------------------------
(* Facts about the operators *)

(* Growth is a number, at most the reading, nothing without a baseline or   *)
(* from a reading to itself.                                                *)
LEMMA DeltaFacts ==
    ASSUME NEW r \in Nat \cup {None}, NEW k \in Nat
    PROVE  /\ CounterDelta(r, k) \in Nat /\ CounterDelta(r, k) <= k
           /\ CounterDelta(None, k) = 0
           /\ CounterDelta(k, k) = 0
  BY AccountingAssumption DEF CounterDelta

(* It grows no faster than the counter.                                     *)
LEMMA DeltaGrows ==
    ASSUME NEW r \in Nat \cup {None}, NEW k \in Nat, NEW n \in Nat
    PROVE  /\ CounterDelta(r, k + n) \in Nat
           /\ CounterDelta(r, k + n) <= CounterDelta(r, k) + n
  BY AccountingAssumption DEF CounterDelta

LEMMA RuleTypes ==
    /\ NoRule \in Rules /\ NoRules \in [AllFamilies -> Rules]
    /\ \A p \in Ports : Fresh(p) \in Rules
    /\ \A n, k \in Nat : Partial(n, k) \in Rules
  BY DEF NoRule, NoRules, Fresh, Partial, Rules

LEMMA RemainsType ==
    ASSUME NEW old \in Rules
    PROVE  Remains(old) \subseteq Rules /\ Beside(old) \in Rules
  <1>1. old.sets \in Nat /\ old.bytes \in Nat /\ old.sets + 1 \in Nat
    BY DEF Rules
  <1>2. \A k \in 0 .. old.bytes : Partial(old.sets, k) \in Rules
    BY <1>1, RuleTypes
  <1> QED BY <1>1, <1>2, RuleTypes DEF Remains, Beside

LEMMA SumType ==
    ASSUME NEW table \in [AllFamilies -> Rules]
    PROVE  SumOf(table) \in Nat
  BY DEF SumOf, Rules, AllFamilies

(* A reading is a number.                                                   *)
LEMMA ReadingType ==
    ASSUME TypeOK, NEW h \in Hops
    PROVE  Reading(h) \in Nat
  BY SumType DEF TypeOK, Reading

(* The numbers of a hop.                                                    *)
LEMMA HopTypes ==
    ASSUME TypeOK, NEW h \in Hops
    PROVE  /\ base[h] \in Nat \cup {None} /\ rules[h] \in [AllFamilies -> Rules]
           /\ total[h] \in Nat /\ crossed[h] \in Nat
           /\ left[h] \in Nat /\ again[h] \in Nat
           /\ Reading(h) \in Nat
  BY ReadingType DEF TypeOK

LEMMA HandTypes ==
    ASSUME TypeOK, loop.pc = "record"
    PROVE  loop.hop \in Hops /\ loop.got \in Nat
  BY DEF TypeOK, LoopStates

(* The rules of one machine may change in any way.                          *)
LEMMA BecomeTypes ==
    ASSUME TypeOK, NEW h \in Hops, NEW table \in [AllFamilies -> Rules], Become(h, table)
    PROVE  /\ rules' \in [Hops -> [AllFamilies -> Rules]]
           /\ left' \in [Hops -> Nat] /\ crossed' = crossed /\ again' = again
  BY SumType DEF TypeOK, Become

LEMMA BecomeInTypes ==
    ASSUME TypeOK, NEW h \in Hops, NEW f \in AllFamilies, NEW rule \in Rules,
           BecomeIn(h, f, rule)
    PROVE  \E table \in [AllFamilies -> Rules] : Become(h, table)
  <1>1. [rules[h] EXCEPT ![f] = rule] \in [AllFamilies -> Rules]
    BY HopTypes
  <1> QED BY <1>1 DEF BecomeIn

(* What a visit does to the rules of its machine.                           *)
Touched ==
    \/ UNCHANGED <<rules, history>>
    \/ \E h \in Hops : \E table \in [AllFamilies -> Rules] : Become(h, table)

LEMMA TouchedTypes ==
    ASSUME TypeOK, Touched
    PROVE  /\ rules' \in [Hops -> [AllFamilies -> Rules]]
           /\ left' \in [Hops -> Nat] /\ crossed' = crossed /\ again' = again
  <1>1. CASE UNCHANGED <<rules, history>>
    BY <1>1 DEF TypeOK, history
  <1>2. CASE \E h \in Hops : \E table \in [AllFamilies -> Rules] : Become(h, table)
    BY <1>2, BecomeTypes
  <1> QED BY <1>1, <1>2 DEF Touched

(* Whatever is done to the rules, and readings that stay or are forgotten,  *)
(* keep what is counted within what crossed: what the new rules show is     *)
(* left over, unless it is what the old ones showed.                        *)
LEMMA QuietStep ==
    ASSUME Inv, TypeOK', Touched, total' = total,
           loop'.pc = "record" => loop' = loop,
           \A h \in Hops : base'[h] = base[h] \/ base'[h] = None
    PROVE  Inv'
  <1>t. TypeOK /\ NoOvercount /\ UnreadCrossed /\ InHandCrossed
    BY DEF Inv
  <1>1. crossed' = crossed /\ again' = again
    BY <1>t, TouchedTypes
  <1>2. ASSUME NEW h \in Hops
        PROVE  \/ Reading(h)' = Reading(h) /\ left'[h] = left[h]
               \/ left'[h] = Reading(h)'
    <2>1. CASE UNCHANGED <<rules, history>>
      BY <2>1 DEF Reading, history
    <2>2. ASSUME NEW k \in Hops, NEW table \in [AllFamilies -> Rules], Become(k, table)
          PROVE  \/ Reading(h)' = Reading(h) /\ left'[h] = left[h]
                 \/ left'[h] = Reading(h)'
      <3>1. CASE h # k
        BY <1>t, <2>2, <3>1 DEF Become, Reading, TypeOK
      <3>2. CASE h = k
        <4>1. rules'[h] = table
          BY <1>t, <2>2, <3>2 DEF Become, TypeOK
        <4>2. Reading(h)' = SumOf(table)
          BY <4>1 DEF Reading
        <4> QED BY <1>t, <2>2, <3>2, <4>2 DEF Become, TypeOK
      <3> QED BY <3>1, <3>2
    <2> QED BY <2>1, <2>2 DEF Touched
  <1>3. NoOvercount'
    BY <1>t, <1>1 DEF NoOvercount
  <1>4. ASSUME NEW h \in Hops
        PROVE  total'[h] + CounterDelta(base'[h], Reading(h)')
                 <= crossed'[h] + again'[h] + left'[h]
    <2> DEFINE d == CounterDelta(base[h], Reading(h))
               e == CounterDelta(base'[h], Reading(h)')
    <2>1. /\ base[h] \in Nat \cup {None} /\ base'[h] \in Nat \cup {None}
          /\ total[h] \in Nat /\ crossed[h] \in Nat /\ again[h] \in Nat
          /\ left[h] \in Nat /\ left'[h] \in Nat
          /\ Reading(h) \in Nat /\ Reading(h)' \in Nat
      <3>1. base'[h] \in Nat \cup {None} /\ left'[h] \in Nat
        BY DEF TypeOK
      <3>2. Reading(h)' \in Nat
        BY <1>t, TouchedTypes, SumType DEF Reading
      <3> QED BY <1>t, <3>1, <3>2, HopTypes
    <2>2. d \in Nat /\ e \in Nat /\ e <= Reading(h)' /\ CounterDelta(None, Reading(h)') = 0
      BY <2>1, DeltaFacts
    <2>3. total[h] <= crossed[h] + again[h] /\ total[h] + d <= crossed[h] + again[h] + left[h]
      BY <1>t DEF NoOvercount, UnreadCrossed, Fold
    <2>4. (left'[h] = left[h] /\ (e = d \/ e = 0)) \/ left'[h] = Reading(h)'
      <3>1. base'[h] = base[h] \/ base'[h] = None
        OBVIOUS
      <3> QED BY <1>2, <2>2, <3>1
    <2> HIDE DEF d, e
    <2>5. total[h] + e <= crossed[h] + again[h] + left'[h]
      BY <2>1, <2>2, <2>3, <2>4
    <2> QED BY <1>1, <2>5 DEF e
  <1>5. UnreadCrossed'
    BY <1>4 DEF UnreadCrossed, Fold
  <1>6. ASSUME loop'.pc = "record", NEW h \in Hops, NEW x \in Nat,
               h = loop.hop, x = loop.got
        PROVE  LET delta == CounterDelta(base'[h], x)
               IN  /\ total[h] + delta <= crossed[h] + again[h]
                   /\ total[h] + delta + CounterDelta(x, Reading(h)')
                        <= crossed[h] + again[h] + left'[h]
    <2> DEFINE d == CounterDelta(base[h], x)
               e == CounterDelta(base'[h], x)
               u == CounterDelta(x, Reading(h))
               v == CounterDelta(x, Reading(h)')
    <2>0. loop.pc = "record" /\ loop' = loop
      BY <1>6
    <2>2. /\ base[h] \in Nat \cup {None} /\ base'[h] \in Nat \cup {None}
          /\ total[h] \in Nat /\ crossed[h] \in Nat /\ again[h] \in Nat
          /\ left[h] \in Nat /\ left'[h] \in Nat
          /\ Reading(h) \in Nat /\ Reading(h)' \in Nat
      <3>1. base'[h] \in Nat \cup {None} /\ left'[h] \in Nat
        BY <1>6 DEF TypeOK
      <3>2. Reading(h)' \in Nat
        BY <1>t, TouchedTypes, SumType DEF Reading
      <3> QED BY <1>t, <3>1, <3>2, HopTypes
    <2>3. /\ d \in Nat /\ e \in Nat /\ e <= d
          /\ u \in Nat /\ v \in Nat /\ v <= Reading(h)'
      <3>1. /\ d \in Nat /\ e \in Nat /\ u \in Nat /\ v \in Nat /\ v <= Reading(h)'
            /\ CounterDelta(None, x) = 0
        BY <2>2, DeltaFacts
      <3>2. base'[h] = base[h] \/ base'[h] = None
        OBVIOUS
      <3>3. e = d \/ e = 0
        BY <3>1, <3>2
      <3> HIDE DEF d, e
      <3> QED BY <3>1, <3>3
    <2>4. /\ total[h] + d <= crossed[h] + again[h]
          /\ total[h] + d + u <= crossed[h] + again[h] + left[h]
      BY <1>t, <1>6, <2>0 DEF InHandCrossed
    <2>5. (left'[h] = left[h] /\ v = u) \/ left'[h] = Reading(h)'
      BY <1>2
    <2> HIDE DEF d, e, u, v
    <2>6. /\ total[h] + e <= crossed[h] + again[h]
          /\ total[h] + e + v <= crossed[h] + again[h] + left'[h]
      BY <2>2, <2>3, <2>4, <2>5
    <2> QED BY <2>6 DEF e, v
  <1>7. InHandCrossed'
    <2> SUFFICES ASSUME loop'.pc = "record" PROVE InHandCrossed'
      BY DEF InHandCrossed
    <2>1. loop.pc = "record" /\ loop' = loop
      OBVIOUS
    <2>2. PICK h \in Hops, x \in Nat : h = loop.hop /\ x = loop.got
      BY <1>t, <2>1, HandTypes
    <2> QED BY <1>1, <1>6, <2>1, <2>2 DEF InHandCrossed
  <1> QED BY <1>3, <1>5, <1>7 DEF Inv

-----------------------------------------------------------------------------
(* Types *)

LEMMA InitInv == Init => Inv
  <1> SUFFICES ASSUME Init PROVE Inv
    OBVIOUS
  <1>1. TypeOK
    BY AccountingAssumption, RuleTypes
       DEF Init, TypeOK, Waiting, Resting, NoPlan, LoopStates, ApplierStates
  <1>2. NoOvercount
    BY DEF Init, NoOvercount
  <1>3. UnreadCrossed
    BY DEF Init, UnreadCrossed, Fold, CounterDelta
  <1>4. InHandCrossed
    BY DEF Init, InHandCrossed, Waiting
  <1> QED BY <1>1, <1>2, <1>3, <1>4 DEF Inv

(* What an applier may be at.                                               *)
GoodApplier(a) ==
    /\ a \in ApplierStates
    /\ a.pc \in {"visit", "rules"} => a.plan \in [Hops -> Listens] /\ a.hop \in Hops

LEMMA ApplierTypes ==
    ASSUME TypeOK, NEW p \in Appliers
    PROVE  /\ GoodApplier(apply[p])
           /\ \A a : GoodApplier(a) =>
                 [apply EXCEPT ![p] = a] \in [Appliers -> {b \in ApplierStates :
                     b.pc \in {"visit", "rules"} => b.plan \in [Hops -> Listens] /\ b.hop \in Hops}]
  BY DEF TypeOK, GoodApplier

(* A visit leaves an applier in a state of its kind.                        *)
LEMMA VisitedType ==
    ASSUME NEW me, GoodApplier(me), me.pc = "visit", NEW last \in BOOLEAN,
           me.hop = 1 => last, NEW rebuilt \in BOOLEAN
    PROVE  GoodApplier(Visited(me, last, rebuilt))
  <1> DEFINE n == IF rebuilt THEN me.rebuilt + 1 ELSE me.rebuilt
  <1>1. /\ me \in ApplierStates /\ me.plan \in [Hops -> Listens] /\ me.hop \in Hops
        /\ n \in Nat /\ me.hop \in 1 .. NHops /\ 0 \in Hops \cup {0}
    BY DEF GoodApplier, ApplierStates, Hops
  <1>2. CASE last
    <2>1. Visited(me, last, rebuilt) = [Resting EXCEPT !.pc = "record", !.rebuilt = n]
      BY <1>2 DEF Visited
    <2>2. NoPlan \in [Hops -> Listens \cup {Unbound}]
      BY DEF NoPlan
    <2> HIDE DEF n
    <2>3. [Resting EXCEPT !.pc = "record", !.rebuilt = n] \in ApplierStates
      BY <1>1, <2>2 DEF Resting, ApplierStates
    <2>4. [Resting EXCEPT !.pc = "record", !.rebuilt = n].pc = "record"
      BY DEF Resting
    <2> QED BY <2>1, <2>3, <2>4 DEF GoodApplier
  <1>3. CASE ~last
    <2>1. me.hop - 1 \in Hops
      BY <1>1, <1>3, AccountingAssumption DEF Hops
    <2>2. Visited(me, last, rebuilt) = [me EXCEPT !.hop = @ - 1, !.rebuilt = n]
      BY <1>3 DEF Visited
    <2> HIDE DEF n
    <2> QED BY <1>1, <2>1, <2>2 DEF GoodApplier, ApplierStates
  <1> QED BY <1>2, <1>3

(* What a visit comes to.                                                   *)
VisitStep(p) ==
    LET h == apply[p].hop
    IN  /\ apply[p].pc \in {"visit", "rules"}
        /\ Touched
        /\ \/ bound' = bound
           \/ \E now \in Listens \cup {Unbound} : bound' = [bound EXCEPT ![h] = now]
        /\ \E a : GoodApplier(a) /\ apply' = [apply EXCEPT ![p] = a]
        /\ UNCHANGED <<listen, stored, loop, updates>>
        /\ faults' \in {faults, faults + 1}

LEMMA Visits ==
    ASSUME TypeOK, NEW p \in Appliers,
           \/ ApplyVisit(p) \/ ApplyRules(p) \/ ApplyRebuilt(p)
           \/ ApplyStuck(p) \/ ApplyUncounted(p) \/ ApplyCutOff(p)
    PROVE  VisitStep(p)
  <1> DEFINE me == apply[p]
             h == me.hop
             want == me.plan[h]
             old == rules[h][want.family]
             back == [me EXCEPT !.pc = "visit"]
  <1>1. GoodApplier(me) /\ me.pc \in {"visit", "rules"}
    BY ApplierTypes DEF ApplyVisit, ApplyRules, ApplyRebuilt, ApplyStuck, ApplyUncounted,
                        ApplyCutOff
  <1>2. me \in ApplierStates /\ h \in Hops /\ me.plan \in [Hops -> Listens]
    BY <1>1 DEF GoodApplier
  <1>3. want \in Listens /\ want.port \in Ports /\ want.family \in AllFamilies
    BY <1>2, AccountingAssumption DEF Listens
  <1>4. old \in Rules
    BY <1>2, <1>3, HopTypes
  <1>5. GoodApplier(back) /\ back.pc = "visit" /\ back.hop = h
    BY <1>2 DEF GoodApplier, ApplierStates
  <1>6. ASSUME NEW rule \in Rules, BecomeIn(h, want.family, rule)
        PROVE  Touched
    <2> HIDE DEF h, want
    <2> QED BY <1>2, <1>3, <1>6, BecomeInTypes DEF Touched
  <1>7. /\ NoRule \in Rules /\ Fresh(want.port) \in Rules /\ Partial(1, 0) \in Rules
        /\ Remains(old) \subseteq Rules /\ Beside(old) \in Rules
    <2> HIDE DEF old, want
    <2> QED BY <1>3, <1>4, RuleTypes, RemainsType
  <1>8. (h = 1) \in BOOLEAN
    OBVIOUS
  <1>9. \A b \in BOOLEAN : GoodApplier(Visited(back, h = 1, b))
    <2> HIDE DEF back, h
    <2> QED BY <1>5, <1>8, VisitedType
  <1>10. CASE ApplyVisit(p)
    <2>1. Touched
      BY <1>10 DEF ApplyVisit, Touched
    <2>2. GoodApplier(Visited(me, h = 1, FALSE))
      <3>1. me.pc = "visit"
        BY <1>10 DEF ApplyVisit
      <3> HIDE DEF me, h
      <3>2. h = me.hop
        BY DEF h
      <3> QED BY <1>1, <1>8, <3>1, <3>2, VisitedType
    <2>3. /\ bound' = [bound EXCEPT ![h] = want]
          /\ apply' = [apply EXCEPT ![p] = Visited(me, h = 1, FALSE)]
          /\ UNCHANGED <<listen, stored, loop, updates, faults>>
      BY <1>10 DEF ApplyVisit
    <2> HIDE DEF want
    <2> QED BY <1>1, <1>3, <2>1, <2>2, <2>3 DEF VisitStep
  <1>11. CASE ApplyRules(p)
    <2>1. Touched
      <3>1. PICK now \in Remains(old) \cup {Partial(1, 0)} : BecomeIn(h, want.family, now)
        BY <1>11 DEF ApplyRules
      <3> HIDE DEF old, h, want
      <3> QED BY <1>6, <1>7, <3>1
    <2>2. GoodApplier([me EXCEPT !.pc = "rules"])
      BY <1>2 DEF GoodApplier, ApplierStates
    <2>3. /\ bound' = bound
          /\ apply' = [apply EXCEPT ![p] = [me EXCEPT !.pc = "rules"]]
          /\ UNCHANGED <<listen, stored, loop, updates, faults>>
      BY <1>11 DEF ApplyRules
    <2> QED BY <1>1, <2>1, <2>2, <2>3 DEF VisitStep
  <1>12. CASE ApplyRebuilt(p) \/ ApplyStuck(p)
    <2>1. Touched
      <3>1. \/ BecomeIn(h, want.family, Beside(old))
            \/ BecomeIn(h, want.family, Fresh(want.port))
        BY <1>12 DEF ApplyRebuilt, ApplyStuck
      <3> HIDE DEF old, h, want
      <3> QED BY <1>6, <1>7, <3>1
    <2>2. /\ bound' = [bound EXCEPT ![h] = want]
          /\ apply' = [apply EXCEPT ![p] = Visited(back, h = 1, TRUE)]
          /\ UNCHANGED <<listen, stored, loop, updates>>
          /\ faults' \in {faults, faults + 1}
      BY <1>12 DEF ApplyRebuilt, ApplyStuck, Fault
    <2> HIDE DEF want, back
    <2> QED BY <1>1, <1>3, <1>9, <2>1, <2>2 DEF VisitStep
  <1>13. CASE ApplyUncounted(p)
    <2>1. Touched
      <3>1. \/ UNCHANGED <<rules, history>>
            \/ \E now \in {old, NoRule, Partial(1, 0), Fresh(want.port)} :
                  BecomeIn(h, want.family, now)
        BY <1>13 DEF ApplyUncounted
      <3> HIDE DEF old, h, want
      <3> QED BY <1>4, <1>6, <1>7, <3>1 DEF Touched
    <2>2. /\ bound' = [bound EXCEPT ![h] = want]
          /\ apply' = [apply EXCEPT ![p] = Visited(back, h = 1, FALSE)]
          /\ UNCHANGED <<listen, stored, loop, updates>>
          /\ faults' = faults + 1
      BY <1>13 DEF ApplyUncounted, Fault
    <2> HIDE DEF want, back
    <2> QED BY <1>1, <1>3, <1>9, <2>1, <2>2 DEF VisitStep
  <1>14. CASE ApplyCutOff(p)
    <2>1. Touched
      <3>1. \/ UNCHANGED <<rules, history>>
            \/ BecomeIn(h, want.family, Fresh(want.port))
        BY <1>14 DEF ApplyCutOff
      <3> HIDE DEF old, h, want
      <3> QED BY <1>6, <1>7, <3>1 DEF Touched
    <2>2. \E now \in Listens \cup {Unbound} : bound' = [bound EXCEPT ![h] = now]
      <3>1. \E now \in {bound[h], want, Unbound} : bound' = [bound EXCEPT ![h] = now]
        BY <1>14 DEF ApplyCutOff
      <3>2. bound[h] \in Listens \cup {Unbound}
        BY <1>2 DEF TypeOK
      <3> HIDE DEF h, want
      <3> QED BY <1>3, <3>1, <3>2
    <2>3. /\ apply' = [apply EXCEPT ![p] = Visited(me, TRUE, me.pc = "rules")]
          /\ UNCHANGED <<listen, stored, loop, updates>>
          /\ faults' = faults + 1
      BY <1>14 DEF ApplyCutOff, Fault
    <2>4. GoodApplier(Visited(me, TRUE, me.pc = "rules"))
      <3> DEFINE n == IF me.pc = "rules" THEN me.rebuilt + 1 ELSE me.rebuilt
      <3>1. Visited(me, TRUE, me.pc = "rules") = [Resting EXCEPT !.pc = "record", !.rebuilt = n]
        BY DEF Visited
      <3>2. n \in Nat
        BY <1>2 DEF ApplierStates
      <3>3. NoPlan \in [Hops -> Listens \cup {Unbound}]
        BY DEF NoPlan
      <3> HIDE DEF n, me
      <3>4. /\ [Resting EXCEPT !.pc = "record", !.rebuilt = n] \in ApplierStates
            /\ [Resting EXCEPT !.pc = "record", !.rebuilt = n].pc = "record"
        BY <3>2, <3>3 DEF Resting, ApplierStates
      <3> QED BY <3>1, <3>4 DEF GoodApplier
    <2> QED BY <1>1, <2>1, <2>2, <2>3, <2>4 DEF VisitStep
  <1> QED BY <1>10, <1>11, <1>12, <1>13, <1>14

LEMMA VisitKeepsInv ==
    ASSUME Inv, NEW p \in Appliers, VisitStep(p)
    PROVE  Inv'
  <1>1. TypeOK /\ Touched
    BY DEF Inv, VisitStep
  <1>2. /\ UNCHANGED <<listen, base, total, loop, updates>>
        /\ faults' \in {faults, faults + 1}
    BY DEF VisitStep, stored
  <1>3. bound' \in [Hops -> Listens \cup {Unbound}]
    <2>1. \/ bound' = bound
          \/ \E now \in Listens \cup {Unbound} : bound' = [bound EXCEPT ![apply[p].hop] = now]
      BY DEF VisitStep
    <2> QED BY <1>1, <2>1 DEF TypeOK
  <1>4. apply' \in [Appliers -> {b \in ApplierStates :
            b.pc \in {"visit", "rules"} => b.plan \in [Hops -> Listens] /\ b.hop \in Hops}]
    <2>1. PICK a : GoodApplier(a) /\ apply' = [apply EXCEPT ![p] = a]
      BY DEF VisitStep
    <2> QED BY <1>1, <2>1, ApplierTypes
  <1>5. TypeOK'
    <2>1. /\ rules' \in [Hops -> [AllFamilies -> Rules]]
          /\ left' \in [Hops -> Nat] /\ crossed' = crossed /\ again' = again
      BY <1>1, TouchedTypes
    <2>2. faults' \in Nat
      BY <1>1, <1>2 DEF TypeOK
    <2> QED BY <1>1, <1>2, <1>3, <1>4, <2>1, <2>2 DEF TypeOK
  <1> QED BY <1>1, <1>2, <1>5, QuietStep

(* Applies before and after their visits.                                   *)
LEMMA ApplyKeepsInv ==
    ASSUME Inv, NEW p \in Appliers, ApplyBegin(p) \/ ApplyRecord(p)
    PROVE  Inv'
  <1>1. TypeOK
    BY DEF Inv
  <1>2. /\ UNCHANGED <<listen, bound, rules, history, total, loop, updates, faults>>
        /\ base' = base \/ base' = [h \in Hops |-> None]
    BY DEF ApplyBegin, ApplyRecord, machines, stored
  <1>3. \E a : GoodApplier(a) /\ apply' = [apply EXCEPT ![p] = a]
    <2>1. CASE ApplyBegin(p)
      <3> DEFINE a == [pc |-> "visit", plan |-> listen, hop |-> NHops, rebuilt |-> 0]
      <3>1. NHops \in Hops
        BY AccountingAssumption DEF Hops
      <3>2. a.plan \in [Hops -> Listens] /\ a.hop \in Hops /\ a \in ApplierStates
        BY <1>1, <3>1 DEF TypeOK, ApplierStates
      <3>3. apply' = [apply EXCEPT ![p] = a]
        BY <2>1 DEF ApplyBegin
      <3> HIDE DEF a
      <3> QED BY <3>2, <3>3 DEF GoodApplier
    <2>2. CASE ApplyRecord(p)
      <3>1. apply[p] \in ApplierStates /\ apply[p].pc = "record"
        BY <1>1, <2>2 DEF TypeOK, ApplyRecord
      <3>2. CASE apply[p].rebuilt > 0
        <4> DEFINE next == [apply[p] EXCEPT !.rebuilt = @ - 1]
        <4>1. apply[p].rebuilt - 1 \in Nat
          BY <3>1, <3>2 DEF ApplierStates
        <4>2. next \in ApplierStates /\ next.pc = "record"
          BY <3>1, <4>1 DEF ApplierStates
        <4>3. apply' = [apply EXCEPT ![p] = next]
          BY <2>2, <3>2 DEF ApplyRecord
        <4> HIDE DEF next
        <4> QED BY <4>2, <4>3 DEF GoodApplier
      <3>3. CASE ~(apply[p].rebuilt > 0)
        <4>1. apply' = [apply EXCEPT ![p] = Resting]
          BY <2>2, <3>3 DEF ApplyRecord
        <4>2. Resting \in ApplierStates /\ Resting.pc = "idle"
          BY DEF Resting, NoPlan, ApplierStates
        <4> QED BY <4>1, <4>2 DEF GoodApplier
      <3> QED BY <3>2, <3>3
    <2> QED BY <2>1, <2>2
  <1>4. apply' \in [Appliers -> {b \in ApplierStates :
            b.pc \in {"visit", "rules"} => b.plan \in [Hops -> Listens] /\ b.hop \in Hops}]
    BY <1>1, <1>3, ApplierTypes
  <1>5. base' \in [Hops -> Nat \cup {None}]
    BY <1>1, <1>2 DEF TypeOK
  <1>6. TypeOK'
    BY <1>1, <1>2, <1>4, <1>5 DEF TypeOK, history
  <1>7. Touched /\ \A h \in Hops : base'[h] = base[h] \/ base'[h] = None
    BY <1>2 DEF Touched
  <1> QED BY <1>2, <1>6, <1>7, QuietStep

(* What else touches rules, but for traffic.                                *)
LEMMA DisturbanceKeepsInv ==
    ASSUME Inv,
           \/ \E h \in Hops : \/ UpdateRoute(h) \/ Remove(h) \/ Reboot(h)
                              \/ \E f \in AllFamilies : Flush(h, f)
           \/ PanelRestart
    PROVE  Inv'
  <1>1. TypeOK
    BY DEF Inv
  <1>2. ASSUME NEW h \in Hops, UpdateRoute(h) PROVE Inv'
    <2>1. UNCHANGED <<bound, rules, history, base, total, loop, apply, faults>>
      BY <1>2 DEF UpdateRoute, machines, stored
    <2>2. TypeOK'
      BY <1>1, <1>2, <2>1 DEF TypeOK, UpdateRoute, history
    <2>3. Touched
      BY <2>1 DEF Touched
    <2> QED BY <2>1, <2>2, <2>3, QuietStep
  <1>3. ASSUME NEW h \in Hops,
               Remove(h) \/ Reboot(h) \/ \E f \in AllFamilies : Flush(h, f)
        PROVE Inv'
    <2>1. /\ UNCHANGED <<listen, base, total, loop, apply, updates>>
          /\ bound' = bound \/ bound' = [bound EXCEPT ![h] = Unbound]
          /\ faults' = faults + 1
      BY <1>3 DEF Remove, Reboot, Flush, stored, Fault
    <2>2. \E table \in [AllFamilies -> Rules] : Become(h, table)
      <3>1. rules[h] \in [AllFamilies -> Rules]
        BY <1>1, HopTypes
      <3>2. CASE Remove(h)
        <4> DEFINE four == rules[h]["ip4"]
                   six == rules[h]["ip6"]
        <4>1. four \in Rules /\ six \in Rules
          BY <3>1 DEF AllFamilies
        <4>2. PICK a \in {four} \cup Remains(four), b \in {six} \cup Remains(six) :
                Become(h, [ip4 |-> a, ip6 |-> b])
          BY <3>2 DEF Remove
        <4> HIDE DEF four, six
        <4>3. a \in Rules /\ b \in Rules
          BY <4>1, <4>2, RemainsType
        <4>4. [ip4 |-> a, ip6 |-> b] \in [AllFamilies -> Rules]
          BY <4>3 DEF AllFamilies
        <4> QED BY <4>2, <4>4
      <3>3. CASE Reboot(h)
        BY <3>3, RuleTypes DEF Reboot
      <3>4. ASSUME NEW f \in AllFamilies, Flush(h, f)
            PROVE  \E table \in [AllFamilies -> Rules] : Become(h, table)
        <4> DEFINE old == rules[h][f]
        <4>1. old \in Rules
          BY <3>1
        <4>2. PICK now \in {[old EXCEPT !.bytes = k] : k \in 0 .. old.bytes} \cup Remains(old) :
                BecomeIn(h, f, now)
          BY <3>4 DEF Flush
        <4> HIDE DEF old
        <4>3. now \in Rules
          <5>1. CASE now \in Remains(old)
            BY <4>1, <5>1, RemainsType
          <5>2. ASSUME NEW k \in 0 .. old.bytes, now = [old EXCEPT !.bytes = k] PROVE now \in Rules
            BY <4>1, <5>2 DEF Rules
          <5> QED BY <4>2, <5>1, <5>2
        <4> QED BY <1>1, <4>2, <4>3, BecomeInTypes
      <3> QED BY <1>3, <3>2, <3>3, <3>4
    <2>3. Touched
      BY <2>2 DEF Touched
    <2>4. TypeOK'
      <3>1. /\ rules' \in [Hops -> [AllFamilies -> Rules]]
            /\ left' \in [Hops -> Nat] /\ crossed' = crossed /\ again' = again
        BY <1>1, <2>3, TouchedTypes
      <3>2. bound' \in [Hops -> Listens \cup {Unbound}] /\ faults' \in Nat
        BY <1>1, <2>1 DEF TypeOK
      <3> QED BY <1>1, <2>1, <3>1, <3>2 DEF TypeOK
    <2> QED BY <2>1, <2>3, <2>4, QuietStep
  <1>4. CASE PanelRestart
    <2>1. /\ UNCHANGED <<listen, bound, rules, history, base, total, updates>>
          /\ loop' = Waiting /\ apply' = [p \in Appliers |-> Resting] /\ faults' = faults + 1
      BY <1>4 DEF PanelRestart, machines, stored, Fault
    <2>2. /\ Waiting \in LoopStates /\ Waiting.pc = "idle"
          /\ Resting \in ApplierStates /\ Resting.pc = "idle"
      BY DEF Resting, NoPlan, ApplierStates, Waiting, LoopStates
    <2>3. TypeOK'
      BY <1>1, <2>1, <2>2 DEF TypeOK, history
    <2>4. Touched
      BY <2>1 DEF Touched
    <2> QED BY <2>1, <2>2, <2>3, <2>4, QuietStep
  <1> QED BY <1>2, <1>3, <1>4

(* A pass of the traffic loop that reads nothing.                           *)
LEMMA PassKeepsInv ==
    ASSUME Inv,
           \/ CollectBegin \/ CollectEnd
           \/ \E h \in Hops : CollectSkip(h) \/ (CollectRead(h) /\ ~Counted(h))
    PROVE  Inv'
  <1>1. TypeOK
    BY DEF Inv
  <1>2. /\ UNCHANGED <<listen, bound, rules, history, base, total, apply, updates>>
        /\ faults' \in {faults, faults + 1}
    BY DEF CollectBegin, CollectEnd, CollectSkip, CollectRead, machines, stored, history, Fault
  <1>3. loop' \in LoopStates /\ loop'.pc # "record"
    <2>1. loop \in LoopStates
      BY <1>1 DEF TypeOK
    <2>2. CASE CollectBegin
      <3>1. loop' = [pc |-> "read", todo |-> Hops, hop |-> 0, got |-> 0]
        BY <2>2 DEF CollectBegin, Waiting
      <3> QED BY <3>1 DEF LoopStates
    <2>4. CASE CollectEnd
      BY <2>4 DEF CollectEnd, Waiting, LoopStates
    <2>3. ASSUME NEW h \in Hops, CollectSkip(h) \/ (CollectRead(h) /\ ~Counted(h))
          PROVE  loop' \in LoopStates /\ loop'.pc # "record"
      <3>1. loop.pc = "read" /\ loop' = [loop EXCEPT !.todo = @ \ {h}]
        BY <2>3 DEF CollectSkip, CollectRead
      <3> QED BY <2>1, <3>1 DEF LoopStates
    <2> QED BY <2>2, <2>3, <2>4
  <1>4. TypeOK'
    <2>1. faults' \in Nat
      BY <1>1, <1>2 DEF TypeOK
    <2> QED BY <1>1, <1>2, <1>3, <2>1 DEF TypeOK, history
  <1>5. Touched
    BY <1>2 DEF Touched
  <1> QED BY <1>2, <1>3, <1>4, <1>5, QuietStep

(* Taking a reading moves what is left over to what was shown again.        *)
LEMMA ReadKeepsInv ==
    ASSUME Inv, NEW h \in Hops, CollectRead(h), Counted(h)
    PROVE  Inv'
  <1>1. TypeOK /\ NoOvercount /\ UnreadCrossed
    BY DEF Inv
  <1>2. /\ UNCHANGED <<listen, bound, rules, base, total, apply, crossed, updates, faults>>
        /\ again' = [again EXCEPT ![h] = @ + left[h]]
        /\ left' = [left EXCEPT ![h] = 0]
        /\ loop' = [pc |-> "record", todo |-> loop.todo \ {h}, hop |-> h, got |-> Reading(h)]
    BY DEF CollectRead, machines, stored
  <1>3. /\ left' \in [Hops -> Nat] /\ again' \in [Hops -> Nat]
        /\ \A k \in Hops : again'[k] + left'[k] = again[k] + left[k] /\ again[k] <= again'[k]
        /\ again'[h] = again[h] + left[h] /\ left'[h] = 0
    <2>1. left \in [Hops -> Nat] /\ again \in [Hops -> Nat]
      BY <1>1 DEF TypeOK
    <2>2. again[h] + left[h] \in Nat
      BY <2>1
    <2>3. left' \in [Hops -> Nat] /\ again' \in [Hops -> Nat]
      BY <1>2, <2>1, <2>2
    <2>4. \A k \in Hops : k # h => again'[k] = again[k] /\ left'[k] = left[k]
      BY <1>2, <2>1
    <2>5. again'[h] = again[h] + left[h] /\ left'[h] = 0
      BY <1>2, <2>1
    <2> QED BY <2>1, <2>3, <2>4, <2>5
  <1>4. TypeOK'
    <2>1. loop' \in LoopStates /\ loop'.hop \in Hops
      BY <1>1, <1>2, ReadingType DEF TypeOK, LoopStates
    <2> QED BY <1>1, <1>2, <1>3, <2>1 DEF TypeOK
  <1>5. NoOvercount'
    <2> SUFFICES ASSUME NEW k \in Hops PROVE total'[k] <= crossed'[k] + again'[k]
      BY DEF NoOvercount
    <2>1. total[k] <= crossed[k] + again[k]
      BY <1>1 DEF NoOvercount
    <2>2. again[k] <= again'[k] /\ again'[k] \in Nat
      BY <1>3
    <2> QED BY <1>1, <1>2, <2>1, <2>2, HopTypes
  <1>6. \A k \in Hops : Reading(k)' = Reading(k)
    BY <1>2 DEF Reading
  <1>7. UnreadCrossed'
    <2> SUFFICES ASSUME NEW k \in Hops
                 PROVE  total'[k] + CounterDelta(base'[k], Reading(k)')
                          <= crossed'[k] + again'[k] + left'[k]
      BY DEF UnreadCrossed, Fold
    <2> DEFINE d == CounterDelta(base[k], Reading(k))
    <2>1. total[k] + d <= crossed[k] + again[k] + left[k]
      BY <1>1 DEF UnreadCrossed, Fold
    <2>2. /\ again'[k] + left'[k] = again[k] + left[k]
          /\ again'[k] \in Nat /\ left'[k] \in Nat
      BY <1>3
    <2>3. d \in Nat /\ crossed[k] \in Nat /\ again[k] \in Nat /\ left[k] \in Nat /\ total[k] \in Nat
      BY <1>1, HopTypes, DeltaFacts
    <2>4. CounterDelta(base'[k], Reading(k)') = d
      BY <1>2, <1>6
    <2> HIDE DEF d
    <2> QED BY <1>2, <2>1, <2>2, <2>3, <2>4
  <1>8. InHandCrossed'
    <2> DEFINE x == Reading(h)
               d == CounterDelta(base[h], x)
    <2>1. total[h] + d <= crossed[h] + again[h] + left[h]
      BY <1>1 DEF UnreadCrossed, Fold
    <2>2. d \in Nat /\ crossed[h] \in Nat /\ again[h] \in Nat /\ left[h] \in Nat /\ total[h] \in Nat
      BY <1>1, HopTypes, DeltaFacts
    <2>3. CounterDelta(x, x) = 0
      BY <1>1, HopTypes, DeltaFacts
    <2>4. loop'.hop = h /\ loop'.got = x /\ Reading(h)' = x
      BY <1>2, <1>6
    <2> HIDE DEF x, d
    <2>5. /\ total[h] + d <= crossed[h] + again'[h]
          /\ total[h] + d + CounterDelta(x, x) <= crossed[h] + again'[h] + left'[h]
      BY <1>3, <2>1, <2>2, <2>3
    <2>6. LET k == loop'.hop
              delta == CounterDelta(base'[k], loop'.got)
          IN  /\ total'[k] + delta <= crossed'[k] + again'[k]
              /\ total'[k] + delta + CounterDelta(loop'.got, Reading(h)')
                   <= crossed'[k] + again'[k] + left'[k]
      BY <1>2, <2>4, <2>5 DEF d
    <2> QED BY <2>4, <2>6 DEF InHandCrossed
  <1> QED BY <1>4, <1>5, <1>7, <1>8 DEF Inv

(* Writing it down moves its growth into the total.                         *)
LEMMA RecordKeepsInv ==
    ASSUME Inv, RecordTraffic
    PROVE  Inv'
  <1>1. TypeOK /\ NoOvercount /\ UnreadCrossed /\ InHandCrossed /\ loop.pc = "record"
    BY DEF Inv, RecordTraffic
  <1> DEFINE h == loop.hop
             x == loop.got
             d == CounterDelta(base[h], x)
  <1>2. h \in Hops /\ x \in Nat
    BY <1>1, HandTypes
  <1>3. d \in Nat /\ total[h] + d \in Nat
    <2>1. d \in Nat /\ total[h] \in Nat
      BY <1>1, <1>2, HopTypes, DeltaFacts
    <2> HIDE DEF d, h
    <2> QED BY <2>1
  <1>4. /\ UNCHANGED <<listen, bound, rules, apply, history, updates, faults>>
        /\ total' = [total EXCEPT ![h] = @ + d] /\ base' = [base EXCEPT ![h] = x]
        /\ loop' = [Waiting EXCEPT !.pc = "read", !.todo = loop.todo]
    BY DEF RecordTraffic, machines
  <1>5. TypeOK'
    <2>1. loop' \in LoopStates /\ loop'.pc = "read"
      BY <1>1, <1>4 DEF TypeOK, LoopStates, Waiting
    <2>2. total' \in [Hops -> Nat] /\ base' \in [Hops -> Nat \cup {None}]
      <3> HIDE DEF h, x, d
      <3> QED BY <1>1, <1>2, <1>3, <1>4 DEF TypeOK
    <2> QED BY <1>1, <1>4, <2>1, <2>2 DEF TypeOK, history
  <1>6. /\ total[h] + d <= crossed[h] + again[h]
        /\ total[h] + d + CounterDelta(x, Reading(h)) <= crossed[h] + again[h] + left[h]
    BY <1>1 DEF InHandCrossed
  <1>7. /\ \A k \in Hops : k # h => total'[k] = total[k] /\ base'[k] = base[k]
        /\ total'[h] = total[h] + d /\ base'[h] = x
        /\ crossed' = crossed /\ again' = again /\ left' = left
        /\ \A k \in Hops : Reading(k)' = Reading(k)
    <2>1. crossed' = crossed /\ again' = again /\ left' = left
      BY <1>4 DEF history
    <2>2. \A k \in Hops : Reading(k)' = Reading(k)
      BY <1>4 DEF Reading
    <2> HIDE DEF h, x, d
    <2> QED BY <1>1, <1>2, <1>4, <2>1, <2>2 DEF TypeOK
  <1>8. NoOvercount'
    <2> SUFFICES ASSUME NEW k \in Hops PROVE total'[k] <= crossed'[k] + again'[k]
      BY DEF NoOvercount
    <2>1. total[k] <= crossed[k] + again[k]
      BY <1>1 DEF NoOvercount
    <2> HIDE DEF h, d
    <2> QED BY <1>6, <1>7, <2>1
  <1>9. UnreadCrossed'
    <2> SUFFICES ASSUME NEW k \in Hops
                 PROVE  total'[k] + CounterDelta(base'[k], Reading(k)')
                          <= crossed'[k] + again'[k] + left'[k]
      BY DEF UnreadCrossed, Fold
    <2>1. total[k] + CounterDelta(base[k], Reading(k)) <= crossed[k] + again[k] + left[k]
      BY <1>1 DEF UnreadCrossed, Fold
    <2> HIDE DEF h, x, d
    <2>2. CASE k = h
      BY <1>6, <1>7, <2>2
    <2>3. CASE k # h
      BY <1>7, <2>1, <2>3
    <2> QED BY <2>2, <2>3
  <1>10. InHandCrossed'
    <2>1. loop'.pc = "read"
      BY <1>4 DEF Waiting
    <2> QED BY <2>1 DEF InHandCrossed
  <1> QED BY <1>5, <1>8, <1>9, <1>10 DEF Inv

(* A byte that crosses is counted once, or the rest is noted.               *)
LEMMA CrossKeepsInv ==
    ASSUME Inv, NEW h \in Hops, Cross(h)
    PROVE  Inv'
  <1> DEFINE f == bound[h].family
  <1>1. TypeOK /\ NoOvercount /\ UnreadCrossed /\ InHandCrossed
    BY DEF Inv
  <1>2. f \in AllFamilies
    BY <1>1, AccountingAssumption DEF TypeOK, Cross, Listens
  <1>3. PICK n \in Counters(h) :
          /\ rules' = [rules EXCEPT ![h][f].bytes = @ + n]
          /\ again' = [again EXCEPT ![h] = IF n > 1 THEN @ + (n - 1) ELSE @]
    BY DEF Cross
  <1>4. /\ UNCHANGED <<listen, bound, left, base, total, loop, apply, updates, faults>>
        /\ crossed' = [crossed EXCEPT ![h] = @ + 1]
    BY DEF Cross, stored
  <1> HIDE DEF f
  <1>5. rules[h] \in [AllFamilies -> Rules] /\ rules[h][f] \in Rules
    BY <1>1, <1>2, HopTypes
  <1>6. n \in Nat
    <2>1. rules[h][f].sets \in Nat
      BY <1>5 DEF Rules
    <2>2. n \in 0 .. rules[h][f].sets \/ n \in {0, 1}
      BY <1>3 DEF Counters, f
    <2> QED BY <2>1, <2>2
  <1> DEFINE rule == [rules[h][f] EXCEPT !.bytes = @ + n]
             table == [rules[h] EXCEPT ![f] = rule]
  <1>7. rule \in Rules /\ rule.bytes = rules[h][f].bytes + n
    <2>1. rules[h][f].bytes \in Nat /\ rules[h][f].bytes + n \in Nat
      BY <1>5, <1>6 DEF Rules
    <2> QED BY <1>5, <2>1 DEF Rules
  <1>8. table \in [AllFamilies -> Rules] /\ SumOf(table) = Reading(h) + n
    <2> HIDE DEF rule
    <2>1. table \in [AllFamilies -> Rules] /\ table[f] = rule
      BY <1>2, <1>5, <1>7
    <2>2. \A g \in AllFamilies : g # f => table[g] = rules[h][g]
      BY <1>2, <1>5
    <2>3. \A g \in AllFamilies : rules[h][g].bytes \in Nat
      BY <1>5 DEF Rules
    <2>4. f = "ip4" \/ f = "ip6"
      BY <1>2 DEF AllFamilies
    <2> HIDE DEF table
    <2>5. CASE f = "ip4"
      <3>1. table["ip4"].bytes = rules[h]["ip4"].bytes + n /\ table["ip6"] = rules[h]["ip6"]
        BY <1>7, <2>1, <2>2, <2>5 DEF AllFamilies
      <3>2. rules[h]["ip4"].bytes \in Nat /\ rules[h]["ip6"].bytes \in Nat
        BY <2>3 DEF AllFamilies
      <3> QED BY <1>6, <2>1, <3>1, <3>2 DEF Reading, SumOf
    <2>6. CASE f = "ip6"
      <3>1. table["ip6"].bytes = rules[h]["ip6"].bytes + n /\ table["ip4"] = rules[h]["ip4"]
        BY <1>7, <2>1, <2>2, <2>6 DEF AllFamilies
      <3>2. rules[h]["ip4"].bytes \in Nat /\ rules[h]["ip6"].bytes \in Nat
        BY <2>3 DEF AllFamilies
      <3> QED BY <1>6, <2>1, <3>1, <3>2 DEF Reading, SumOf
    <2> QED BY <2>1, <2>4, <2>5, <2>6
  <1>9. rules' = [rules EXCEPT ![h] = table]
    BY <1>3
  <1> HIDE DEF rule, table
  <1>10. /\ rules' \in [Hops -> [AllFamilies -> Rules]]
         /\ Reading(h)' = Reading(h) + n
         /\ \A k \in Hops : k # h => Reading(k)' = Reading(k)
    BY <1>1, <1>8, <1>9 DEF TypeOK, Reading
  (* What a hop carried and what was shown again grow by what it counted.   *)
  <1>11. /\ crossed' \in [Hops -> Nat] /\ again' \in [Hops -> Nat]
         /\ \A k \in Hops : k # h => crossed'[k] = crossed[k] /\ again'[k] = again[k]
         /\ crossed[h] + again[h] + n <= crossed'[h] + again'[h]
         /\ crossed[h] + again[h] <= crossed'[h] + again'[h]
    <2>1. crossed \in [Hops -> Nat] /\ again \in [Hops -> Nat]
      BY <1>1 DEF TypeOK
    <2> DEFINE more == IF n > 1 THEN again[h] + (n - 1) ELSE again[h]
    <2>2. more \in Nat /\ crossed[h] + 1 \in Nat
          /\ crossed[h] + again[h] + n <= crossed[h] + 1 + more
          /\ crossed[h] + again[h] <= crossed[h] + 1 + more
      BY <1>6, <2>1
    <2>3. again' = [again EXCEPT ![h] = more]
      BY <1>3
    <2> HIDE DEF more
    <2> QED BY <1>4, <2>1, <2>2, <2>3
  <1>12. TypeOK'
    BY <1>1, <1>4, <1>10, <1>11 DEF TypeOK
  <1>13. NoOvercount'
    <2> SUFFICES ASSUME NEW k \in Hops PROVE total[k] <= crossed'[k] + again'[k]
      BY <1>4 DEF NoOvercount
    <2>1. /\ total[k] <= crossed[k] + again[k] /\ total[k] \in Nat
          /\ crossed[k] \in Nat /\ again[k] \in Nat
      BY <1>1, HopTypes DEF NoOvercount
    <2>2. crossed'[k] \in Nat /\ again'[k] \in Nat
      BY <1>11
    <2> QED BY <1>11, <2>1, <2>2
  <1>14. ASSUME NEW k \in Hops, NEW r \in Nat \cup {None}, NEW t \in Nat,
                t + CounterDelta(r, Reading(k)) <= crossed[k] + again[k] + left[k]
         PROVE  t + CounterDelta(r, Reading(k)') <= crossed'[k] + again'[k] + left[k]
    <2> DEFINE d == CounterDelta(r, Reading(k))
    <2>1. d \in Nat /\ crossed[k] \in Nat /\ again[k] \in Nat /\ left[k] \in Nat
          /\ Reading(k) \in Nat
      BY <1>1, HopTypes, DeltaFacts
    <2>2. crossed'[k] \in Nat /\ again'[k] \in Nat
      BY <1>11
    <2>3. CASE k # h
      BY <1>10, <1>11, <1>14, <2>3
    <2>4. CASE k = h
      <3> DEFINE e == CounterDelta(r, Reading(h)')
      <3>1. e \in Nat /\ e <= d + n
        BY <1>6, <1>10, <2>1, <2>4, DeltaGrows
      <3>2. t + d <= crossed[k] + again[k] + left[k]
        BY <1>14
      <3>3. crossed[k] + again[k] + n <= crossed'[k] + again'[k]
        BY <1>11, <2>4
      <3> HIDE DEF d, e
      <3>4. t + e <= crossed'[k] + again'[k] + left[k]
        BY <1>6, <2>1, <2>2, <3>1, <3>2, <3>3
      <3> QED BY <2>4, <3>4 DEF e
    <2> QED BY <2>3, <2>4
  <1>15. UnreadCrossed'
    <2> SUFFICES ASSUME NEW k \in Hops
                 PROVE  total[k] + CounterDelta(base[k], Reading(k)')
                          <= crossed'[k] + again'[k] + left[k]
      BY <1>4 DEF UnreadCrossed, Fold
    <2>1. total[k] + CounterDelta(base[k], Reading(k)) <= crossed[k] + again[k] + left[k]
      BY <1>1 DEF UnreadCrossed, Fold
    <2>2. base[k] \in Nat \cup {None} /\ total[k] \in Nat
      BY <1>1, HopTypes
    <2> QED BY <1>14, <2>1, <2>2
  <1>16. ASSUME loop.pc = "record", NEW k \in Hops, NEW x \in Nat,
                k = loop.hop, x = loop.got
         PROVE  LET delta == CounterDelta(base[k], x)
                IN  /\ total[k] + delta <= crossed'[k] + again'[k]
                    /\ total[k] + delta + CounterDelta(x, Reading(k)')
                         <= crossed'[k] + again'[k] + left[k]
    <2> DEFINE d == CounterDelta(base[k], x)
    <2>1. /\ total[k] + d <= crossed[k] + again[k]
          /\ total[k] + d + CounterDelta(x, Reading(k)) <= crossed[k] + again[k] + left[k]
      BY <1>1, <1>16 DEF InHandCrossed
    <2>2. d \in Nat /\ total[k] \in Nat /\ crossed[k] \in Nat /\ again[k] \in Nat
      BY <1>1, HopTypes, DeltaFacts
    <2>3. crossed'[k] \in Nat /\ again'[k] \in Nat
      BY <1>11
    <2>4. crossed[k] + again[k] <= crossed'[k] + again'[k]
      BY <1>11, <2>2
    <2> DEFINE t == total[k] + d
    <2>5. t \in Nat /\ t + CounterDelta(x, Reading(k)) <= crossed[k] + again[k] + left[k]
      <3> HIDE DEF d
      <3> QED BY <2>1, <2>2
    <2> HIDE DEF d
    <2>6. t <= crossed'[k] + again'[k]
      BY <2>1, <2>2, <2>3, <2>4
    <2> HIDE DEF t
    <2>7. t + CounterDelta(x, Reading(k)') <= crossed'[k] + again'[k] + left[k]
      BY <1>14, <2>5
    <2> QED BY <2>6, <2>7 DEF t, d
  <1>17. InHandCrossed'
    <2> SUFFICES ASSUME loop.pc = "record" PROVE InHandCrossed'
      BY <1>4 DEF InHandCrossed
    <2>1. PICK k \in Hops, x \in Nat : k = loop.hop /\ x = loop.got
      BY <1>1, HandTypes
    <2> QED BY <1>4, <1>16, <2>1 DEF InHandCrossed
  <1> QED BY <1>12, <1>13, <1>15, <1>17 DEF Inv

LEMMA InvStep == Inv /\ [Next]_vars => Inv'
  <1> SUFFICES ASSUME Inv, [Next]_vars PROVE Inv'
    OBVIOUS
  <1>1. CASE UNCHANGED vars
    <2>1. UNCHANGED <<listen, bound, rules, base, total, loop, apply, history, updates, faults>>
      BY <1>1 DEF vars, machines, stored
    <2>2. TypeOK'
      BY <2>1 DEF Inv, TypeOK, history
    <2>3. Touched
      BY <2>1 DEF Touched
    <2> QED BY <2>1, <2>2, <2>3, QuietStep
  <1>2. CASE CollectTraffic \/ \E h \in Hops : CollectSkip(h)
    <2>1. ASSUME NEW h \in Hops, CollectRead(h) PROVE Inv'
      <3>1. CASE Counted(h)
        BY <2>1, <3>1, ReadKeepsInv
      <3>2. CASE ~Counted(h)
        BY <2>1, <3>2, PassKeepsInv
      <3> QED BY <3>1, <3>2
    <2>2. CASE RecordTraffic
      BY <2>2, RecordKeepsInv
    <2>3. CASE CollectBegin \/ CollectEnd
      BY <2>3, PassKeepsInv
    <2>4. ASSUME NEW h \in Hops, CollectSkip(h) PROVE Inv'
      <3>1. \E k \in Hops : CollectSkip(k) \/ (CollectRead(k) /\ ~Counted(k))
        BY <2>4
      <3> QED BY <3>1, PassKeepsInv
    <2> QED BY <1>2, <2>1, <2>2, <2>3, <2>4 DEF CollectTraffic
  <1>3. ASSUME NEW p \in Appliers,
               \/ ApplyRoute(p) \/ ApplyStuck(p) \/ ApplyUncounted(p) \/ ApplyCutOff(p)
        PROVE  Inv'
    <2>1. TypeOK
      BY DEF Inv
    <2>2. CASE ApplyBegin(p) \/ ApplyRecord(p)
      BY <2>2, ApplyKeepsInv
    <2>3. CASE \/ ApplyVisit(p) \/ ApplyRules(p) \/ ApplyRebuilt(p)
               \/ ApplyStuck(p) \/ ApplyUncounted(p) \/ ApplyCutOff(p)
      BY <2>1, <2>3, Visits, VisitKeepsInv
    <2> QED BY <1>3, <2>2, <2>3 DEF ApplyRoute
  <1>4. CASE Disturbance
    BY <1>4, DisturbanceKeepsInv, CrossKeepsInv DEF Disturbance
  <1> QED BY <1>1, <1>2, <1>3, <1>4 DEF Next

(* A hop's total is at most what its relay carried and what rules that      *)
(* outlived others, or were made twice, showed a second time, whatever the  *)
(* length of the chain, the number of applies at work on it, the faults and *)
(* the traffic.                                                             *)
THEOREM CountedHasCrossed == Spec => []NoOvercount
  <1>1. Inv => NoOvercount
    BY DEF Inv
  <1> QED BY <1>1, InvStep, InitInv, PTL DEF Spec
=============================================================================
