---- MODULE NetworkBaseline_proofs ----
(***************************************************************************)
(* Proofs about NetworkBaseline, whatever the traffic, the resets and the  *)
(* restarts.                                                               *)
(***************************************************************************)
EXTENDS NetworkBaseline, TLAPS

USE DEF Bytes, Zero

\* A baseline `base`, taken when the observation `seen` began or moved by a
\* reset since, is close enough to the counters: they never exceed it by more
\* than the traffic seen, and by exactly that much before a reset.
Anchored(base, seen) ==
    base \in Bytes =>
        /\ AtMost(counter, Plus(base, seen.traffic))
        /\ ~seen.reset => counter = Plus(base, seen.traffic)

\* The inductive invariant: both baselines, the one in memory and the one on
\* disk, are anchored to their own observation.
IInv ==
    /\ TypeOK
    /\ up => Anchored(baseline, observed)
    /\ Anchored(saved, onDisk)
    /\ NeverOvercountsFromBaseline
    /\ ExactWithoutReset

LEMMA Facts ==
    /\ MaxTraffic \in Nat /\ MaxResets \in Nat
    /\ Missing \notin Bytes /\ NoState \notin Bytes
    /\ Nothing \in Observation
    /\ Zero \in Bytes
BY TrafficAssumption DEF Missing, NoState, Nothing, Observation

LEMMA StartKeeps ==
    ASSUME IInv, Start
    PROVE  IInv'
<1>0. TypeOK
  BY DEF IInv
<1>1. up' /\ reported' = Zero /\ collected' = Zero /\ based'
  BY DEF Start
<1>2. baseline' \in Bytes \cup {Missing} /\ observed' \in Observation
  BY <1>0, Facts DEF Start, Restore, Fresh, TypeOK, Bytes
<1>3. TypeOK'
  BY <1>0, <1>1, <1>2, Facts DEF TypeOK, Start
<1>4. Anchored(baseline, observed)'
  <2>1. CASE Restore
    BY <2>1 DEF IInv, Anchored, Restore, Start
  <2>2. CASE Fresh
    <3>1. observed'.traffic = Zero /\ counter' = counter
      BY <2>2 DEF Fresh, Nothing, Start
    <3>2. CASE baseline' = counter
      BY <1>0, <3>1, <3>2 DEF Anchored, AtMost, Plus, TypeOK
    <3>3. CASE baseline' = Missing
      BY <3>3, Facts DEF Anchored
    <3> QED
      BY <2>2, <3>2, <3>3 DEF Fresh
  <2> QED
    BY <2>1, <2>2 DEF Start
<1>5. Anchored(saved, onDisk)'
  BY DEF IInv, Anchored, Start
<1> QED
  BY <1>1, <1>3, <1>4, <1>5, Facts DEF IInv, NeverOvercountsFromBaseline, ExactWithoutReset, AtMost

LEMMA CollectKeeps ==
    ASSUME IInv, Collect
    PROVE  IInv'
<1>0. /\ TypeOK /\ MaxTraffic \in Nat
      /\ counter \in Bytes /\ observed \in Observation /\ observed.traffic \in Bytes
  BY Facts DEF IInv, TypeOK, Observation
<1>1. Base \in Bytes
  BY <1>0, Facts DEF Base, TypeOK
<1>2. Anchored(baseline, observed) /\ up'
  BY DEF IInv, Collect
<1>3. Anchored(saved, onDisk)'
  BY DEF IInv, Anchored, Collect
<1>4. CASE BelowBaseline
  <2>1. baseline' = counter /\ reported' = Zero /\ collected' = observed.traffic
    BY <1>4 DEF Collect
  <2>2. TypeOK'
    BY <1>0, <2>1 DEF TypeOK, Collect
  <2>3. AtMost(counter, Plus(counter, observed.traffic))
    BY <1>0 DEF AtMost, Plus
  <2>4. baseline \in Bytes => observed.reset
    <3> SUFFICES ASSUME baseline \in Bytes, ~observed.reset PROVE FALSE
      OBVIOUS
    <3>1. counter = Plus(baseline, observed.traffic) /\ Base = baseline
      BY <1>2, Facts DEF Anchored, Base
    <3> QED
      BY <1>0, <1>4, <3>1 DEF BelowBaseline, AtMost, Plus
  <2>5. baseline \in Bytes
    <3> SUFFICES ASSUME baseline = Missing PROVE FALSE
      BY <1>0 DEF TypeOK
    <3> QED
      BY <1>0, <1>4 DEF BelowBaseline, Base, AtMost
  <2>6. observed.reset
    BY <2>4, <2>5
  <2>7. Anchored(baseline, observed)'
    BY <2>1, <2>3, <2>6 DEF Anchored, Collect
  <2>8. NeverOvercountsFromBaseline' /\ ExactWithoutReset'
    BY <1>0, <2>1, <2>6 DEF NeverOvercountsFromBaseline, ExactWithoutReset, AtMost, Collect
  <2> QED
    BY <1>3, <2>2, <2>7, <2>8 DEF IInv
<1>5. CASE ~BelowBaseline
  <2>1. /\ baseline' = baseline /\ reported' = Minus(counter, Base)
        /\ collected' = observed.traffic
    BY <1>5 DEF Collect
  <2>2. Minus(counter, Base) \in Bytes
    BY <1>0, <1>1, <1>5 DEF BelowBaseline, AtMost, Minus
  <2>3. TypeOK'
    BY <1>0, <2>1, <2>2 DEF TypeOK, Collect
  <2>4. Anchored(baseline, observed)'
    BY <1>2, <2>1 DEF Anchored, Collect
  <2>5. based' => Base = baseline /\ baseline \in Bytes
    BY <1>0 DEF Collect, Base, TypeOK
  <2>6. NeverOvercountsFromBaseline'
    <3> SUFFICES ASSUME based' PROVE AtMost(Minus(counter, Base), observed.traffic)
      BY <2>1 DEF NeverOvercountsFromBaseline
    <3>1. AtMost(counter, Plus(Base, observed.traffic))
      BY <1>2, <2>5 DEF Anchored
    <3> QED
      BY <1>0, <1>1, <3>1 DEF AtMost, Plus, Minus
  <2>7. ExactWithoutReset'
    <3> SUFFICES ASSUME based', ~observed.reset PROVE Minus(counter, Base) = observed.traffic
      BY <2>1 DEF ExactWithoutReset, Collect
    <3>1. counter = Plus(Base, observed.traffic)
      BY <1>2, <2>5 DEF Anchored
    <3> QED
      BY <1>0, <1>1, <3>1 DEF Plus, Minus
  <2> QED
    BY <1>2, <1>3, <2>3, <2>4, <2>6, <2>7 DEF IInv
<1> QED
  BY <1>4, <1>5

LEMMA SaveKeeps ==
    ASSUME IInv, Save
    PROVE  IInv'
BY DEF IInv, Save, TypeOK, Anchored, NeverOvercountsFromBaseline, ExactWithoutReset

LEMMA EndKeeps ==
    ASSUME IInv, End
    PROVE  IInv'
BY DEF IInv, End, TypeOK, Anchored, NeverOvercountsFromBaseline, ExactWithoutReset

LEMMA TrafficKeeps ==
    ASSUME IInv, Traffic
    PROVE  IInv'
<1> PICK packet \in {[rx |-> 1, tx |-> 0], [rx |-> 0, tx |-> 1]} :
        /\ counter' = Plus(counter, packet)
        /\ observed' = [observed EXCEPT !.traffic = Plus(observed.traffic, packet)]
        /\ onDisk' = IF saved = NoState THEN onDisk
                     ELSE [onDisk EXCEPT !.traffic = Plus(onDisk.traffic, packet)]
        /\ {counter', observed'.traffic, onDisk'.traffic} \subseteq Bytes
        /\ UNCHANGED <<up, monitored, baseline, saved, reported, based, collected, resets>>
  BY DEF Traffic
<1>0. /\ TypeOK /\ counter \in Bytes /\ MaxTraffic \in Nat
      /\ observed \in Observation /\ observed.traffic \in Bytes
      /\ onDisk \in Observation /\ onDisk.traffic \in Bytes
  BY Facts DEF IInv, TypeOK, Observation
<1>1. observed' \in Observation /\ observed'.traffic = Plus(observed.traffic, packet)
      /\ observed'.reset = observed.reset
  BY <1>0 DEF Observation
<1>2. onDisk' \in Observation /\ onDisk'.reset = onDisk.reset
      /\ (saved \in Bytes => onDisk'.traffic = Plus(onDisk.traffic, packet))
  BY <1>0, Facts DEF Observation
<1>3. TypeOK'
  BY <1>0, <1>1, <1>2 DEF TypeOK
<1>4. ASSUME NEW base \in Bytes, NEW traffic \in Bytes
      PROVE  /\ AtMost(counter, Plus(base, traffic)) =>
                  AtMost(Plus(counter, packet), Plus(base, Plus(traffic, packet)))
             /\ counter = Plus(base, traffic) =>
                  Plus(counter, packet) = Plus(base, Plus(traffic, packet))
  BY <1>0 DEF AtMost, Plus
<1>5. (up => Anchored(baseline, observed))'
  BY <1>0, <1>1, <1>4 DEF IInv, Anchored
<1>6. Anchored(saved, onDisk)'
  BY <1>0, <1>2, <1>4 DEF IInv, Anchored
<1>7. NeverOvercountsFromBaseline' /\ ExactWithoutReset'
  BY <1>1 DEF IInv, NeverOvercountsFromBaseline, ExactWithoutReset
<1> QED
  BY <1>3, <1>5, <1>6, <1>7 DEF IInv

LEMMA ResetKeeps ==
    ASSUME IInv, CountersReset
    PROVE  IInv'
<1>0. /\ TypeOK /\ counter \in Bytes /\ MaxTraffic \in Nat /\ MaxResets \in Nat
      /\ observed \in Observation /\ observed.traffic \in Bytes
      /\ onDisk \in Observation /\ onDisk.traffic \in Bytes
  BY Facts DEF IInv, TypeOK, Observation
<1>1. /\ observed' \in Observation /\ onDisk' \in Observation
      /\ observed'.reset /\ observed'.traffic = observed.traffic
      /\ onDisk'.reset /\ onDisk'.traffic = onDisk.traffic
  BY <1>0 DEF CountersReset, Observation
<1>2. counter' = Zero /\ counter' \in Bytes
  BY <1>0 DEF CountersReset
<1>3. TypeOK'
  BY <1>0, <1>1, <1>2 DEF TypeOK, CountersReset
<1>4. ASSUME NEW base \in Bytes, NEW traffic \in Bytes
      PROVE  AtMost(Zero, Plus(base, traffic))
  BY <1>0 DEF AtMost, Plus
<1>5. (up => Anchored(baseline, observed))' /\ Anchored(saved, onDisk)'
  BY <1>0, <1>1, <1>2, <1>4 DEF Anchored
<1>6. NeverOvercountsFromBaseline' /\ ExactWithoutReset'
  BY <1>1 DEF IInv, CountersReset, NeverOvercountsFromBaseline, ExactWithoutReset
<1> QED
  BY <1>3, <1>5, <1>6 DEF IInv

\* The inductive invariant holds at the start and is kept by every step.
THEOREM IInvCorrect == Spec => []IInv
<1>1. Init => IInv
  <2> SUFFICES ASSUME Init PROVE IInv
    OBVIOUS
  <2>1. counter \in Bytes
    BY TrafficAssumption DEF Init
  <2>2. TypeOK
    <3>1. observed \in Observation /\ onDisk \in Observation
      BY Facts DEF Init
    <3>2. reported \in Bytes /\ collected \in Bytes
      BY Facts DEF Init
    <3>3. baseline \in Bytes \cup {Missing} /\ saved \in Bytes \cup {Missing, NoState}
      BY DEF Init
    <3>4. up \in BOOLEAN /\ monitored \in BOOLEAN /\ based \in BOOLEAN
      BY Zenon DEF Init
    <3>5. resets \in 0 .. MaxResets
      BY Facts, resets = 0 DEF Init
    <3> QED
      BY <2>1, <3>1, <3>2, <3>3, <3>4, <3>5 DEF TypeOK
  <2>3. ~up /\ saved \notin Bytes
    BY Facts DEF Init
  <2>4. NeverOvercountsFromBaseline /\ ExactWithoutReset
    BY DEF Init, NeverOvercountsFromBaseline, ExactWithoutReset, AtMost
  <2> QED
    BY <2>2, <2>3, <2>4 DEF IInv, Anchored
<1>2. IInv /\ [Next]_vars => IInv'
  <2> SUFFICES ASSUME IInv, [Next]_vars PROVE IInv'
    OBVIOUS
  <2>1. CASE UNCHANGED vars
    BY <2>1 DEF vars, IInv, TypeOK, Anchored, NeverOvercountsFromBaseline, ExactWithoutReset
  <2> QED
    BY <2>1, StartKeeps, CollectKeeps, SaveKeeps, EndKeeps, TrafficKeeps, ResetKeeps DEF Next
<1> QED
  BY <1>1, <1>2, PTL DEF Spec

\* Every variable keeps its type; no reported difference is negative, which
\* in the code's unsigned arithmetic would be a huge number.
THEOREM TypeCorrect == Spec => []TypeOK
<1>1. IInv => TypeOK
  BY DEF IInv
<1> QED
  BY <1>1, IInvCorrect, PTL

\* Measured from a baseline, the traffic reported is never more than there was.
THEOREM NeverOvercountsFromBaselineCorrect == Spec => []NeverOvercountsFromBaseline
<1>1. IInv => NeverOvercountsFromBaseline
  BY DEF IInv
<1> QED
  BY <1>1, IInvCorrect, PTL

\* Until the counters are reset, it is exactly what there was.
THEOREM ExactWithoutResetCorrect == Spec => []ExactWithoutReset
<1>1. IInv => ExactWithoutReset
  BY DEF IInv
<1> QED
  BY <1>1, IInvCorrect, PTL

====
