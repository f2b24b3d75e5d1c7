--------------------------- MODULE AuthStateProofs ---------------------------
(***************************************************************************)
(* AuthState for every set of models, every hold and every clock bound.    *)
(*                                                                         *)
(* The inductive invariant is about the record and about every copy that   *)
(* may still take its place: it says the same of them, Sound.  That adds   *)
(* to the aggregate and the backoff a conjunct about the models, for a     *)
(* model in state "error" always carries an error (HasModelError looks at  *)
(* both, and ClearIfHealthy is right only because they agree), and one     *)
(* about the aggregate: without model states a record has no deadline, or  *)
(* the states that Update keeps could come to stand under a deadline that  *)
(* they do not back.                                                       *)
(***************************************************************************)
EXTENDS AuthState, FiniteOrder, FunctionTheorems

ErrorsCarried(ss) == \A m \in Models : ss[m].status = "error" => ss[m].err # None

LevelsCapped(ss) ==
    \A m \in Models : ss[m].level > 0 => Backoff(ss[m].level - 1) < BackoffMax

\* The deadline and the quota flag of a record, looked at when it is t o'clock.
Backed(t, a, ms, ss) ==
    /\ a.retry > t => /\ ms # {}
                      /\ \A m \in ms : ss[m].unavailable /\ ss[m].retry >= a.retry
    /\ a.exceeded => \E m \in ms : ss[m].exceeded

Sound(t, a, ms, ss) ==
    /\ a \in AuthRecord /\ ms \in SUBSET Models /\ ss \in [Models -> ModelState]
    /\ ErrorsCarried(ss) /\ LevelsCapped(ss) /\ Backed(t, a, ms, ss)

CopiesSound ==
    \A w \in Writers :
        copy[w] # NoCopy => Sound(now, copy[w].auth, copy[w].tracked, copy[w].states)

IInv == TypeOK /\ Sound(now, auth, tracked, states) /\ CopiesSound

USE HoldAssumption, BackoffAssumption, ModelsAssumption, HintAssumption, FailuresAssumption,
    CopyAssumption, WritersAssumption

-----------------------------------------------------------------------------
(* Cooldown arithmetic. *)

LEMMA BackoffPositive ==
    ASSUME NEW level \in Nat
    PROVE  Backoff(level) \in Nat \ {0}
<1>1. 2 ^ level \in Int
  BY SMT
<1>2. BackoffBase * 2 ^ level \in Int
  BY <1>1
<1> QED  BY <1>2 DEF Backoff

LEMMA QuotaCooldownType ==
    ASSUME NEW level \in Nat
    PROVE  QuotaCooldown(level) \in Nat /\ NextLevel(level) \in Nat
BY BackoffPositive DEF QuotaCooldown, NextLevel

LEMMA DeadlineType ==
    ASSUME TypeOK, NEW k \in Kinds, NEW hint \in Hints \cup {NoHint}, NEW level \in Nat
    PROVE  Deadline(k, hint, level) \in Nat
<1>1. QuotaCooldown(level) \in Nat
  BY QuotaCooldownType
<1>2. hint # NoHint => hint \in Nat
  OBVIOUS
<1>3. now \in Nat
  BY DEF TypeOK
<1> QED  BY <1>1, <1>2, <1>3 DEF Deadline, Kinds, Zero

LEMMA CleanType == Clean \in ModelState
BY DEF Clean, ModelState, Zero, None, Kinds

\* What a failure does to one model state.
LEMMA FailedProperties ==
    ASSUME TypeOK, NEW k \in Kinds, NEW hint \in Hints \cup {NoHint}, NEW s \in ModelState
    PROVE  /\ Failed(s, k, hint) \in ModelState
           /\ Failed(s, k, hint).err = k
           /\ k # None
           /\ Failed(s, k, hint).level >= s.level
           /\ \/ Failed(s, k, hint).level = s.level
              \/ /\ Backoff(s.level) < BackoffMax
                 /\ Failed(s, k, hint).level = s.level + 1
<1> DEFINE next == Deadline(k, hint, s.level)
<1>1. s.level \in Nat
  BY DEF ModelState
<1>2. next \in Nat
  BY <1>1, DeadlineType
<1>3. k # None
  BY DEF Kinds, None
<1>4. /\ NextLevel(s.level) \in Nat
      /\ \/ NextLevel(s.level) = s.level
         \/ Backoff(s.level) < BackoffMax /\ NextLevel(s.level) = s.level + 1
  BY <1>1, BackoffPositive DEF NextLevel
<1> HIDE DEF next
<1>5. Failed(s, k, hint) =
        [unavailable |-> TRUE, status |-> "error", retry |-> next, err |-> k,
         exceeded |-> IF k = "quota" THEN TRUE ELSE s.exceeded,
         recover |-> IF k = "quota" THEN next ELSE s.recover,
         level |-> IF k # "quota" \/ coolingOff \/ hint # NoHint THEN s.level
                   ELSE NextLevel(s.level)]
  BY DEF Failed, ModelState, next
<1>6. s.exceeded \in BOOLEAN /\ s.recover \in Nat
  BY DEF ModelState
<1>7. Failed(s, k, hint) \in ModelState
  <2> DEFINE exceeded == IF k = "quota" THEN TRUE ELSE s.exceeded
             recover == IF k = "quota" THEN next ELSE s.recover
             level == IF k # "quota" \/ coolingOff \/ hint # NoHint THEN s.level
                      ELSE NextLevel(s.level)
  <2>1. exceeded \in BOOLEAN /\ recover \in Nat /\ level \in Nat
    BY <1>1, <1>2, <1>4, <1>6
  <2> HIDE DEF exceeded, recover, level
  <2>2. Failed(s, k, hint) =
          [unavailable |-> TRUE, status |-> "error", retry |-> next, err |-> k,
           exceeded |-> exceeded, recover |-> recover, level |-> level]
    BY <1>5 DEF exceeded, recover, level
  <2> QED  BY <1>2, <2>1, <2>2 DEF ModelState
<1>8. Failed(s, k, hint).err = k
  BY <1>5
<1>9. Failed(s, k, hint).level = s.level \/ Failed(s, k, hint).level = NextLevel(s.level)
  BY <1>5
<1> QED  BY <1>1, <1>3, <1>4, <1>7, <1>8, <1>9

-----------------------------------------------------------------------------
(* Aggregation. *)

\* Lifting a lapsed hold touches nothing but the hold itself.
LEMMA LiftProperties ==
    ASSUME TypeOK, NEW ss \in [Models -> ModelState], NEW ms \in SUBSET Models
    PROVE  /\ Lift(ss, ms) \in [Models -> ModelState]
           /\ \A m \in Models : /\ Lift(ss, ms)[m].err = ss[m].err
                               /\ Lift(ss, ms)[m].status = ss[m].status
                               /\ Lift(ss, ms)[m].level = ss[m].level
<1> DEFINE L == Lift(ss, ms)
<1>1. ASSUME NEW m \in Models
      PROVE  /\ L[m] \in ModelState
             /\ L[m].err = ss[m].err
             /\ L[m].status = ss[m].status
             /\ L[m].level = ss[m].level
  <2>1. CASE m \in ms /\ Lapsed(ss[m])
    <3>1. L[m] = [ss[m] EXCEPT !.unavailable = FALSE, !.retry = Zero]
      BY <2>1 DEF Lift
    <3>2. ss[m] \in ModelState
      OBVIOUS
    <3>3. L[m] = [unavailable |-> FALSE, status |-> ss[m].status, retry |-> Zero,
                  err |-> ss[m].err, exceeded |-> ss[m].exceeded,
                  recover |-> ss[m].recover, level |-> ss[m].level]
      BY <3>1, <3>2 DEF ModelState
    <3> HIDE DEF L
    <3> QED  BY <3>2, <3>3 DEF ModelState, Zero
  <2>2. CASE ~(m \in ms /\ Lapsed(ss[m]))
    BY <2>2 DEF Lift
  <2> QED  BY <2>1, <2>2
<1>2. L = [m \in Models |-> L[m]]
  BY DEF Lift
<1> QED  BY <1>1, <1>2

LEMMA EarliestProperties ==
    ASSUME NEW S \in SUBSET Nat
    PROVE  /\ Earliest(S) \in Nat
           /\ S # {} => \A y \in S : Earliest(S) <= y
BY MinOfNaturals DEF Earliest, Zero

\* What updateAggregatedAvailability writes, and what it leaves alone.
LEMMA AggregatedProperties ==
    ASSUME TypeOK, NEW a \in AuthRecord, NEW ss \in [Models -> ModelState],
           NEW ms \in SUBSET Models
    PROVE  LET r == Aggregated(a, ss, ms)
           IN  /\ r \in AuthRecord
               /\ r.err = a.err /\ r.status = a.status /\ r.disabled = a.disabled
               /\ Backed(now, r, ms, ss)
<1> DEFINE all == ms # {} /\ \A m \in ms : Held(ss[m])
           quota == {m \in ms : ss[m].exceeded}
           retries == {ss[m].retry : m \in ms}
           recovers == {ss[m].recover : m \in quota} \ {Zero}
           levels == {ss[m].level : m \in quota}
           r == Aggregated(a, ss, ms)
<1>1. retries \in SUBSET Nat /\ recovers \in SUBSET Nat /\ levels \in SUBSET Nat
  BY DEF ModelState
<1>2. Earliest(retries) \in Nat /\ Earliest(recovers) \in Nat
  <2> HIDE DEF retries, recovers
  <2> QED  BY <1>1, EarliestProperties
<1>3. IsFiniteSet(levels)
  <2> DEFINE f == [m \in quota |-> ss[m].level]
  <2>1. IsFiniteSet(quota)
    BY FS_Subset
  <2>2. f \in Surjection(quota, levels)
    BY DEF Surjection
  <2> QED  BY <2>1, <2>2, FS_Surjection
<1>4. quota # {} => Max(levels) \in Nat
  <2>1. quota # {} => levels # {}
    OBVIOUS
  <2>2. levels \in SUBSET Int
    BY <1>1
  <2> HIDE DEF levels, quota
  <2> QED  BY <1>1, <1>3, <2>1, <2>2, MaxOfFinite
<1>5. r = [a EXCEPT !.unavailable = all,
                    !.retry = IF all THEN Earliest(retries) ELSE Zero,
                    !.exceeded = quota # {},
                    !.recover = Earliest(recovers),
                    !.level = IF quota = {} THEN 0 ELSE Max(levels)]
  BY DEF Aggregated
<1>6. all => \A m \in ms : ss[m].retry >= Earliest(retries)
  <2> SUFFICES ASSUME all, NEW m \in ms PROVE ss[m].retry >= Earliest(retries)
    OBVIOUS
  <2>1. ss[m].retry \in retries
    OBVIOUS
  <2>2. Earliest(retries) <= ss[m].retry
    <3> HIDE DEF retries
    <3> QED  BY <1>1, <2>1, EarliestProperties
  <2>3. ss[m].retry \in Nat
    BY <1>1, <2>1
  <2> QED  BY <1>2, <2>2, <2>3
<1>7. r \in AuthRecord /\ r.err = a.err /\ r.status = a.status /\ r.disabled = a.disabled
  <2> DEFINE retry == IF all THEN Earliest(retries) ELSE Zero
             level == IF quota = {} THEN 0 ELSE Max(levels)
             recover == Earliest(recovers)
             exceeded == quota # {}
  <2>1. retry \in Nat /\ level \in Nat /\ recover \in Nat
    BY <1>2, <1>4 DEF Zero
  <2>2. all \in BOOLEAN /\ exceeded \in BOOLEAN
    OBVIOUS
  <2>3. r = [a EXCEPT !.unavailable = all, !.retry = retry, !.exceeded = exceeded,
                      !.recover = recover, !.level = level]
    BY <1>5
  <2> HIDE DEF all, retry, level, recover, exceeded, r
  <2> QED  BY <2>1, <2>2, <2>3 DEF AuthRecord
<1>8. r.retry = IF all THEN Earliest(retries) ELSE Zero
  BY <1>5 DEF AuthRecord
<1>9. r.exceeded = (quota # {})
  BY <1>5 DEF AuthRecord
<1>10. r.retry > now => ms # {} /\ \A m \in ms : ss[m].unavailable /\ ss[m].retry >= r.retry
  BY <1>6, <1>8 DEF TypeOK, Zero, Held
<1> HIDE DEF r
<1>11. Backed(now, r, ms, ss)
  BY <1>9, <1>10 DEF Backed
<1> QED  BY <1>7, <1>11 DEF r

\* ClearIfHealthy touches only the error and the status, and leaves the status in
\* error only with a reason.
LEMMA ClearIfHealthyProperties ==
    ASSUME NEW a \in AuthRecord, NEW ss \in [Models -> ModelState],
           NEW ms \in SUBSET Models, ErrorsCarried(ss)
    PROVE  LET r == ClearIfHealthy(a, ss, ms)
           IN  /\ r \in AuthRecord
               /\ r.retry = a.retry /\ r.exceeded = a.exceeded /\ r.disabled = a.disabled
               /\ r.status = "error" => \E m \in ms : ss[m].err # None
<1>1. HasModelError(ss, ms) => \E m \in ms : ss[m].err # None
  BY DEF HasModelError, ErrorsCarried
<1> QED  BY <1>1 DEF ClearIfHealthy, AuthRecord, None

\* The states after a result: the model's new one is any well-typed one that carries
\* its error and whose level grew legally.
LEMMA ResultStates ==
    ASSUME IInv, NEW m \in Models, NEW new \in ModelState,
           new.status = "error" => new.err # None,
           new.level > 0 => Backoff(new.level - 1) < BackoffMax
    PROVE  LET ms == tracked \cup {m}
               ss == Lift([states EXCEPT ![m] = new], ms)
           IN  /\ ms \in SUBSET Models
               /\ ss \in [Models -> ModelState]
               /\ ErrorsCarried(ss)
               /\ LevelsCapped(ss)
               /\ ss[m].err = new.err
<1> DEFINE ms == tracked \cup {m}
           tt == [states EXCEPT ![m] = new]
           ss == Lift(tt, ms)
<1>1. /\ TypeOK /\ states \in [Models -> ModelState] /\ ms \in SUBSET Models
      /\ ErrorsCarried(states) /\ LevelsCapped(states)
  BY DEF IInv, Sound
<1>2. /\ tt \in [Models -> ModelState] /\ tt[m] = new
      /\ \A n \in Models \ {m} : tt[n] = states[n]
  BY <1>1
<1> HIDE DEF tt
<1>3. /\ ss \in [Models -> ModelState]
      /\ \A n \in Models : ss[n].err = tt[n].err /\ ss[n].status = tt[n].status
                            /\ ss[n].level = tt[n].level
  BY <1>1, <1>2, LiftProperties
<1>4. \A n \in Models : tt[n].status = "error" => tt[n].err # None
  BY <1>1, <1>2 DEF ErrorsCarried
<1>5. \A n \in Models : tt[n].level > 0 => Backoff(tt[n].level - 1) < BackoffMax
  BY <1>1, <1>2 DEF LevelsCapped
<1> HIDE DEF ss
<1>6. ErrorsCarried(ss)
  BY <1>3, <1>4 DEF ErrorsCarried
<1>7. LevelsCapped(ss)
  BY <1>3, <1>5 DEF LevelsCapped
<1>8. ss[m].err = new.err
  BY <1>2, <1>3
<1> QED  BY <1>1, <1>3, <1>6, <1>7, <1>8 DEF ss, tt

\* No states at all.
LEMMA NoStatesSound ==
    /\ NoStates \in [Models -> ModelState]
    /\ ErrorsCarried(NoStates) /\ LevelsCapped(NoStates)
    /\ \A m \in Models : NoStates[m] = Clean /\ NoStates[m].level = 0
BY CleanType DEF NoStates, Clean, ErrorsCarried, LevelsCapped

LEMMA FreshSound ==
    ASSUME NEW off \in BOOLEAN, NEW t \in Nat, NEW ms \in SUBSET Models,
           NEW ss \in [Models -> ModelState], ErrorsCarried(ss), LevelsCapped(ss)
    PROVE  Sound(t, Fresh(off), ms, ss)
<1>1. /\ Fresh(off) \in AuthRecord /\ Fresh(off).retry = 0 /\ Fresh(off).exceeded = FALSE
  BY DEF Fresh, AuthRecord, Zero, None, Kinds
<1>2. Backed(t, Fresh(off), ms, ss)
  BY <1>1 DEF Backed
<1> QED  BY <1>1, <1>2 DEF Sound

-----------------------------------------------------------------------------
(* The invariant, action by action. *)

LEMMA InitInv == Init => IInv
<1> SUFFICES ASSUME Init PROVE IInv
  OBVIOUS
<1>1. /\ states = NoStates /\ tracked = {} /\ auth = Fresh(FALSE) /\ now = 1
      /\ coolingOff \in BOOLEAN /\ copy = [w \in Writers |-> NoCopy]
  BY DEF Init, NoStates
<1>2. Sound(now, auth, tracked, states)
  BY <1>1, NoStatesSound, FreshSound
<1>3. copy \in [Writers -> Copy \cup {NoCopy}] /\ now \in Nat \ {0}
  BY <1>1
<1>4. TypeOK
  <2>1. tracked \in SUBSET Models /\ states \in [Models -> ModelState] /\ auth \in AuthRecord
    BY <1>2 DEF Sound
  <2> QED  BY <1>1, <1>3, <2>1 DEF TypeOK
<1>5. CopiesSound
  BY <1>1 DEF CopiesSound
<1> QED  BY <1>2, <1>4, <1>5 DEF IInv

\* A record that is sound is so an hour later: deadlines only lapse.
LEMMA SoundLasts ==
    ASSUME NEW t \in Nat, NEW a, NEW ms, NEW ss, Sound(t, a, ms, ss)
    PROVE  Sound(t + 1, a, ms, ss)
<1>1. a.retry \in Nat
  BY DEF Sound, AuthRecord
<1>2. Backed(t + 1, a, ms, ss)
  BY <1>1 DEF Sound, Backed
<1> QED  BY <1>2 DEF Sound

LEMMA TickInv == IInv /\ Tick => IInv'
<1> SUFFICES ASSUME IInv, Tick PROVE IInv'
  OBVIOUS
<1>1. /\ now \in Nat \ {0} /\ now' = now + 1 /\ auth' = auth /\ tracked' = tracked
      /\ states' = states /\ coolingOff' = coolingOff /\ copy' = copy
  BY DEF IInv, TypeOK, Tick, recordVars
<1>2. TypeOK'
  BY <1>1 DEF IInv, TypeOK
<1>3. Sound(now + 1, auth, tracked, states)
  BY <1>1, SoundLasts DEF IInv
<1>4. \A w \in Writers : copy[w] # NoCopy
                           => Sound(now + 1, copy[w].auth, copy[w].tracked, copy[w].states)
  BY <1>1, SoundLasts DEF IInv, CopiesSound
<1>5. Sound(now, auth, tracked, states)'
  BY <1>1, <1>3 DEF Sound, ErrorsCarried, LevelsCapped, Backed, Backoff
<1>6. CopiesSound'
  BY <1>1, <1>4 DEF CopiesSound, Sound, ErrorsCarried, LevelsCapped, Backed, Backoff
<1> QED  BY <1>2, <1>5, <1>6 DEF IInv

\* What is left to show of a step that changes the record and may finish with copies.
LEMMA RecordInv ==
    ASSUME IInv, now' = now, coolingOff' \in BOOLEAN,
           Sound(now, auth', tracked', states'),
           copy' \in [Writers -> Copy \cup {NoCopy}],
           \A w \in Writers : copy'[w] # NoCopy =>
               copy'[w] = copy[w] \/ Sound(now, copy'[w].auth, copy'[w].tracked, copy'[w].states)
    PROVE  IInv'
<1>1. TypeOK'
  BY DEF IInv, TypeOK, Sound
<1>2. Sound(now, auth, tracked, states)'
  BY DEF Sound, ErrorsCarried, LevelsCapped, Backed, Backoff
<1>3. \A w \in Writers : copy'[w] # NoCopy
                           => Sound(now, copy'[w].auth, copy'[w].tracked, copy'[w].states)
  BY DEF IInv, CopiesSound
<1>4. CopiesSound'
  BY <1>3 DEF CopiesSound, Sound, ErrorsCarried, LevelsCapped, Backed, Backoff
<1> QED  BY <1>1, <1>2, <1>4 DEF IInv

LEMMA SuccessInv ==
    ASSUME IInv, NEW m \in Models, Success(m)
    PROVE  /\ IInv'
           /\ auth'.disabled = auth.disabled
           /\ auth'.status = "error" => \E n \in tracked' : states'[n].err # None
<1> DEFINE ms == tracked \cup {m}
           ss == Lift([states EXCEPT ![m] = Clean], ms)
           a == Aggregated(auth, ss, ms)
           r == ClearIfHealthy(a, ss, ms)
<1>1. /\ tracked' = ms /\ states' = ss /\ auth' = r
      /\ now' = now /\ coolingOff' = coolingOff /\ copy' = copy
  BY DEF Success
<1>2. /\ Clean \in ModelState
      /\ Clean.status = "error" => Clean.err # None
      /\ Clean.level > 0 => Backoff(Clean.level - 1) < BackoffMax
  BY CleanType DEF Clean
<1>3. /\ ms \in SUBSET Models /\ ss \in [Models -> ModelState]
      /\ ErrorsCarried(ss) /\ LevelsCapped(ss)
  BY <1>2, ResultStates
<1>4. TypeOK /\ auth \in AuthRecord
  BY DEF IInv, TypeOK
<1> HIDE DEF ms, ss
<1>5. a \in AuthRecord /\ a.disabled = auth.disabled /\ Backed(now, a, ms, ss)
  BY <1>3, <1>4, AggregatedProperties
<1> HIDE DEF a
<1>6. /\ r \in AuthRecord
      /\ r.retry = a.retry /\ r.exceeded = a.exceeded /\ r.disabled = a.disabled
      /\ r.status = "error" => \E n \in ms : ss[n].err # None
  BY <1>3, <1>5, ClearIfHealthyProperties
<1> HIDE DEF r
<1>7. Sound(now, r, ms, ss)
  BY <1>3, <1>5, <1>6 DEF Sound, Backed
<1>8. coolingOff' \in BOOLEAN /\ copy' \in [Writers -> Copy \cup {NoCopy}]
  BY <1>1, <1>4 DEF TypeOK
<1>9. IInv'
  BY <1>1, <1>7, <1>8, RecordInv
<1> QED  BY <1>1, <1>5, <1>6, <1>9

LEMMA FailureInv ==
    ASSUME IInv, NEW m \in Models, NEW k \in Kinds, NEW hint \in Hints \cup {NoHint},
           Failure(m, k, hint)
    PROVE  /\ IInv'
           /\ auth'.disabled = auth.disabled
           /\ auth'.err # None
<1> DEFINE new == Failed(states[m], k, hint)
           ms == tracked \cup {m}
           ss == Lift([states EXCEPT ![m] = new], ms)
           a == Aggregated(auth, ss, ms)
<1>1. /\ tracked' = ms /\ states' = ss
      /\ now' = now /\ coolingOff' = coolingOff /\ copy' = copy
      /\ auth' = [a EXCEPT !.err = k, !.status = "error"]
  BY DEF Failure
<1>2. TypeOK /\ auth \in AuthRecord /\ states[m] \in ModelState /\ LevelsCapped(states)
  BY DEF IInv, TypeOK, Sound
<1>3. /\ new \in ModelState /\ new.err = k /\ k # None
      /\ \/ new.level = states[m].level
         \/ Backoff(states[m].level) < BackoffMax /\ new.level = states[m].level + 1
  BY <1>2, FailedProperties
<1>4. new.level > 0 => Backoff(new.level - 1) < BackoffMax
  <2>1. CASE new.level = states[m].level
    BY <1>2, <2>1 DEF LevelsCapped
  <2>2. CASE Backoff(states[m].level) < BackoffMax /\ new.level = states[m].level + 1
    <3>1. states[m].level \in Nat
      BY <1>2 DEF ModelState
    <3>2. new.level - 1 = states[m].level
      BY <2>2, <3>1
    <3> QED  BY <2>2, <3>2
  <2> QED  BY <1>3, <2>1, <2>2
<1> HIDE DEF new
<1>5. /\ ms \in SUBSET Models /\ ss \in [Models -> ModelState]
      /\ ErrorsCarried(ss) /\ LevelsCapped(ss)
  BY <1>3, <1>4, ResultStates
<1> HIDE DEF ms, ss
<1>6. a \in AuthRecord /\ a.disabled = auth.disabled /\ Backed(now, a, ms, ss)
  BY <1>2, <1>5, AggregatedProperties
<1> HIDE DEF a
<1>7. /\ auth' \in AuthRecord /\ auth'.retry = a.retry /\ auth'.exceeded = a.exceeded
      /\ auth'.disabled = a.disabled /\ auth'.err = k
  BY <1>1, <1>6 DEF AuthRecord
<1>8. Sound(now, auth', ms, ss)
  BY <1>5, <1>6, <1>7 DEF Sound, Backed
<1>9. coolingOff' \in BOOLEAN /\ copy' \in [Writers -> Copy \cup {NoCopy}]
  BY <1>1, <1>2 DEF TypeOK
<1>10. IInv'
  BY <1>1, <1>8, <1>9, RecordInv
<1> QED  BY <1>3, <1>6, <1>7, <1>10

LEMMA ReconcileInv ==
    ASSUME IInv, NEW supported \in SUBSET Models, Reconcile(supported)
    PROVE  /\ IInv'
           /\ auth'.disabled = auth.disabled
           /\ \/ auth' = auth /\ tracked' = tracked /\ states' = states
              \/ auth'.status = "error" => \E n \in tracked' : states'[n].err # None
<1> DEFINE ms == tracked \cap supported
           ss == NoStates
           a == Aggregated(auth, ss, ms)
           r == ClearIfHealthy(a, ss, ms)
<1>1. /\ tracked' = ms /\ states' = ss
      /\ now' = now /\ coolingOff' = coolingOff /\ copy' = copy
  BY DEF Reconcile, NoStates
<1>2. /\ TypeOK /\ auth \in AuthRecord /\ tracked \in SUBSET Models
      /\ Sound(now, auth, tracked, states)
  BY DEF IInv, TypeOK
<1>3. coolingOff' \in BOOLEAN /\ copy' \in [Writers -> Copy \cup {NoCopy}]
  BY <1>1, <1>2 DEF TypeOK
<1>4. CASE auth' = auth /\ ms = tracked /\ ss = states
  <2>1. Sound(now, auth', tracked', states')
    BY <1>1, <1>2, <1>4
  <2>2. IInv'
    BY <1>1, <1>3, <2>1, RecordInv
  <2> QED  BY <1>1, <1>4, <2>2
<1>5. CASE auth' = r
  <2>1. /\ ms \in SUBSET Models /\ ss \in [Models -> ModelState]
        /\ ErrorsCarried(ss) /\ LevelsCapped(ss)
    BY <1>2, NoStatesSound
  <2> HIDE DEF ms, ss
  <2>2. a \in AuthRecord /\ a.disabled = auth.disabled /\ Backed(now, a, ms, ss)
    BY <1>2, <2>1, AggregatedProperties
  <2> HIDE DEF a
  <2>3. /\ r \in AuthRecord
        /\ r.retry = a.retry /\ r.exceeded = a.exceeded /\ r.disabled = a.disabled
        /\ r.status = "error" => \E n \in ms : ss[n].err # None
    BY <2>1, <2>2, ClearIfHealthyProperties
  <2> HIDE DEF r
  <2>4. Sound(now, r, ms, ss)
    BY <2>1, <2>2, <2>3 DEF Sound, Backed
  <2>5. IInv'
    BY <1>1, <1>3, <1>5, <2>4, RecordInv
  <2> QED  BY <1>1, <1>5, <2>2, <2>3, <2>5
<1> QED  BY <1>4, <1>5 DEF Reconcile, NoStates

-----------------------------------------------------------------------------
(* Update and the copies. *)

\* What Update leaves in place of the record is sound if what it is given is.
LEMMA UpdateSound ==
    ASSUME IInv, NEW new, NEW ms, NEW ss, Sound(now, new, ms, ss), Update(new, ms, ss)
    PROVE  Sound(now, auth', tracked', states')
<1>1. CASE ~Keeps(new, ms)
  BY <1>1 DEF Update
<1>2. CASE Keeps(new, ms)
  <2>1. auth' = new /\ tracked' = tracked /\ states' = states /\ ms = {}
    BY <1>2 DEF Update, Keeps
  <2>2. ~(new.retry > now) /\ ~new.exceeded
    BY <2>1 DEF Sound, Backed
  <2>3. /\ new \in AuthRecord /\ tracked \in SUBSET Models
        /\ states \in [Models -> ModelState] /\ ErrorsCarried(states) /\ LevelsCapped(states)
    BY DEF IInv, Sound
  <2>4. Backed(now, new, tracked, states)
    BY <2>2 DEF Backed
  <2> QED  BY <2>1, <2>3, <2>4 DEF Sound
<1> QED  BY <1>1, <1>2

\* A record whose own error, status and switch are changed stays sound.
LEMMA AlteredSound ==
    ASSUME NEW t, NEW a, NEW b \in AuthRecord, NEW ms, NEW ss, Sound(t, a, ms, ss),
           b.retry = a.retry, b.exceeded = a.exceeded
    PROVE  Sound(t, b, ms, ss)
BY DEF Sound, Backed

\* The copy of a writer who finishes.
LEMMA EndsProperties ==
    ASSUME IInv, NEW w \in Writers, NEW work, Ends(w, work)
    PROVE  /\ Sound(now, copy[w].auth, copy[w].tracked, copy[w].states)
           /\ copy[w].work = work /\ Finishes(w)
           /\ now' = now /\ coolingOff' \in BOOLEAN
           /\ copy' \in [Writers -> Copy \cup {NoCopy}]
           /\ \A v \in Writers : copy'[v] # NoCopy => copy'[v] = copy[v]
BY DEF Ends, Finishes, IInv, TypeOK, CopiesSound

\* A writer who hands a sound record to Update.
LEMMA WriteInv ==
    ASSUME IInv, NEW w \in Writers, NEW work, Ends(w, work),
           NEW new, NEW ms, NEW ss, Sound(now, new, ms, ss), Update(new, ms, ss)
    PROVE  IInv'
<1>1. Sound(now, auth', tracked', states')
  BY UpdateSound
<1> QED  BY <1>1, EndsProperties, RecordInv

LEMMA UpsertInv ==
    ASSUME IInv, NEW off \in BOOLEAN, Upsert(off)
    PROVE  IInv'
<1>1. /\ now' = now /\ coolingOff' = coolingOff /\ copy' = copy
      /\ Update(Fresh(off), {}, NoStates) /\ now \in Nat
  BY DEF Upsert, IInv, TypeOK
<1>2. Sound(now, Fresh(off), {}, NoStates)
  BY <1>1, NoStatesSound, FreshSound
<1>3. Sound(now, auth', tracked', states')
  BY <1>1, <1>2, UpdateSound
<1>4. coolingOff' \in BOOLEAN /\ copy' \in [Writers -> Copy \cup {NoCopy}]
  BY <1>1 DEF IInv, TypeOK
<1> QED  BY <1>1, <1>3, <1>4, RecordInv

\* Taking a copy, or a turn to take one.
LEMMA CopyTakenInv ==
    ASSUME IInv, NEW w \in Writers, NEW c \in Copy, Sound(now, c.auth, c.tracked, c.states),
           copy' = [copy EXCEPT ![w] = c], UNCHANGED <<now, recordVars, coolingOff>>
    PROVE  IInv'
<1>1. /\ now' = now /\ auth' = auth /\ tracked' = tracked /\ states' = states
      /\ coolingOff' \in BOOLEAN /\ Sound(now, auth, tracked, states)
      /\ copy \in [Writers -> Copy \cup {NoCopy}]
  BY DEF IInv, TypeOK, recordVars
<1>2. Sound(now, auth', tracked', states')
  BY <1>1
<1>3. /\ copy' \in [Writers -> Copy \cup {NoCopy}]
      /\ \A v \in Writers : copy'[v] = copy[v] \/ copy'[v] = c
  BY <1>1
<1> QED  BY <1>1, <1>2, <1>3, RecordInv

LEMMA RefreshIsDueInv ==
    ASSUME IInv, NEW w \in Writers, RefreshIsDue(w)
    PROVE  IInv'
<1> DEFINE c == [work |-> "due", auth |-> Fresh(FALSE), tracked |-> {}, states |-> NoStates]
<1>1. now \in Nat
  BY DEF IInv, TypeOK
<1>2. Sound(now, Fresh(FALSE), {}, NoStates)
  BY <1>1, NoStatesSound, FreshSound
<1>3. c \in Copy /\ Sound(now, c.auth, c.tracked, c.states)
  BY <1>2 DEF Copy, Work, Sound
<1>4. copy' = [copy EXCEPT ![w] = c] /\ UNCHANGED <<now, recordVars, coolingOff>>
  BY DEF RefreshIsDue
<1> HIDE DEF c
<1> QED  BY <1>3, <1>4, CopyTakenInv

LEMMA TakeCopyInv ==
    ASSUME IInv, NEW w \in Writers, TakeCopy(w)
    PROVE  IInv'
<1>1. PICK work \in Does[w] :
        copy' = [copy EXCEPT ![w] = [work |-> work, auth |-> auth, tracked |-> tracked,
                                     states |-> states]]
  BY DEF TakeCopy
<1> DEFINE c == [work |-> work, auth |-> auth, tracked |-> tracked, states |-> states]
<1>2. work \in Work
  OBVIOUS
<1>3. c \in Copy /\ Sound(now, c.auth, c.tracked, c.states)
  BY <1>2 DEF Copy, Sound, IInv
<1>4. copy' = [copy EXCEPT ![w] = c] /\ UNCHANGED <<now, recordVars, coolingOff>>
  BY <1>1 DEF TakeCopy
<1> HIDE DEF c
<1> QED  BY <1>3, <1>4, CopyTakenInv

LEMMA RefreshFailsInv ==
    ASSUME IInv, NEW w \in Writers, NEW k \in {"unauthorized", "other"}, RefreshFails(w, k)
    PROVE  /\ IInv'
           /\ auth'.disabled = auth.disabled
           /\ auth'.err # None
<1>1. Ends(w, "refresh") /\ tracked' = tracked /\ states' = states
  BY DEF RefreshFails
<1>2. auth \in AuthRecord /\ Sound(now, auth, tracked, states) /\ k \in Kinds
  BY DEF IInv, Sound, Kinds
<1>3. /\ auth' \in AuthRecord /\ auth'.retry = auth.retry /\ auth'.exceeded = auth.exceeded
      /\ auth'.disabled = auth.disabled /\ auth'.err = k
  <2>1. CASE k = "unauthorized"
    <3>1. auth' = [auth EXCEPT !.err = k, !.unavailable = TRUE, !.status = "error"]
      BY <2>1 DEF RefreshFails
    <3> QED  BY <1>2, <3>1 DEF AuthRecord
  <2>2. CASE k # "unauthorized"
    <3>1. auth' = [auth EXCEPT !.err = k]
      BY <2>2 DEF RefreshFails
    <3> QED  BY <1>2, <3>1 DEF AuthRecord
  <2> QED  BY <2>1, <2>2
<1>4. Sound(now, auth', tracked', states')
  BY <1>1, <1>2, <1>3, AlteredSound
<1>5. IInv'
  BY <1>1, <1>4, EndsProperties, RecordInv
<1> QED  BY <1>3, <1>5 DEF None

LEMMA RefreshSucceedsInv ==
    ASSUME IInv, NEW w \in Writers, RefreshSucceeds(w)
    PROVE  IInv'
<1> DEFINE a == copy[w].auth
           b == [a EXCEPT !.err = None]
<1>1. Ends(w, "refresh") /\ Update(b, copy[w].tracked, copy[w].states)
  BY DEF RefreshSucceeds
<1>2. Sound(now, a, copy[w].tracked, copy[w].states)
  BY <1>1, EndsProperties
<1>3. b \in AuthRecord /\ b.retry = a.retry /\ b.exceeded = a.exceeded
  BY <1>2 DEF Sound, AuthRecord
<1> HIDE DEF b
<1>4. Sound(now, b, copy[w].tracked, copy[w].states)
  BY <1>2, <1>3, AlteredSound
<1> QED  BY <1>1, <1>4, WriteInv

LEMMA WorkIsDroppedInv ==
    ASSUME IInv, NEW w \in Writers, WorkIsDropped(w)
    PROVE  IInv'
<1>1. PICK work \in {"refresh", "edit"} : Ends(w, work)
  BY DEF WorkIsDropped
<1>2. auth' = auth /\ tracked' = tracked /\ states' = states
  BY DEF WorkIsDropped, recordVars
<1>3. Sound(now, auth', tracked', states')
  BY <1>2 DEF IInv
<1> QED  BY <1>1, <1>3, EndsProperties, RecordInv

LEMMA ServiceUpdatesInv ==
    ASSUME IInv, NEW w \in Writers, NEW off \in BOOLEAN, ServiceUpdates(w, off)
    PROVE  IInv'
<1>1. /\ Ends(w, "service") /\ now \in Nat
      /\ \/ Update(Fresh(off), copy[w].tracked, copy[w].states)
         \/ Update(Fresh(off), {}, NoStates)
  BY DEF ServiceUpdates, IInv, TypeOK
<1>2. Sound(now, copy[w].auth, copy[w].tracked, copy[w].states)
  BY <1>1, EndsProperties
<1>3. Sound(now, Fresh(off), copy[w].tracked, copy[w].states)
  <2>1. /\ copy[w].tracked \in SUBSET Models /\ copy[w].states \in [Models -> ModelState]
        /\ ErrorsCarried(copy[w].states) /\ LevelsCapped(copy[w].states)
    BY <1>2 DEF Sound
  <2> QED  BY <1>1, <2>1, FreshSound
<1>4. Sound(now, Fresh(off), {}, NoStates)
  BY <1>1, NoStatesSound, FreshSound
<1>5. CASE Update(Fresh(off), copy[w].tracked, copy[w].states)
  BY <1>1, <1>3, <1>5, WriteInv
<1>6. CASE Update(Fresh(off), {}, NoStates)
  BY <1>1, <1>4, <1>6, WriteInv
<1> QED  BY <1>1, <1>5, <1>6

LEMMA SwitchedOffProperties ==
    ASSUME NEW a \in AuthRecord
    PROVE  /\ SwitchedOff(a) \in AuthRecord
           /\ SwitchedOff(a).retry = a.retry /\ SwitchedOff(a).exceeded = a.exceeded
           /\ SwitchedOff(a).disabled /\ SwitchedOff(a).status # "error"
BY DEF SwitchedOff, AuthRecord

LEMMA ServiceRemovesInv ==
    ASSUME IInv, NEW w \in Writers, ServiceRemoves(w)
    PROVE  IInv'
<1> DEFINE b == SwitchedOff(copy[w].auth)
<1>1. Ends(w, "service") /\ Update(b, copy[w].tracked, copy[w].states)
  BY DEF ServiceRemoves
<1>2. Sound(now, copy[w].auth, copy[w].tracked, copy[w].states)
  BY <1>1, EndsProperties
<1>3. b \in AuthRecord /\ b.retry = copy[w].auth.retry /\ b.exceeded = copy[w].auth.exceeded
  BY <1>2, SwitchedOffProperties DEF Sound
<1> HIDE DEF b
<1>4. Sound(now, b, copy[w].tracked, copy[w].states)
  BY <1>2, <1>3, AlteredSound
<1> QED  BY <1>1, <1>4, WriteInv

LEMMA PatchStatusInv ==
    ASSUME IInv, NEW w \in Writers, NEW off \in BOOLEAN, PatchStatus(w, off)
    PROVE  IInv' /\ auth'.status # "error"
<1> DEFINE a == copy[w].auth
           b == IF off THEN SwitchedOff(a) ELSE [a EXCEPT !.disabled = FALSE, !.status = "active"]
<1>1. Ends(w, "edit") /\ Update(b, copy[w].tracked, copy[w].states)
  BY DEF PatchStatus
<1>2. Sound(now, a, copy[w].tracked, copy[w].states) /\ a \in AuthRecord
  BY <1>1, EndsProperties DEF Sound
<1>3. /\ b \in AuthRecord /\ b.retry = a.retry /\ b.exceeded = a.exceeded
      /\ b.status # "error"
  <2>1. CASE off
    BY <1>2, <2>1, SwitchedOffProperties
  <2>2. CASE ~off
    <3>1. b = [a EXCEPT !.disabled = FALSE, !.status = "active"]
      BY <2>2
    <3> QED  BY <1>2, <3>1 DEF AuthRecord
  <2> QED  BY <2>1, <2>2
<1> HIDE DEF b
<1>4. Sound(now, b, copy[w].tracked, copy[w].states)
  BY <1>2, <1>3, AlteredSound
<1>5. IInv'
  BY <1>1, <1>4, WriteInv
<1> QED  BY <1>1, <1>3, <1>5 DEF Update

LEMMA SaveFieldsInv ==
    ASSUME IInv, NEW w \in Writers, SaveFields(w)
    PROVE  IInv'
<1>1. Ends(w, "edit") /\ Update(copy[w].auth, copy[w].tracked, copy[w].states)
  BY DEF SaveFields
<1>2. Sound(now, copy[w].auth, copy[w].tracked, copy[w].states)
  BY <1>1, EndsProperties
<1> QED  BY <1>1, <1>2, WriteInv

\* Nothing but the switch for cooldowns, or nothing at all.
LEMMA SwitchInv ==
    ASSUME IInv, UNCHANGED <<now, recordVars, copy>>, coolingOff' \in BOOLEAN
    PROVE  IInv'
<1>1. /\ now' = now /\ auth' = auth /\ tracked' = tracked /\ states' = states
      /\ copy' = copy /\ copy \in [Writers -> Copy \cup {NoCopy}]
  BY DEF IInv, TypeOK, recordVars
<1>2. Sound(now, auth', tracked', states')
  BY <1>1 DEF IInv
<1> QED  BY <1>1, <1>2, RecordInv

-----------------------------------------------------------------------------
(* The theorems. *)

LEMMA StepInv == IInv /\ [Next]_vars => IInv'
<1> SUFFICES ASSUME IInv, [Next]_vars PROVE IInv'
  OBVIOUS
<1>1. CASE Tick
  BY <1>1, TickInv
<1>2. ASSUME NEW m \in Models, Success(m) PROVE IInv'
  BY <1>2, SuccessInv
<1>3. ASSUME NEW m \in Models, NEW k \in Kinds, NEW hint \in Hints \cup {NoHint},
             Failure(m, k, hint)
      PROVE  IInv'
  BY <1>3, FailureInv
<1>4. ASSUME NEW supported \in SUBSET Models, Reconcile(supported) PROVE IInv'
  BY <1>4, ReconcileInv
<1>5. ASSUME NEW off \in BOOLEAN, Upsert(off) PROVE IInv'
  BY <1>5, UpsertInv
<1>6. CASE SetQuotaCooldownDisabled
  <2>1. UNCHANGED <<now, recordVars, copy>> /\ coolingOff' \in BOOLEAN
    BY <1>6 DEF SetQuotaCooldownDisabled, IInv, TypeOK, recordVars
  <2> QED  BY <2>1, SwitchInv
<1>7. CASE UNCHANGED vars
  <2>1. UNCHANGED <<now, recordVars, copy>> /\ coolingOff' \in BOOLEAN
    BY <1>7 DEF vars, IInv, TypeOK, recordVars
  <2> QED  BY <2>1, SwitchInv
<1>8. ASSUME NEW w \in Writers, RefreshIsDue(w) \/ TakeCopy(w) \/ RefreshSucceeds(w)
                                \/ WorkIsDropped(w) \/ ServiceRemoves(w) \/ SaveFields(w)
      PROVE  IInv'
  BY <1>8, RefreshIsDueInv, TakeCopyInv, RefreshSucceedsInv, WorkIsDroppedInv,
     ServiceRemovesInv, SaveFieldsInv
<1>9. ASSUME NEW w \in Writers, NEW k \in {"unauthorized", "other"}, RefreshFails(w, k)
      PROVE  IInv'
  BY <1>9, RefreshFailsInv
<1>10. ASSUME NEW w \in Writers, NEW off \in BOOLEAN,
              ServiceUpdates(w, off) \/ PatchStatus(w, off)
       PROVE  IInv'
  BY <1>10, ServiceUpdatesInv, PatchStatusInv
<1>11. "quota" \in Kinds
  BY DEF Kinds
<1> QED
  BY <1>1, <1>2, <1>3, <1>4, <1>5, <1>6, <1>7, <1>8, <1>9, <1>10, <1>11 DEF Next

\* The inductive invariant holds whatever the models, the holds, the writers and the clock.
THEOREM Invariance == Spec => []IInv
BY InitInv, StepInv, PTL DEF Spec

\* Every record the manager keeps, and every copy at work, is well formed; in particular
\* no cooldown arithmetic produces a negative level or deadline.
THEOREM TypeCorrect == Spec => []TypeOK
<1>1. IInv => TypeOK
  BY DEF IInv
<1> QED  BY <1>1, Invariance, PTL

\* The credential-wide deadline never locks out a usable model, whatever old copy is
\* written back.
THEOREM AggregateIsSound == Spec => []AggregateSound
<1>1. IInv => AggregateSound
  <2> SUFFICES ASSUME IInv PROVE AggregateSound
    OBVIOUS
  <2>1. /\ Backed(now, auth, tracked, states) /\ auth.retry \in Nat /\ now \in Nat
        /\ \A m \in tracked : states[m].retry \in Nat
    BY DEF IInv, TypeOK, Sound, AuthRecord, ModelState
  <2> QED  BY <2>1 DEF AggregateSound, Backed, Blocked
<1> QED  BY <1>1, Invariance, PTL

\* The exponential backoff cannot run away.
THEOREM BackoffIsCapped == Spec => []BackoffCapped
<1>1. IInv => BackoffCapped
  BY DEF IInv, Sound, LevelsCapped, BackoffCapped
<1> QED  BY <1>1, Invariance, PTL

-----------------------------------------------------------------------------
(* Action properties. *)

LevelsKept ==
    \A m \in Models :
        states'[m].level < states[m].level =>
            \/ states'[m] = Clean
            \/ \E w \in Writers : Finishes(w) /\ BringsItsStates(w)

\* A success wipes the model it is about and lowers no other level.
LEMMA SuccessKeepsLevels ==
    ASSUME IInv, NEW m \in Models, Success(m)
    PROVE  LevelsKept
<1>1. Clean \in ModelState /\ Clean.unavailable = FALSE
  BY CleanType DEF Clean
<1>2. TypeOK /\ states \in [Models -> ModelState] /\ tracked \cup {m} \in SUBSET Models
  BY DEF IInv, TypeOK
<1>3. \A n \in Models \ {m} : states'[n].level = states[n].level
  <2> DEFINE tt == [states EXCEPT ![m] = Clean]
  <2>1. tt \in [Models -> ModelState] /\ \A n \in Models \ {m} : tt[n] = states[n]
    BY <1>1, <1>2
  <2>2. states' = Lift(tt, tracked \cup {m})
    BY DEF Success
  <2> HIDE DEF tt
  <2> QED  BY <1>2, <2>1, <2>2, LiftProperties
<1>4. states'[m] = Clean
  <2>1. [states EXCEPT ![m] = Clean][m] = Clean /\ ~Lapsed(Clean)
    BY <1>1, <1>2 DEF Lapsed
  <2> QED  BY <2>1 DEF Success, Lift
<1>5. \A n \in Models : states[n].level \in Nat
  BY <1>2 DEF ModelState
<1> QED  BY <1>3, <1>4, <1>5 DEF LevelsKept

LEMMA FailureKeepsLevels ==
    ASSUME IInv, NEW m \in Models, NEW k \in Kinds, NEW hint \in Hints \cup {NoHint},
           Failure(m, k, hint)
    PROVE  LevelsKept
<1> DEFINE new == Failed(states[m], k, hint)
           tt == [states EXCEPT ![m] = new]
<1>1. TypeOK /\ states \in [Models -> ModelState] /\ tracked \cup {m} \in SUBSET Models
  BY DEF IInv, TypeOK
<1>2. new \in ModelState /\ new.level >= states[m].level
  BY <1>1, FailedProperties
<1>3. tt \in [Models -> ModelState] /\ \A n \in Models : tt[n].level >= states[n].level
  BY <1>1, <1>2 DEF ModelState
<1>4. states' = Lift(tt, tracked \cup {m})
  BY DEF Failure
<1> HIDE DEF tt
<1>5. \A n \in Models : states'[n].level = tt[n].level
  BY <1>1, <1>3, <1>4, LiftProperties
<1>6. \A n \in Models : states[n].level \in Nat /\ tt[n].level \in Nat
  BY <1>1, <1>3 DEF ModelState
<1> QED  BY <1>3, <1>5, <1>6 DEF LevelsKept

\* The writers: what Update does to the states, and to a credential that is off.
LEMMA WritersSteps ==
    ASSUME IInv, NEW w \in Writers,
           \/ RefreshSucceeds(w) \/ ServiceRemoves(w) \/ SaveFields(w)
           \/ \E off \in BOOLEAN : ServiceUpdates(w, off) \/ PatchStatus(w, off)
    PROVE  /\ Finishes(w)
           /\ \/ states' = states /\ On(auth) /\ On(auth') /\ tracked' = tracked
              \/ states' = NoStates /\ tracked' = {}
              \/ BringsItsStates(w)
<1>1. ASSUME NEW new, NEW ms, NEW ss, Update(new, ms, ss)
      PROVE  \/ states' = states /\ On(auth) /\ On(auth') /\ tracked' = tracked
             \/ states' = ss /\ tracked' = ms
  BY <1>1 DEF Update, Keeps
<1> DEFINE Result == /\ Finishes(w)
                     /\ \/ states' = states /\ On(auth) /\ On(auth') /\ tracked' = tracked
                        \/ states' = NoStates /\ tracked' = {}
                        \/ BringsItsStates(w)
<1>2. ASSUME NEW work, Ends(w, work), NEW new, Update(new, copy[w].tracked, copy[w].states)
      PROVE  Result
  <2>1. Finishes(w)
    BY <1>2, EndsProperties
  <2> QED  BY <1>1, <1>2, <2>1 DEF BringsItsStates
<1>3. ASSUME NEW work, Ends(w, work), NEW new, Update(new, {}, NoStates)
      PROVE  Result
  <2>1. Finishes(w)
    BY <1>3, EndsProperties
  <2> QED  BY <1>1, <1>3, <2>1
<1> HIDE DEF Result
<1>4. ASSUME RefreshSucceeds(w) \/ ServiceRemoves(w) \/ SaveFields(w) PROVE Result
  <2>1. CASE RefreshSucceeds(w)
    <3> DEFINE b == [copy[w].auth EXCEPT !.err = None]
    <3>1. Ends(w, "refresh") /\ Update(b, copy[w].tracked, copy[w].states)
      BY <2>1 DEF RefreshSucceeds
    <3> HIDE DEF b
    <3> QED  BY <1>2, <3>1
  <2>2. CASE ServiceRemoves(w)
    <3> DEFINE b == SwitchedOff(copy[w].auth)
    <3>1. Ends(w, "service") /\ Update(b, copy[w].tracked, copy[w].states)
      BY <2>2 DEF ServiceRemoves
    <3> HIDE DEF b
    <3> QED  BY <1>2, <3>1
  <2>3. CASE SaveFields(w)
    <3> DEFINE b == copy[w].auth
    <3>1. Ends(w, "edit") /\ Update(b, copy[w].tracked, copy[w].states)
      BY <2>3 DEF SaveFields
    <3> HIDE DEF b
    <3> QED  BY <1>2, <3>1
  <2> QED  BY <1>4, <2>1, <2>2, <2>3
<1>5. ASSUME NEW off \in BOOLEAN, ServiceUpdates(w, off) PROVE Result
  BY <1>2, <1>3, <1>5 DEF ServiceUpdates
<1>6. ASSUME NEW off \in BOOLEAN, PatchStatus(w, off) PROVE Result
  <2> DEFINE b == IF off THEN SwitchedOff(copy[w].auth)
                  ELSE [copy[w].auth EXCEPT !.disabled = FALSE, !.status = "active"]
  <2>1. Ends(w, "edit") /\ Update(b, copy[w].tracked, copy[w].states)
    BY <1>6 DEF PatchStatus
  <2> HIDE DEF b
  <2> QED  BY <1>2, <2>1
<1> QED  BY <1>4, <1>5, <1>6 DEF Result

\* Neither a lapsed deadline, nor a failure of another kind, nor an update without
\* states restarts a backoff.
THEOREM BackoffIsKept == Spec => BackoffFallsOnlyWhenWiped
<1>1. IInv /\ [Next]_vars => [LevelsKept]_vars
  <2> SUFFICES ASSUME IInv, Next PROVE LevelsKept
    OBVIOUS
  <2>1. \A n \in Models : states[n].level \in Nat
    BY DEF IInv, TypeOK, ModelState
  <2>2. ASSUME states' = states PROVE LevelsKept
    BY <2>1, <2>2 DEF LevelsKept
  <2>3. ASSUME states' = NoStates PROVE LevelsKept
    BY <2>3 DEF LevelsKept, NoStates
  <2>4. ASSUME NEW w \in Writers, Finishes(w), BringsItsStates(w) PROVE LevelsKept
    BY <2>4 DEF LevelsKept
  <2>5. ASSUME NEW m \in Models, Success(m) PROVE LevelsKept
    BY <2>5, SuccessKeepsLevels
  <2>6. ASSUME NEW m \in Models, NEW k \in Kinds, NEW hint \in Hints \cup {NoHint},
               Failure(m, k, hint)
        PROVE  LevelsKept
    BY <2>6, FailureKeepsLevels
  <2>7. "quota" \in Kinds
    BY DEF Kinds
  <2>8. ASSUME NEW supported \in SUBSET Models, Reconcile(supported) PROVE LevelsKept
    BY <2>3, <2>8 DEF Reconcile, NoStates
  <2>9. ASSUME NEW off \in BOOLEAN, Upsert(off) PROVE LevelsKept
    BY <2>2, <2>3, <2>9 DEF Upsert, Update
  <2>10. ASSUME NEW w \in Writers,
                \/ RefreshSucceeds(w) \/ ServiceRemoves(w) \/ SaveFields(w)
                \/ \E off \in BOOLEAN : ServiceUpdates(w, off) \/ PatchStatus(w, off)
         PROVE  LevelsKept
    BY <2>2, <2>3, <2>4, <2>10, WritersSteps
  <2>11. ASSUME NEW w \in Writers,
                \/ RefreshIsDue(w) \/ TakeCopy(w) \/ WorkIsDropped(w)
                \/ \E k \in {"unauthorized", "other"} : RefreshFails(w, k)
         PROVE  states' = states
    BY <2>11 DEF RefreshIsDue, TakeCopy, WorkIsDropped, RefreshFails, recordVars
  <2>12. ASSUME Tick \/ SetQuotaCooldownDisabled PROVE states' = states
    BY <2>12 DEF Tick, SetQuotaCooldownDisabled, recordVars
  <2> QED
    BY <2>2, <2>5, <2>6, <2>7, <2>8, <2>9, <2>10, <2>11, <2>12 DEF Next
<1> QED
  BY <1>1, Invariance, PTL DEF Spec, BackoffFallsOnlyWhenWiped, LevelsKept

ComesBack ==
    auth.disabled /\ ~auth'.disabled =>
        \/ tracked' = {}
        \/ \E w \in Writers :
             /\ Finishes(w)
             /\ BringsItsStates(w)
             /\ ~copy[w].auth.disabled \/ copy[w].work = "edit"

\* A credential that comes back brings cooldowns along only from a copy taken while it
\* was on, or from the management's.
THEOREM ReenabledIsClean == Spec => ReenabledStartsClean
<1>1. IInv /\ [Next]_vars => [ComesBack]_vars
  <2> SUFFICES ASSUME IInv, Next PROVE ComesBack
    OBVIOUS
  <2>1. ASSUME auth'.disabled = auth.disabled PROVE ComesBack
    BY <2>1 DEF ComesBack
  <2>2. "quota" \in Kinds
    BY DEF Kinds
  <2>3. ASSUME NEW m \in Models, Success(m) PROVE ComesBack
    BY <2>1, <2>3, SuccessInv
  <2>4. ASSUME NEW m \in Models, NEW k \in Kinds, NEW hint \in Hints \cup {NoHint},
               Failure(m, k, hint)
        PROVE  ComesBack
    BY <2>1, <2>4, FailureInv
  <2>5. ASSUME NEW supported \in SUBSET Models, Reconcile(supported) PROVE ComesBack
    BY <2>1, <2>5, ReconcileInv
  <2>6. ASSUME NEW off \in BOOLEAN, Upsert(off) PROVE ComesBack
    BY <2>6 DEF Upsert, Update, Keeps, On, ComesBack
  <2>7. ASSUME NEW w \in Writers, NEW k \in {"unauthorized", "other"}, RefreshFails(w, k)
        PROVE  ComesBack
    BY <2>1, <2>7, RefreshFailsInv
  <2>8. ASSUME NEW w \in Writers, RefreshIsDue(w) \/ TakeCopy(w) \/ WorkIsDropped(w)
        PROVE  ComesBack
    BY <2>1, <2>8 DEF RefreshIsDue, TakeCopy, WorkIsDropped, recordVars
  <2>9. CASE Tick \/ SetQuotaCooldownDisabled
    BY <2>1, <2>9 DEF Tick, SetQuotaCooldownDisabled, recordVars
  <2>10. ASSUME NEW w \in Writers, NEW work, Ends(w, work)
         PROVE  copy[w].auth \in AuthRecord /\ copy[w].work = work /\ Finishes(w)
    BY <2>10, EndsProperties DEF Sound
  <2>11. ASSUME NEW w \in Writers, RefreshSucceeds(w) PROVE ComesBack
    <3>1. Ends(w, "refresh") /\ auth' = [copy[w].auth EXCEPT !.err = None]
      BY <2>11 DEF RefreshSucceeds, Update
    <3>2. auth'.disabled = copy[w].auth.disabled
      BY <2>10, <3>1 DEF AuthRecord
    <3> QED  BY <2>11, <3>2, WritersSteps DEF On, ComesBack
  <2>12. ASSUME NEW w \in Writers, ServiceRemoves(w) PROVE ComesBack
    <3>1. Ends(w, "service") /\ auth' = SwitchedOff(copy[w].auth)
      BY <2>12 DEF ServiceRemoves, Update
    <3>2. auth'.disabled
      BY <2>10, <3>1, SwitchedOffProperties
    <3> QED  BY <3>2 DEF ComesBack
  <2>13. ASSUME NEW w \in Writers, SaveFields(w) PROVE ComesBack
    <3>1. copy[w].work = "edit"
      BY <2>13 DEF SaveFields, Ends
    <3> QED  BY <2>13, <3>1, WritersSteps DEF On, ComesBack
  <2>14. ASSUME NEW w \in Writers, NEW off \in BOOLEAN, PatchStatus(w, off) PROVE ComesBack
    <3>1. copy[w].work = "edit"
      BY <2>14 DEF PatchStatus, Ends
    <3> QED  BY <2>14, <3>1, WritersSteps DEF On, ComesBack
  <2>15. ASSUME NEW w \in Writers, NEW off \in BOOLEAN, ServiceUpdates(w, off)
         PROVE  ComesBack
    <3>1. CASE On(copy[w].auth)
      BY <2>15, <3>1, WritersSteps DEF On, ComesBack
    <3>2. CASE ~On(copy[w].auth)
      <4>1. Update(Fresh(off), {}, NoStates)
        BY <2>15, <3>2 DEF ServiceUpdates
      <4> QED  BY <4>1 DEF Update, Keeps, On, ComesBack
    <3> QED  BY <3>1, <3>2
  <2> QED
    BY <2>2, <2>3, <2>4, <2>5, <2>6, <2>7, <2>8, <2>9, <2>11, <2>12, <2>13, <2>14, <2>15
    DEF Next
<1> QED
  BY <1>1, Invariance, PTL DEF Spec, ReenabledStartsClean, ComesBack

LeavesError ==
    ErrorJustified /\ ~ErrorJustified' => \E w \in Writers :
        /\ Finishes(w)
        /\ copy[w].auth.status = "error"
        /\ \A m \in copy[w].tracked : copy[w].states[m].err = None
        /\ copy[w].work = "refresh" \/ copy[w].auth.err = None

\* Only a refresh takes the last reason of an error away and leaves the status.
THEOREM ErrorIsLeftByRefreshOnly == Spec => OnlyRefreshLeavesError
<1>1. IInv /\ [Next]_vars => [LeavesError]_vars
  <2> SUFFICES ASSUME IInv, Next PROVE LeavesError
    OBVIOUS
  <2>1. ASSUME ErrorJustified' PROVE LeavesError
    BY <2>1 DEF LeavesError
  <2>2. ASSUME auth' = auth, tracked' = tracked, states' = states PROVE LeavesError
    BY <2>2 DEF LeavesError, ErrorJustified, HasReason
  <2>3. "quota" \in Kinds
    BY DEF Kinds
  <2>4. ASSUME NEW m \in Models, Success(m) PROVE LeavesError
    BY <2>1, <2>4, SuccessInv DEF ErrorJustified, HasReason
  <2>5. ASSUME NEW m \in Models, NEW k \in Kinds, NEW hint \in Hints \cup {NoHint},
               Failure(m, k, hint)
        PROVE  LeavesError
    BY <2>1, <2>5, FailureInv DEF ErrorJustified, HasReason
  <2>6. ASSUME NEW supported \in SUBSET Models, Reconcile(supported) PROVE LeavesError
    BY <2>1, <2>2, <2>6, ReconcileInv DEF ErrorJustified, HasReason
  <2>7. \A off \in BOOLEAN : Fresh(off).status # "error"
    BY DEF Fresh
  <2>8. ASSUME NEW off \in BOOLEAN, NEW ms, NEW ss, Update(Fresh(off), ms, ss)
        PROVE  LeavesError
    BY <2>1, <2>7, <2>8 DEF Update, ErrorJustified
  <2>9. ASSUME NEW off \in BOOLEAN, Upsert(off) PROVE LeavesError
    BY <2>8, <2>9 DEF Upsert
  <2>10. ASSUME NEW w \in Writers, NEW k \in {"unauthorized", "other"}, RefreshFails(w, k)
         PROVE  LeavesError
    BY <2>1, <2>10, RefreshFailsInv DEF ErrorJustified, HasReason
  <2>11. ASSUME NEW w \in Writers, RefreshIsDue(w) \/ TakeCopy(w) \/ WorkIsDropped(w)
         PROVE  LeavesError
    BY <2>2, <2>11 DEF RefreshIsDue, TakeCopy, WorkIsDropped, recordVars
  <2>12. CASE Tick \/ SetQuotaCooldownDisabled
    BY <2>2, <2>12 DEF Tick, SetQuotaCooldownDisabled, recordVars
  <2>13. ASSUME NEW w \in Writers, NEW off \in BOOLEAN, ServiceUpdates(w, off)
         PROVE  LeavesError
    BY <2>8, <2>13 DEF ServiceUpdates
  <2>14. ASSUME NEW w \in Writers, NEW off \in BOOLEAN, PatchStatus(w, off)
         PROVE  LeavesError
    BY <2>1, <2>14, PatchStatusInv DEF ErrorJustified
  <2>15. ASSUME NEW w \in Writers, ServiceRemoves(w) PROVE LeavesError
    <3>1. Ends(w, "service") /\ auth' = SwitchedOff(copy[w].auth)
      BY <2>15 DEF ServiceRemoves, Update
    <3>2. copy[w].auth \in AuthRecord
      BY <3>1, EndsProperties DEF Sound
    <3> QED  BY <2>1, <3>1, <3>2, SwitchedOffProperties DEF ErrorJustified
  <2>16. ASSUME NEW w \in Writers, RefreshSucceeds(w) \/ SaveFields(w),
                auth'.status = "error", ~HasReason(auth', tracked', states')
         PROVE  LeavesError
    <3> DEFINE c == copy[w]
    <3>1. /\ Finishes(w) /\ c.auth \in AuthRecord
          /\ c.work = "refresh" \/ c.work = "edit"
          /\ c.work = "refresh" => auth' = [c.auth EXCEPT !.err = None]
          /\ c.work = "edit" => auth' = c.auth
          /\ \/ c.tracked = {}
             \/ tracked' = c.tracked /\ states' = c.states
      <4>1. CASE RefreshSucceeds(w)
        <5>1. /\ Ends(w, "refresh")
              /\ Update([c.auth EXCEPT !.err = None], c.tracked, c.states)
          BY <4>1 DEF RefreshSucceeds
        <5>2. Finishes(w) /\ c.auth \in AuthRecord /\ c.work = "refresh"
          BY <5>1, EndsProperties DEF Sound
        <5> QED  BY <5>1, <5>2 DEF Update, Keeps
      <4>2. CASE SaveFields(w)
        <5>1. Ends(w, "edit") /\ Update(c.auth, c.tracked, c.states)
          BY <4>2 DEF SaveFields
        <5>2. Finishes(w) /\ c.auth \in AuthRecord /\ c.work = "edit"
          BY <5>1, EndsProperties DEF Sound
        <5> QED  BY <5>1, <5>2 DEF Update, Keeps
      <4> QED  BY <2>16, <4>1, <4>2
    <3> HIDE DEF c
    <3>2. c.auth.status = "error" /\ (c.work = "refresh" \/ c.auth.err = None)
      BY <2>16, <3>1 DEF AuthRecord, HasReason
    <3>3. \A m \in c.tracked : c.states[m].err = None
      BY <2>16, <3>1 DEF HasReason
    <3> QED  BY <3>1, <3>2, <3>3 DEF LeavesError, c
  <2>17. ASSUME NEW w \in Writers, RefreshSucceeds(w) \/ SaveFields(w) PROVE LeavesError
    BY <2>1, <2>16, <2>17 DEF ErrorJustified
  <2> QED
    BY <2>3, <2>4, <2>5, <2>6, <2>9, <2>10, <2>11, <2>12, <2>13, <2>14, <2>15, <2>17
    DEF Next
<1> QED
  BY <1>1, Invariance, PTL DEF Spec, OnlyRefreshLeavesError, LeavesError
=============================================================================
