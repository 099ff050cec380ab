------------------------ MODULE CircuitBreakerProofs ------------------------
(***************************************************************************)
(* Theorems about CircuitBreaker, for every threshold, number of trials    *)
(* and set of callers.                                                     *)
(***************************************************************************)
EXTENDS CircuitBreaker, TLAPS

\* The inductive invariant: types, the agreement of count and state, and, of a
\* closed circuit, that its count is the current streak of failures.
BreakerInv ==
  /\ TypeOK
  /\ CountsAgree
  /\ breaker.state = "CLOSED" => breaker.failures = streak

LEMMA SaturatedBounds ==
  ASSUME NEW n \in Nat
  PROVE  /\ Saturated(n) \in 0..FailureThreshold
         /\ Saturated(n) < FailureThreshold => Saturated(n) = n
         /\ n < FailureThreshold => Saturated(n) = n
         /\ n >= FailureThreshold => Saturated(n) = FailureThreshold
BY BreakerAssumption DEF Saturated

\* What a success does to a breaker record that agrees with itself.
LEMMA SucceededEffect ==
  ASSUME NEW b \in [state : BreakerState, failures : 0..FailureThreshold,
                    trials : 0..HalfOpenTrials],
         b.state = "HALF-OPEN" => b.trials < HalfOpenTrials,
         b.state = "CLOSED" <=> b.failures < FailureThreshold
  PROVE  /\ Succeeded(b) \in [state : BreakerState, failures : 0..FailureThreshold,
                              trials : 0..HalfOpenTrials]
         /\ Succeeded(b).state = "HALF-OPEN" => Succeeded(b).trials < HalfOpenTrials
         /\ Succeeded(b).state = "CLOSED" <=> Succeeded(b).failures < FailureThreshold
         /\ Succeeded(b).state = "CLOSED" => Succeeded(b).failures = 0
         /\ b.state = "CLOSED" => Succeeded(b).state = "CLOSED"
<1>1. CASE b.state = "HALF-OPEN" /\ b.trials + 1 >= HalfOpenTrials
  <2>1. Succeeded(b) = [state |-> "CLOSED", failures |-> 0, trials |-> b.trials + 1]
    BY <1>1, BreakerAssumption DEF Succeeded
  <2>2. b.trials \in 0..HalfOpenTrials /\ b.trials + 1 \in 0..HalfOpenTrials
    BY <1>1, BreakerAssumption DEF BreakerState
  <2>3. 0 \in 0..FailureThreshold /\ 0 < FailureThreshold
    BY BreakerAssumption
  <2>4. Succeeded(b) \in [state : BreakerState, failures : 0..FailureThreshold,
                          trials : 0..HalfOpenTrials]
    BY <2>1, <2>2, <2>3 DEF BreakerState
  <2>5. /\ Succeeded(b).state = "CLOSED" /\ Succeeded(b).failures = 0
    BY <2>1
  <2> QED BY <2>3, <2>4, <2>5
<1>2. CASE b.state = "HALF-OPEN" /\ b.trials + 1 < HalfOpenTrials
  <2>1. Succeeded(b) = [b EXCEPT !.trials = @ + 1]
    BY <1>2, BreakerAssumption DEF Succeeded
  <2> QED BY <1>2, <2>1, BreakerAssumption DEF BreakerState
<1>3. CASE b.state = "CLOSED"
  <2>1. Succeeded(b) = [b EXCEPT !.failures = 0]
    BY <1>3 DEF Succeeded
  <2> QED BY <1>3, <2>1, BreakerAssumption DEF BreakerState
<1>4. CASE b.state = "OPEN"
  <2>1. Succeeded(b) = b
    BY <1>4 DEF Succeeded
  <2> QED BY <1>4, <2>1, BreakerAssumption DEF BreakerState
<1> QED BY <1>1, <1>2, <1>3, <1>4, BreakerAssumption DEF BreakerState

\* What a failure does to it.
LEMMA FailedEffect ==
  ASSUME NEW b \in [state : BreakerState, failures : 0..FailureThreshold,
                    trials : 0..HalfOpenTrials],
         b.state = "CLOSED" <=> b.failures < FailureThreshold
  PROVE  /\ Failed(b) \in [state : BreakerState, failures : 0..FailureThreshold,
                           trials : 0..HalfOpenTrials]
         /\ Failed(b).trials = b.trials
         /\ Failed(b).failures = Saturated(b.failures + 1)
         /\ Failed(b).state = "CLOSED" <=> Failed(b).failures < FailureThreshold
         /\ Failed(b).state # "HALF-OPEN"
         /\ b.state # "CLOSED" => Failed(b).state = "OPEN"
<1> DEFINE n == Saturated(b.failures + 1)
<1>1. /\ n \in 0..FailureThreshold
      /\ b.failures + 1 < FailureThreshold => n = b.failures + 1
      /\ b.failures + 1 >= FailureThreshold => n = FailureThreshold
  BY SaturatedBounds, BreakerAssumption
<1>2. Failed(b) = [b EXCEPT !.failures = n,
                            !.state = IF n >= FailureThreshold THEN "OPEN" ELSE b.state]
  BY DEF Failed
<1> HIDE DEF n
<1>3. Failed(b).failures = n /\ Failed(b).trials = b.trials
  BY <1>2
<1>4. Failed(b).state = IF n >= FailureThreshold THEN "OPEN" ELSE b.state
  BY <1>2
<1>5. Failed(b) \in [state : BreakerState, failures : 0..FailureThreshold,
                     trials : 0..HalfOpenTrials]
  BY <1>1, <1>2 DEF BreakerState
<1>6. b.state # "CLOSED" => n >= FailureThreshold
  BY <1>1, BreakerAssumption
<1> QED BY <1>1, <1>3, <1>4, <1>5, <1>6, BreakerAssumption DEF n, BreakerState

LEMMA InitEstablishes == Init => BreakerInv
<1> SUFFICES ASSUME Init PROVE BreakerInv
  OBVIOUS
<1>1. /\ 0 \in 0..FailureThreshold /\ 0 \in 0..HalfOpenTrials
      /\ 0 < FailureThreshold
  BY BreakerAssumption
<1>2. breaker = [state |-> "CLOSED", failures |-> 0, trials |-> 0]
  BY DEF Init
<1>3. breaker \in [state : BreakerState, failures : 0..FailureThreshold,
                   trials : 0..HalfOpenTrials]
  BY <1>1, <1>2 DEF BreakerState
<1>4. call \in [Calls -> Resting \cup Pending]
  BY DEF Init, Resting
<1>5. breaker.state = "CLOSED" /\ breaker.failures = 0
  BY <1>2
<1>6. cooled \in BOOLEAN /\ up \in BOOLEAN /\ streak = 0
  BY DEF Init
<1> QED BY <1>1, <1>3, <1>4, <1>5, <1>6 DEF BreakerInv, TypeOK, CountsAgree

\* One step per action: only OnSuccess and OnFailure report an outcome, and
\* only they and the admission after a cool-down change the object.
LEMMA StepPreserves == BreakerInv /\ [Next]_vars => BreakerInv'
<1> SUFFICES ASSUME BreakerInv, [Next]_vars PROVE BreakerInv'
  OBVIOUS
<1> USE BreakerAssumption
<1>1. ASSUME NEW c \in Calls, Admit(c) PROVE BreakerInv'
  <2>1. CASE breaker.state = "OPEN"
    <3>1. /\ breaker' = [breaker EXCEPT !.state = "HALF-OPEN", !.trials = 0]
          /\ cooled' = FALSE /\ UNCHANGED <<up, streak>>
      BY <1>1, <2>1 DEF Admit, HalfOpened
    <3>2. call' \in [Calls -> Resting \cup Pending]
      BY <1>1 DEF Admit, Becomes, BreakerInv, TypeOK, Pending
    <3>3. breaker \in [state : BreakerState, failures : 0..FailureThreshold,
                      trials : 0..HalfOpenTrials]
      BY DEF BreakerInv, TypeOK
    <3>4. 0 \in 0..HalfOpenTrials /\ 0 < HalfOpenTrials
      BY BreakerAssumption
    <3>5. /\ breaker'.state = "HALF-OPEN" /\ breaker'.trials = 0
          /\ breaker'.failures = breaker.failures
      BY <3>1, <3>3
    <3>6. breaker' \in [state : BreakerState, failures : 0..FailureThreshold,
                       trials : 0..HalfOpenTrials]
      BY <3>1, <3>3, <3>4 DEF BreakerState
    <3> QED BY <2>1, <3>1, <3>2, <3>4, <3>5, <3>6 DEF BreakerInv, TypeOK, CountsAgree
  <2>2. CASE breaker.state # "OPEN"
    BY <1>1, <2>2 DEF Admit, Becomes, BreakerInv, TypeOK, CountsAgree, BreakerState,
                      Resting, Pending
  <2> QED BY <2>1, <2>2
<1>2. ASSUME NEW c \in Calls, Block(c) PROVE BreakerInv'
  BY <1>2 DEF Block, Becomes, Fallback, BreakerInv, TypeOK, CountsAgree, Resting, Pending
<1>3. ASSUME NEW c \in Calls, Answer(c) PROVE BreakerInv'
  BY <1>3 DEF Answer, Becomes, BreakerInv, TypeOK, CountsAgree, Resting, Pending
<1>4. ASSUME NEW c \in Calls, OnSuccess(c) PROVE BreakerInv'
  <2>1. breaker' = Succeeded(breaker) /\ streak' = 0 /\ UNCHANGED <<cooled, up>>
    BY <1>4 DEF OnSuccess
  <2>2. call' \in [Calls -> Resting \cup Pending]
    BY <1>4 DEF OnSuccess, Becomes, BreakerInv, TypeOK, Resting, Pending
  <2>3. /\ Succeeded(breaker) \in [state : BreakerState, failures : 0..FailureThreshold,
                                   trials : 0..HalfOpenTrials]
        /\ Succeeded(breaker).state = "HALF-OPEN"
             => Succeeded(breaker).trials < HalfOpenTrials
        /\ Succeeded(breaker).state = "CLOSED"
             <=> Succeeded(breaker).failures < FailureThreshold
        /\ Succeeded(breaker).state = "CLOSED" => Succeeded(breaker).failures = 0
    BY SucceededEffect DEF BreakerInv, TypeOK, CountsAgree
  <2> QED BY <2>1, <2>2, <2>3 DEF BreakerInv, TypeOK, CountsAgree
<1>5. ASSUME NEW c \in Calls, OnFailure(c) PROVE BreakerInv'
  <2>1. breaker' = Failed(breaker) /\ streak' = Saturated(streak + 1) /\ UNCHANGED up
    BY <1>5 DEF OnFailure
  <2>2. call' \in [Calls -> Resting \cup Pending]
    BY <1>5 DEF OnFailure, Becomes, Fallback, BreakerInv, TypeOK, Resting, Pending
  <2>3. cooled' \in BOOLEAN
    BY <1>5 DEF OnFailure
  <2>4. /\ Failed(breaker) \in [state : BreakerState, failures : 0..FailureThreshold,
                                trials : 0..HalfOpenTrials]
        /\ Failed(breaker).failures = Saturated(breaker.failures + 1)
        /\ Failed(breaker).state = "CLOSED" <=> Failed(breaker).failures < FailureThreshold
        /\ Failed(breaker).state # "HALF-OPEN"
        /\ breaker.state # "CLOSED" => Failed(breaker).state = "OPEN"
    BY FailedEffect DEF BreakerInv, TypeOK, CountsAgree
  <2>5. Saturated(streak + 1) \in 0..FailureThreshold
    BY SaturatedBounds DEF BreakerInv, TypeOK
  <2>6. breaker'.state = "CLOSED" => breaker'.failures = streak'
    BY <2>1, <2>4 DEF BreakerInv
  <2> QED BY <2>1, <2>2, <2>3, <2>4, <2>5, <2>6 DEF BreakerInv, TypeOK, CountsAgree
<1>6. ASSUME CoolDown \/ Outage \/ Restore PROVE BreakerInv'
  BY <1>6 DEF CoolDown, Outage, Restore, BreakerInv, TypeOK, CountsAgree
<1>7. CASE UNCHANGED vars
  BY <1>7 DEF vars, BreakerInv, TypeOK, CountsAgree
<1> QED BY <1>1, <1>2, <1>3, <1>4, <1>5, <1>6, <1>7 DEF Next, Step

\* Types, agreement and streak hold in every reachable state, for any thresholds
\* and callers.
THEOREM BreakerInvariant == Spec => []BreakerInv
BY InitEstablishes, StepPreserves, PTL DEF Spec

\* The fields of the breaker and the calls keep to their types.
THEOREM BreakerTypes == Spec => []TypeOK
<1>1. BreakerInv => TypeOK
  BY DEF BreakerInv
<1> QED BY BreakerInvariant, <1>1, PTL

\* Count and state agree, however the reports of concurrent calls interleave
\* with the cool-down, for every threshold.
THEOREM CountsAgreeHolds == Spec => []CountsAgree
<1>1. BreakerInv => CountsAgree
  BY DEF BreakerInv
<1> QED BY BreakerInvariant, <1>1, PTL

\* A closed circuit opens only on FailureThreshold failures in a row.
THEOREM TripsOnStreakHolds == Spec => TripsOnStreak
<1>1. BreakerInv /\ [Next]_vars
        => [breaker.state = "CLOSED" /\ breaker'.state # "CLOSED"
              => streak' = FailureThreshold]_vars
  <2> SUFFICES ASSUME BreakerInv, Next, breaker.state = "CLOSED", breaker'.state # "CLOSED"
               PROVE  streak' = FailureThreshold
    OBVIOUS
  <2>1. PICK c \in Calls : OnSuccess(c) \/ OnFailure(c)
    BY DEF Next, Step, Admit, Block, Answer, CoolDown, Outage, Restore
  <2>2. CASE OnSuccess(c)
    <3>1. Succeeded(breaker).state = "CLOSED"
      BY SucceededEffect DEF BreakerInv, TypeOK, CountsAgree
    <3> QED BY <2>2, <3>1 DEF OnSuccess
  <2>3. CASE OnFailure(c)
    <3>1. /\ Failed(breaker).state # "CLOSED"
          /\ breaker.failures = streak /\ streak' = Saturated(streak + 1)
      BY <2>3 DEF OnFailure, BreakerInv
    <3>2. /\ ~ (Saturated(streak + 1) < FailureThreshold)
          /\ Saturated(streak + 1) \in 0..FailureThreshold
      BY <3>1, FailedEffect, SaturatedBounds DEF BreakerInv, TypeOK, CountsAgree
    <3> QED BY <3>1, <3>2, BreakerAssumption
  <2> QED BY <2>1, <2>2, <2>3
<1> QED BY BreakerInvariant, <1>1, PTL DEF Spec, TripsOnStreak

\* One failure reported to a half-open circuit opens it again.
THEOREM ReopensAtOnceHolds == Spec => ReopensAtOnce
<1>1. BreakerInv /\ [Next]_vars
        => [\A c \in Calls :
              breaker.state = "HALF-OPEN" /\ call[c] = "failed" /\ call'[c] # "failed"
                => breaker'.state = "OPEN"]_vars
  <2> SUFFICES ASSUME BreakerInv, Next, NEW c \in Calls, breaker.state = "HALF-OPEN",
                      call[c] = "failed", call'[c] # "failed"
               PROVE  breaker'.state = "OPEN"
    OBVIOUS
  <2>1. OnFailure(c)
    BY DEF Next, Step, Admit, Block, Answer, OnSuccess, OnFailure, CoolDown, Outage,
           Restore, Becomes, Resting, BreakerInv, TypeOK
  <2>2. Failed(breaker).state = "OPEN"
    BY FailedEffect DEF BreakerInv, TypeOK, CountsAgree
  <2> QED BY <2>1, <2>2 DEF OnFailure
<1> QED BY BreakerInvariant, <1>1, PTL DEF Spec, ReopensAtOnce
=============================================================================
