--------------------------- MODULE CircuitBreaker ---------------------------
(***************************************************************************)
(* core/circuit_breaker.py: one CircuitBreaker object and the calls that   *)
(* go through it.  _before_call, _on_success and _on_failure each hold the *)
(* object's lock, so each is one step; between them a call waits for the   *)
(* provider, and other calls and the clock move on.                        *)
(***************************************************************************)
EXTENDS Naturals

CONSTANTS
  Calls,             \* the callers, each with one call at a time
  FailureThreshold,  \* failure_threshold
  HalfOpenTrials,    \* half_open_trials
  Asynchronous       \* call_async (TRUE) or call_sync (FALSE)

ASSUME BreakerAssumption ==
  /\ FailureThreshold \in Nat \ {0}
  /\ HalfOpenTrials \in Nat \ {0}
  /\ Asynchronous \in BOOLEAN

VARIABLES
  breaker,  \* state, failures and successful_trials of the object
  cooled,   \* recovery_timeout has passed since last_state_change
  up,       \* whether the provider answers
  call,     \* how far the call of each caller is
  streak    \* history: the outcomes reported last that were all failures

vars == <<breaker, cooled, up, call, streak>>

BreakerState == {"CLOSED", "OPEN", "HALF-OPEN"}

\* How a call ends: with the provider's result, the fallback's, or an
\* exception; a caller with none of them has not called yet.
Resting == {"idle", "result", "fallback", "raised"}
Pending == {"out", "ok", "failed"}

-----------------------------------------------------------------------------
(* The object *)

\* Nothing compares failures with more than the threshold, or streak either.
Saturated(n) == IF n > FailureThreshold THEN FailureThreshold ELSE n

HalfOpened(b) == [b EXCEPT !.state = "HALF-OPEN", !.trials = 0]

\* Mutant: a success leaves the count of a closed circuit as it is.
Succeeded_NoReset(b) ==
  CASE b.state = "HALF-OPEN" /\ b.trials + 1 >= HalfOpenTrials ->
         [state |-> "CLOSED", failures |-> 0, trials |-> b.trials + 1]
    [] b.state = "HALF-OPEN" /\ b.trials + 1 < HalfOpenTrials ->
         [b EXCEPT !.trials = @ + 1]
    [] OTHER -> b

\* Mutant: the count survives the recovery.
Succeeded_KeepsCount(b) ==
  CASE b.state = "HALF-OPEN" ->
         [b EXCEPT !.trials = @ + 1,
            !.state = IF b.trials + 1 >= HalfOpenTrials THEN "CLOSED" ELSE @]
    [] b.state = "CLOSED" -> [b EXCEPT !.failures = 0]
    [] OTHER -> b

\* Mutant: a trial that succeeds is not counted.
Succeeded_Uncounted(b) == IF b.state = "CLOSED" THEN [b EXCEPT !.failures = 0] ELSE b

\* Mutant: it takes one successful trial more to close the circuit.
Succeeded_OneMore(b) ==
  CASE b.state = "HALF-OPEN" /\ b.trials >= HalfOpenTrials ->
         [state |-> "CLOSED", failures |-> 0, trials |-> b.trials]
    [] b.state = "HALF-OPEN" /\ b.trials < HalfOpenTrials -> [b EXCEPT !.trials = @ + 1]
    [] b.state = "CLOSED" -> [b EXCEPT !.failures = 0]
    [] OTHER -> b

\* A success counts as a trial in a half-open circuit, whenever its call began.
Succeeded(b) ==
  CASE b.state = "HALF-OPEN" /\ b.trials + 1 >= HalfOpenTrials ->
         [state |-> "CLOSED", failures |-> 0, trials |-> b.trials + 1]
    [] b.state = "HALF-OPEN" /\ b.trials + 1 < HalfOpenTrials ->
         [b EXCEPT !.trials = @ + 1]
    [] b.state = "CLOSED" -> [b EXCEPT !.failures = 0]
    [] OTHER -> b

Failed(b) ==
  LET n == Saturated(b.failures + 1)
  IN  [b EXCEPT !.failures = n,
                !.state = IF n >= FailureThreshold THEN "OPEN" ELSE @]

-----------------------------------------------------------------------------
(* The calls *)

Init ==
  /\ breaker = [state |-> "CLOSED", failures |-> 0, trials |-> 0]
  /\ cooled = FALSE
  /\ up = TRUE
  /\ call = [c \in Calls |-> "idle"]
  /\ streak = 0

Becomes(c, s) == call' = [call EXCEPT ![c] = s]

\* What a call that cannot have the provider's result ends with: call_async
\* looks up asyncio, which the module does not import, before the fallback.
Fallback == IF Asynchronous THEN "raised" ELSE "fallback"

\* _before_call of a call that reaches the provider; the first one after the
\* cool-down makes the circuit half-open.
Admit(c) ==
  /\ call[c] \in Resting
  /\ breaker.state = "OPEN" => cooled
  /\ IF breaker.state = "OPEN"
     THEN breaker' = HalfOpened(breaker) /\ cooled' = FALSE
     ELSE UNCHANGED <<breaker, cooled>>
  /\ Becomes(c, "out")
  /\ UNCHANGED <<up, streak>>

\* _before_call of a call that is blocked.
Block(c) ==
  /\ call[c] \in Resting
  /\ breaker.state = "OPEN" /\ ~cooled
  /\ Becomes(c, Fallback)
  /\ UNCHANGED <<breaker, cooled, up, streak>>

\* The provider answers the call, or fails it.
Answer(c) ==
  /\ call[c] = "out"
  /\ Becomes(c, IF up THEN "ok" ELSE "failed")
  /\ UNCHANGED <<breaker, cooled, up, streak>>

OnSuccess(c) ==
  /\ call[c] = "ok"
  /\ breaker' = Succeeded(breaker)
  /\ streak' = 0
  /\ Becomes(c, "result")
  /\ UNCHANGED <<cooled, up>>

\* _on_failure; a circuit that opens starts its cool-down.
OnFailure(c) ==
  /\ call[c] = "failed"
  /\ breaker' = Failed(breaker)
  /\ cooled' = (cooled /\ breaker'.state = breaker.state)
  /\ streak' = Saturated(streak + 1)
  /\ Becomes(c, Fallback)
  /\ UNCHANGED up

\* recovery_timeout passes.
CoolDown ==
  /\ breaker.state = "OPEN" /\ ~cooled
  /\ cooled' = TRUE
  /\ UNCHANGED <<breaker, up, call, streak>>

\* The provider goes down or comes back.
Outage  == up /\ up' = FALSE /\ UNCHANGED <<breaker, cooled, call, streak>>
Restore == ~up /\ up' = TRUE /\ UNCHANGED <<breaker, cooled, call, streak>>

Step(c) == Admit(c) \/ Block(c) \/ Answer(c) \/ OnSuccess(c) \/ OnFailure(c)

Next == (\E c \in Calls : Step(c)) \/ CoolDown \/ Outage \/ Restore

Spec == Init /\ [][Next]_vars

\* Time passes, the provider answers or fails every call, and a call that has
\* its answer goes on.  Nobody is obliged to call and the provider is not
\* obliged to come back.
FairSpec ==
  /\ Spec
  /\ WF_vars(CoolDown)
  /\ \A c \in Calls : WF_vars(Answer(c) \/ OnSuccess(c) \/ OnFailure(c))

-----------------------------------------------------------------------------
(* Properties *)

\* Every field keeps to its type, and a half-open circuit has had fewer
\* successful trials than it takes to close it.
TypeOK ==
  /\ breaker \in [state : BreakerState, failures : 0..FailureThreshold,
                  trials : 0..HalfOpenTrials]
  /\ cooled \in BOOLEAN /\ up \in BOOLEAN
  /\ call \in [Calls -> Resting \cup Pending]
  /\ streak \in 0..FailureThreshold
  /\ breaker.state = "HALF-OPEN" => breaker.trials < HalfOpenTrials

\* The count and the state, which different calls change at different times,
\* always agree: the circuit is closed exactly while the count is below the
\* threshold.  In particular no late success or failure closes or leaves open
\* a circuit without setting the count right.
CountsAgree == breaker.state = "CLOSED" <=> breaker.failures < FailureThreshold

\* A closed circuit opens only when the last FailureThreshold outcomes that
\* were reported, of whichever callers, were all failures: failures from
\* before a recovery and failures separated by a success never add up.
TripsOnStreak ==
  [][breaker.state = "CLOSED" /\ breaker'.state # "CLOSED"
       => streak' = FailureThreshold]_vars

\* A single failure that is reported while the circuit is half-open, be it of
\* a trial or of a call that began before, opens the circuit again.
ReopensAtOnce ==
  [][\A c \in Calls :
       breaker.state = "HALF-OPEN" /\ call[c] = "failed" /\ call'[c] # "failed"
         => breaker'.state = "OPEN"]_vars

\* Once the provider is back for good and calls keep being admitted, the
\* circuit closes and stays closed, whatever late failures are still to be
\* reported when the provider returns.
Recovers ==
  (<>[]up /\ []<>(\E c \in Calls : call[c] = "out")) => <>[](breaker.state = "CLOSED")
=============================================================================
