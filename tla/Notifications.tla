--------------------------- MODULE Notifications ---------------------------
(***************************************************************************)
(* tasks/notifications.py: the Celery messages that dispatch_event sends   *)
(* for one event type of one order.  Several messages are one event that   *)
(* was dispatched again, or one message that the broker delivered twice;   *)
(* they differ in event_id only, which no idempotency key contains.        *)
(*                                                                         *)
(* Each call that leaves the worker (Redis, PostgreSQL, a provider) is a   *)
(* step, so workers interleave and stop between any two of them. A Redis   *)
(* command may have been executed although it raises; a commit that raises *)
(* is taken not to have happened. The circuit breakers are objects in the  *)
(* memory of a worker: whether one lets a call through is left open here,  *)
(* CircuitBreaker says when it does.                                       *)
(***************************************************************************)
EXTENDS Naturals, Sequences, FiniteSets

CONSTANTS
  Messages,      \* the Celery messages
  ChannelList,   \* enabled_channels: the tenant's preferences for the event
  MaxRetries,    \* max_retries
  Faults,        \* which of the parts below may fail
  MaxCrashes     \* bound on the number of workers that are lost

Channels == {"WEBSOCKET", "EMAIL", "PUSH"}

ASSUME NotificationAssumption ==
  /\ ChannelList \in Seq(Channels)
  /\ MaxRetries \in Nat /\ MaxCrashes \in Nat
  /\ Faults \subseteq {"provider", "redis", "database", "process"}

VARIABLES
  task,       \* how far the execution of each message is
  keys,       \* Redis: channels with an idempotency key
  sent,       \* how often each channel has delivered
  degraded,   \* how often the fallback has published for it
  log,        \* notification_logs: rows by channel and status
  dlq,        \* Redis: channels in notifications:dlq
  crashes

vars == <<task, keys, sent, degraded, log, dlq, crashes>>

LogStatus == {"SUCCESS", "FAILED", "RETRY"}

\* The call an execution makes next.
Serving == {"deliver", "success", "fallback", "failed", "verdict"}
Over    == {"done", "dead"}
PcName  == Serving \cup Over \cup {"unsent", "queued", "claim"}

\* The channel message m is at: enabled_channels[at].
Channel(m) == ChannelList[task[m].at]

Init ==
  /\ task = [m \in Messages |-> [pc |-> "unsent", at |-> 1, retries |-> 0]]
  /\ keys = {}
  /\ sent = [c \in Channels |-> 0]
  /\ degraded = [c \in Channels |-> 0]
  /\ log = [c \in Channels |-> [s \in LogStatus |-> 0]]
  /\ dlq = {}
  /\ crashes = 0

-----------------------------------------------------------------------------
(* Control *)

Goto(m, pc) == task' = [task EXCEPT ![m].pc = pc]

\* The loop goes on with the next channel.
NextChannel(m) == task' = [task EXCEPT ![m].pc = "claim", ![m].at = @ + 1]

\* Mutant: one retry too many.
Raise_OneMore(m) ==
  task' = [task EXCEPT ![m] =
             IF @.retries <= MaxRetries
             THEN [pc |-> "queued", at |-> 1, retries |-> @.retries + 1]
             ELSE [@ EXCEPT !.pc = "dead"]]

\* An exception leaves the task: Celery runs it again from the start while
\* retries are left.
Raise(m) ==
  task' = [task EXCEPT ![m] =
             IF @.retries < MaxRetries
             THEN [pc |-> "queued", at |-> 1, retries |-> @.retries + 1]
             ELSE [@ EXCEPT !.pc = "dead"]]

\* A row in notification_logs.
Log(m, s) == log' = [log EXCEPT ![Channel(m)][s] = @ + 1]

\* send_notification_task.delay.
DispatchEvent(m) ==
  /\ task[m].pc = "unsent"
  /\ Goto(m, "queued")
  /\ UNCHANGED <<keys, sent, degraded, log, dlq, crashes>>

\* A worker takes the message and reads the preferences.
Start(m) ==
  /\ task[m].pc = "queued"
  /\ \/ Goto(m, "claim")
     \/ "database" \in Faults /\ Raise(m)
  /\ UNCHANGED <<keys, sent, degraded, log, dlq, crashes>>

Finish(m) ==
  /\ task[m].pc = "claim" /\ task[m].at > Len(ChannelList)
  /\ Goto(m, "done")
  /\ UNCHANGED <<keys, sent, degraded, log, dlq, crashes>>

-----------------------------------------------------------------------------
(* One channel *)

\* Mutant: the key is looked up and never set.
Claim_NotSet(m) ==
  /\ task[m].pc = "claim" /\ task[m].at <= Len(ChannelList)
  /\ IF Channel(m) \in keys THEN NextChannel(m) ELSE Goto(m, "deliver")
  /\ UNCHANGED <<keys, sent, degraded, log, dlq, crashes>>

\* SET NX EX: the channel is served by the execution that has set its key.
Claim(m) ==
  /\ task[m].pc = "claim" /\ task[m].at <= Len(ChannelList)
  /\ IF Channel(m) \in keys
     THEN NextChannel(m) /\ UNCHANGED keys
     ELSE Goto(m, "deliver") /\ keys' = keys \cup {Channel(m)}
  /\ UNCHANGED <<sent, degraded, log, dlq, crashes>>

\* The SET raises, before or after Redis has executed it.
ClaimRaises(m) ==
  /\ "redis" \in Faults
  /\ task[m].pc = "claim" /\ task[m].at <= Len(ChannelList)
  /\ keys' \in {keys, keys \cup {Channel(m)}}
  /\ Raise(m)
  /\ UNCHANGED <<sent, degraded, log, dlq, crashes>>

\* The publish, or the provider behind its circuit breaker, delivers.
Deliver(m) ==
  /\ task[m].pc = "deliver"
  /\ sent' = [sent EXCEPT ![Channel(m)] = @ + 1]
  /\ Goto(m, "success")
  /\ UNCHANGED <<keys, degraded, log, dlq, crashes>>

\* The publish raises, before or after Redis has executed it.
PublishRaises(m) ==
  /\ "redis" \in Faults
  /\ task[m].pc = "deliver" /\ Channel(m) = "WEBSOCKET"
  /\ \/ sent' = [sent EXCEPT ![Channel(m)] = @ + 1]
     \/ UNCHANGED sent
  /\ Goto(m, "failed")
  /\ UNCHANGED <<keys, degraded, log, dlq, crashes>>

\* The push provider fails (the e-mail one answers True in every case), or the
\* circuit of either is open.
ProviderFails(m) ==
  /\ "provider" \in Faults
  /\ task[m].pc = "deliver" /\ Channel(m) # "WEBSOCKET"
  /\ Goto(m, "fallback")
  /\ UNCHANGED <<keys, sent, degraded, log, dlq, crashes>>

\* The SUCCESS row.
LogSuccess(m) ==
  /\ task[m].pc = "success"
  /\ Log(m, "SUCCESS")
  /\ NextChannel(m)
  /\ UNCHANGED <<keys, sent, degraded, dlq, crashes>>

\* It is not written: for a provider this is a failed call as well.
LogSuccessFails(m) ==
  /\ "database" \in Faults
  /\ task[m].pc = "success"
  /\ Goto(m, IF Channel(m) = "WEBSOCKET" THEN "failed" ELSE "fallback")
  /\ UNCHANGED <<keys, sent, degraded, log, dlq, crashes>>

\* Mutant: a failed call leaves no FAILED row.
Fallback_Unlogged(m) ==
  /\ task[m].pc = "fallback"
  /\ degraded' = [degraded EXCEPT ![Channel(m)] = @ + 1]
  /\ Goto(m, "verdict")
  /\ UNCHANGED <<keys, sent, log, dlq, crashes>>

\* Mutant: the fallback publishes for the e-mail only.
Fallback_EmailOnly(m) ==
  /\ task[m].pc = "fallback"
  /\ IF Channel(m) = "EMAIL"
     THEN degraded' = [degraded EXCEPT ![Channel(m)] = @ + 1]
     ELSE UNCHANGED degraded
  /\ Goto(m, "failed")
  /\ UNCHANGED <<keys, sent, log, dlq, crashes>>

\* _fallback_email and _fallback_push publish, and then raise in any case:
\* their row has the status DEGRADED, which NotificationStatus does not know.
Fallback(m) ==
  /\ task[m].pc = "fallback"
  /\ \/ degraded' = [degraded EXCEPT ![Channel(m)] = @ + 1]
     \/ "redis" \in Faults /\ UNCHANGED degraded
  /\ Goto(m, "failed")
  /\ UNCHANGED <<keys, sent, log, dlq, crashes>>

\* except Exception: the FAILED row.
LogFailed(m) ==
  /\ task[m].pc = "failed"
  /\ \/ Log(m, "FAILED") /\ Goto(m, "verdict")
     \/ "database" \in Faults /\ Raise(m) /\ UNCHANGED log
  /\ UNCHANGED <<keys, sent, degraded, dlq, crashes>>

\* Mutant: the last attempt is raised again after the LPUSH.
DeadLetter_Raises(m) ==
  /\ task[m].pc = "verdict" /\ task[m].retries >= MaxRetries
  /\ dlq' = dlq \cup {Channel(m)}
  /\ Raise(m)
  /\ UNCHANGED <<keys, sent, degraded, log, crashes>>

\* On the last attempt, LPUSH to the dead-letter list; the loop goes on.
DeadLetter(m) ==
  /\ task[m].pc = "verdict" /\ task[m].retries >= MaxRetries
  /\ \/ dlq' = dlq \cup {Channel(m)} /\ NextChannel(m)
     \/ "redis" \in Faults /\ dlq' \in {dlq, dlq \cup {Channel(m)}} /\ Raise(m)
  /\ UNCHANGED <<keys, sent, degraded, log, crashes>>

\* Before, the RETRY row and raise err.
Retry(m) ==
  /\ task[m].pc = "verdict" /\ task[m].retries < MaxRetries
  /\ \/ Log(m, "RETRY")
     \/ "database" \in Faults /\ UNCHANGED log
  /\ Raise(m)
  /\ UNCHANGED <<keys, sent, degraded, dlq, crashes>>

\* Mutant: a lost worker's message comes back as a retry that releases the
\* key of the channel it was at.
WorkerLost_Releases(m) ==
  /\ crashes < MaxCrashes
  /\ task[m].pc \in Serving
  /\ crashes' = crashes + 1
  /\ task' = [task EXCEPT ![m].pc = "queued", ![m].at = 1]
  /\ keys' = keys \ {Channel(m)}
  /\ UNCHANGED <<sent, degraded, log, dlq>>

\* acks_late: the message of a worker that is lost as a whole, up to the
\* acknowledgement, is delivered again with its count of retries.
WorkerLost(m) ==
  /\ crashes < MaxCrashes
  /\ task[m].pc \in Serving \cup Over \cup {"claim"}
  /\ crashes' = crashes + 1
  /\ task' = [task EXCEPT ![m].pc = "queued", ![m].at = 1]
  /\ UNCHANGED <<keys, sent, degraded, log, dlq>>

\* A process of the pool is killed alone: the worker acknowledges its message,
\* since the setting that would reject it is task_reject_on_worker_lost.
ProcessLost(m) ==
  /\ "process" \in Faults
  /\ task[m].pc \in Serving \cup {"claim"}
  /\ Goto(m, "dead")
  /\ UNCHANGED <<keys, sent, degraded, log, dlq, crashes>>

-----------------------------------------------------------------------------
(* Specification *)

Step(m) ==
  \/ Start(m) \/ Finish(m) \/ Claim(m) \/ ClaimRaises(m)
  \/ Deliver(m) \/ PublishRaises(m) \/ ProviderFails(m)
  \/ LogSuccess(m) \/ LogSuccessFails(m)
  \/ Fallback(m) \/ LogFailed(m) \/ DeadLetter(m) \/ Retry(m)

Next ==
  \E m \in Messages : DispatchEvent(m) \/ Step(m) \/ WorkerLost(m) \/ ProcessLost(m)

Spec == Init /\ [][Next]_vars

\* Workers take the queued messages and go on with what they have begun.
FairSpec == Spec /\ \A m \in Messages : WF_vars(Step(m))

-----------------------------------------------------------------------------
(* Properties *)

\* Counters and columns keep to their types, and the attempts of a message
\* stay within max_retries.
TypeOK ==
  /\ task \in [Messages -> [pc : PcName, at : 1..Len(ChannelList) + 1,
                            retries : 0..MaxRetries]]
  /\ keys \subseteq Channels /\ dlq \subseteq Channels
  /\ sent \in [Channels -> Nat] /\ degraded \in [Channels -> Nat]
  /\ log \in [Channels -> [LogStatus -> Nat]]
  /\ crashes \in 0..MaxCrashes
  /\ \A m \in Messages : task[m].pc \in Serving => task[m].at \in DOMAIN ChannelList

\* Whatever is dispatched twice, delivered twice by the broker, retried, or
\* executed again after its worker was lost: a channel notifies the customer at
\* most once, and so does its fallback.
AtMostOnce == \A c \in Channels : sent[c] <= 1 /\ degraded[c] <= 1

\* The audit log never contradicts itself: a channel gets one verdict, SUCCESS
\* or FAILED, over all executions of all messages, and a SUCCESS was sent.
OneVerdict ==
  \A c \in Channels :
    /\ log[c]["SUCCESS"] + log[c]["FAILED"] <= 1
    /\ log[c]["SUCCESS"] <= sent[c]

\* What is in the dead-letter list has failed, and is not waiting for a retry.
DeadLettersFailed ==
  \A c \in dlq : log[c]["FAILED"] = 1 /\ log[c]["RETRY"] = 0

Enabled == {ChannelList[i] : i \in DOMAIN ChannelList}
Reached(c) == sent[c] > 0 \/ degraded[c] > 0

\* While providers fail and no worker is lost, every enabled channel of a
\* dispatched event is reached in the end, by itself or by its fallback, however
\* early in the list another one fails and whatever attempt it fails in.
EveryChannelReached ==
  \A m \in Messages, c \in Channels :
    c \in Enabled /\ task[m].pc = "queued" ~> Reached(c) \/ crashes > 0

\* A worker that is lost as a whole loses at most the notification it was serving:
\* the key is set, so the redelivered message skips that channel, but it does
\* serve the channels behind it.
LossPerCrash ==
  "process" \notin Faults /\ (\A m \in Messages : task[m].pc \in Over) =>
    Cardinality({c \in Enabled : ~Reached(c)}) <= crashes
=============================================================================
