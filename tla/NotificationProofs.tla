------------------------- MODULE NotificationProofs -------------------------
(***************************************************************************)
(* Theorems about Notifications, for every list of channels, number of     *)
(* messages, retries and lost workers, and every combination of faults.    *)
(***************************************************************************)
EXTENDS Notifications, FiniteSetTheorems, TLAPS

\* Nothing was recorded about channel c.
Unrecorded(c) ==
  /\ log[c]["SUCCESS"] = 0 /\ log[c]["FAILED"] = 0 /\ log[c]["RETRY"] = 0
  /\ c \notin dlq

\* A channel without a key is untouched.
Untouched ==
  \A c \in Channels \ keys : sent[c] = 0 /\ degraded[c] = 0 /\ Unrecorded(c)

\* An execution that serves a channel holds its key, alone.
Owned ==
  \A m \in Messages : task[m].pc \in Serving =>
    /\ Channel(m) \in keys
    /\ \A n \in Messages \ {m} : task[n].pc \in Serving => Channel(n) # Channel(m)

\* What has happened to channel c by the time its owner makes the next call.
PhaseOf(pc, c) ==
  /\ pc = "deliver"  => sent[c] = 0 /\ degraded[c] = 0 /\ Unrecorded(c)
  /\ pc = "success"  => sent[c] = 1 /\ degraded[c] = 0 /\ Unrecorded(c)
  /\ pc = "fallback" => degraded[c] = 0 /\ Unrecorded(c)
  /\ pc = "failed"   => Unrecorded(c)
  /\ pc = "verdict"  =>
       /\ log[c]["SUCCESS"] = 0 /\ log[c]["FAILED"] = 1 /\ log[c]["RETRY"] = 0
       /\ c \notin dlq

Phase == \A m \in Messages : PhaseOf(task[m].pc, Channel(m))

\* The three properties, for one channel.
Bounds(c) ==
  /\ sent[c] <= 1 /\ degraded[c] <= 1
  /\ log[c]["SUCCESS"] + log[c]["FAILED"] <= 1 /\ log[c]["SUCCESS"] <= sent[c]
  /\ c \in dlq => log[c]["FAILED"] = 1 /\ log[c]["RETRY"] = 0

NotificationInv ==
  /\ TypeOK /\ Untouched /\ Owned /\ Phase
  /\ \A c \in Channels : Bounds(c)

-----------------------------------------------------------------------------
(* Types *)

LEMMA ChannelType ==
  ASSUME TypeOK, NEW m \in Messages, task[m].at \in DOMAIN ChannelList
  PROVE  Channel(m) \in Channels
BY NotificationAssumption DEF Channel

\* Where the three ways to go on leave an execution.
LEMMA GotoType ==
  ASSUME TypeOK, NEW m \in Messages, NEW pc \in PcName, Goto(m, pc),
         pc \in Serving => task[m].at \in DOMAIN ChannelList
  PROVE  /\ task' \in [Messages -> [pc : PcName, at : 1..Len(ChannelList) + 1,
                                    retries : 0..MaxRetries]]
         /\ \A n \in Messages : task'[n].pc \in Serving => task'[n].at \in DOMAIN ChannelList
         /\ task'[m].pc = pc /\ task'[m].at = task[m].at
         /\ \A n \in Messages \ {m} : task'[n] = task[n]
BY DEF TypeOK, Goto

LEMMA NextChannelType ==
  ASSUME TypeOK, NEW m \in Messages, NextChannel(m), task[m].at \in DOMAIN ChannelList
  PROVE  /\ task' \in [Messages -> [pc : PcName, at : 1..Len(ChannelList) + 1,
                                    retries : 0..MaxRetries]]
         /\ \A n \in Messages : task'[n].pc \in Serving => task'[n].at \in DOMAIN ChannelList
         /\ task'[m].pc = "claim"
         /\ \A n \in Messages \ {m} : task'[n] = task[n]
<1>1. Len(ChannelList) \in Nat /\ DOMAIN ChannelList = 1..Len(ChannelList)
  BY NotificationAssumption
<1>2. task[m].at + 1 \in 1..Len(ChannelList) + 1
  BY <1>1
<1> QED BY SMTT(20), <1>2 DEF TypeOK, NextChannel, PcName, Serving

LEMMA RaiseType ==
  ASSUME TypeOK, NEW m \in Messages, Raise(m)
  PROVE  /\ task' \in [Messages -> [pc : PcName, at : 1..Len(ChannelList) + 1,
                                    retries : 0..MaxRetries]]
         /\ \A n \in Messages : task'[n].pc \in Serving => task'[n].at \in DOMAIN ChannelList
         /\ task'[m].pc \notin Serving
         /\ \A n \in Messages \ {m} : task'[n] = task[n]
<1>1. Len(ChannelList) \in Nat
  BY NotificationAssumption
<1>2. 1 \in 1..Len(ChannelList) + 1
  BY <1>1
<1>3. CASE task[m].retries < MaxRetries
  <2>1. task[m].retries + 1 \in 0..MaxRetries
    BY <1>3, NotificationAssumption DEF TypeOK
  <2>2. task' = [task EXCEPT ![m] = [pc |-> "queued", at |-> 1,
                                     retries |-> task[m].retries + 1]]
    BY <1>3 DEF Raise
  <2> QED BY <1>2, <2>1, <2>2 DEF TypeOK, PcName, Serving
<1>4. CASE ~ (task[m].retries < MaxRetries)
  <2>1. task' = [task EXCEPT ![m] = [task[m] EXCEPT !.pc = "dead"]]
    BY <1>4 DEF Raise
  <2> QED BY <2>1 DEF TypeOK, PcName, Serving, Over
<1> QED BY <1>3, <1>4

\* The same for the redelivery after a lost worker.
LEMMA LostType ==
  ASSUME TypeOK, NEW m \in Messages, WorkerLost(m)
  PROVE  /\ task' \in [Messages -> [pc : PcName, at : 1..Len(ChannelList) + 1,
                                    retries : 0..MaxRetries]]
         /\ \A n \in Messages : task'[n].pc \in Serving => task'[n].at \in DOMAIN ChannelList
         /\ task'[m].pc \notin Serving
         /\ \A n \in Messages \ {m} : task'[n] = task[n]
         /\ crashes' \in 0..MaxCrashes
<1>1. 1 \in 1..Len(ChannelList) + 1
  BY NotificationAssumption
<1>2. crashes' \in 0..MaxCrashes
  BY NotificationAssumption DEF TypeOK, WorkerLost
<1> QED BY ZenonT(40), <1>1, <1>2 DEF TypeOK, WorkerLost, PcName, Serving

-----------------------------------------------------------------------------
(* Steps *)

\* An execution that is not serving a channel, or gives it up, while at most a
\* key is added.
LEMMA OutsideStep ==
  ASSUME NotificationInv, TypeOK', NEW m \in Messages,
         keys \subseteq keys', UNCHANGED <<sent, degraded, log, dlq>>,
         \A n \in Messages \ {m} : task'[n] = task[n],
         task'[m].pc \notin Serving
  PROVE  NotificationInv'
<1>1. \A n \in Messages \ {m} : task'[n].pc = task[n].pc /\ Channel(n)' = Channel(n)
  BY DEF Channel
<1>2. Untouched'
  BY DEF NotificationInv, Untouched, Unrecorded
<1>3. Owned'
  BY <1>1 DEF NotificationInv, Owned
<1>4. Phase'
  <2> SUFFICES ASSUME NEW n \in Messages PROVE PhaseOf(task[n].pc, Channel(n))'
    BY DEF Phase
  <2>1. CASE n = m
    BY <2>1 DEF PhaseOf, Serving
  <2>2. CASE n # m
    BY <1>1, <2>2 DEF NotificationInv, Phase, PhaseOf, Unrecorded
  <2> QED BY <2>1, <2>2
<1>5. \A c \in Channels : Bounds(c)'
  BY DEF NotificationInv, Bounds
<1> QED BY <1>2, <1>3, <1>4, <1>5 DEF NotificationInv

\* A step of the execution that holds the key of channel c, and changes
\* nothing about the other channels.
LEMMA OwnerStep ==
  ASSUME NotificationInv, TypeOK', NEW m \in Messages, task[m].pc \in Serving,
         NEW c \in Channels, c = Channel(m), keys' = keys,
         \A n \in Messages \ {m} : task'[n] = task[n],
         \A d \in Channels \ {c} :
           /\ sent'[d] = sent[d] /\ degraded'[d] = degraded[d] /\ log'[d] = log[d]
           /\ d \in dlq' <=> d \in dlq,
         Bounds(c)',
         task'[m].pc \in Serving =>
           task'[m].at = task[m].at /\ PhaseOf(task[m].pc, c)'
  PROVE  NotificationInv'
<1>1. \A n \in Messages \ {m} : task'[n].pc = task[n].pc /\ Channel(n)' = Channel(n)
  BY DEF Channel
<1>2. task'[m].pc \in Serving => Channel(m)' = c
  BY DEF Channel
<1>3. \A n \in Messages \ {m} : task[n].pc \in Serving => Channel(n) \in Channels \ {c}
  BY ChannelType DEF NotificationInv, Owned, TypeOK
<1>4. Untouched'
  <2>1. c \in keys
    BY DEF NotificationInv, Owned
  <2> QED BY <2>1 DEF NotificationInv, Untouched, Unrecorded
<1>5. Owned'
  BY <1>1, <1>2, <1>3 DEF NotificationInv, Owned
<1>6. Phase'
  <2> SUFFICES ASSUME NEW n \in Messages PROVE PhaseOf(task[n].pc, Channel(n))'
    BY DEF Phase
  <2>1. CASE n = m
    BY <1>2, <2>1 DEF PhaseOf, Serving, Unrecorded
  <2>2. CASE n # m /\ task[n].pc \in Serving
    BY <1>1, <1>3, <2>2 DEF NotificationInv, Phase, PhaseOf, Unrecorded
  <2>3. CASE n # m /\ task[n].pc \notin Serving
    BY <1>1, <2>3 DEF PhaseOf, Serving
  <2> QED BY <2>1, <2>2, <2>3
<1>7. \A d \in Channels : Bounds(d)'
  BY DEF NotificationInv, Bounds
<1> QED BY <1>4, <1>5, <1>6, <1>7 DEF NotificationInv


\* What an execution that serves a channel can rely on.
LEMMA ServingFacts ==
  ASSUME NotificationInv, NEW m \in Messages, task[m].pc \in Serving
  PROVE  /\ task[m].at \in DOMAIN ChannelList /\ Channel(m) \in Channels
         /\ Bounds(Channel(m)) /\ PhaseOf(task[m].pc, Channel(m))
BY ChannelType DEF NotificationInv, TypeOK, Phase

\* A row of the audit log.
LEMMA LogEffect ==
  ASSUME NotificationInv, NEW m \in Messages, Channel(m) \in Channels,
         NEW s \in LogStatus, Log(m, s)
  PROVE  /\ log' \in [Channels -> [LogStatus -> Nat]]
         /\ log'[Channel(m)][s] = log[Channel(m)][s] + 1
         /\ \A t \in LogStatus \ {s} : log'[Channel(m)][t] = log[Channel(m)][t]
         /\ \A d \in Channels \ {Channel(m)} : log'[d] = log[d]
<1> DEFINE c == Channel(m)
<1>1. log \in [Channels -> [LogStatus -> Nat]]
  BY DEF NotificationInv, TypeOK
<1>2. log' = [log EXCEPT ![c] = [log[c] EXCEPT ![s] = log[c][s] + 1]]
  BY DEF Log
<1> HIDE DEF c
<1>3. c \in Channels
  BY DEF c
<1>4. [log[c] EXCEPT ![s] = log[c][s] + 1] \in [LogStatus -> Nat]
  BY <1>1, <1>3
<1> QED BY <1>1, <1>2, <1>3, <1>4 DEF c

LEMMA DispatchPreserves ==
  ASSUME NotificationInv, NEW m \in Messages, DispatchEvent(m) PROVE NotificationInv'
<1>1. "queued" \in PcName /\ "queued" \notin Serving
  BY DEF PcName, Serving
<1>2. Goto(m, "queued") /\ UNCHANGED <<keys, sent, degraded, log, dlq, crashes>>
  BY DEF DispatchEvent
<1>3. TypeOK' /\ task'[m].pc = "queued" /\ \A n \in Messages \ {m} : task'[n] = task[n]
  BY <1>1, <1>2, GotoType DEF NotificationInv, TypeOK
<1> QED BY <1>1, <1>2, <1>3, OutsideStep

LEMMA StartPreserves ==
  ASSUME NotificationInv, NEW m \in Messages, Start(m) PROVE NotificationInv'
<1>1. "claim" \in PcName /\ "claim" \notin Serving
  BY DEF PcName, Serving
<1>2. UNCHANGED <<keys, sent, degraded, log, dlq, crashes>>
  BY DEF Start
<1>3. CASE Goto(m, "claim")
  <2>1. TypeOK' /\ task'[m].pc = "claim" /\ \A n \in Messages \ {m} : task'[n] = task[n]
    BY <1>1, <1>2, <1>3, GotoType DEF NotificationInv, TypeOK
  <2> QED BY <1>1, <1>2, <2>1, OutsideStep
<1>4. CASE Raise(m)
  <2>1. /\ TypeOK' /\ task'[m].pc \notin Serving
        /\ \A n \in Messages \ {m} : task'[n] = task[n]
    BY <1>2, <1>4, RaiseType DEF NotificationInv, TypeOK
  <2> QED BY <1>2, <2>1, OutsideStep
<1> QED BY <1>3, <1>4 DEF Start

LEMMA FinishPreserves ==
  ASSUME NotificationInv, NEW m \in Messages, Finish(m) PROVE NotificationInv'
<1>1. "done" \in PcName /\ "done" \notin Serving
  BY DEF PcName, Serving, Over
<1>2. Goto(m, "done") /\ UNCHANGED <<keys, sent, degraded, log, dlq, crashes>>
  BY DEF Finish
<1>3. TypeOK' /\ task'[m].pc = "done" /\ \A n \in Messages \ {m} : task'[n] = task[n]
  BY <1>1, <1>2, GotoType DEF NotificationInv, TypeOK
<1> QED BY <1>1, <1>2, <1>3, OutsideStep

\* The key is new exactly when nobody serves the channel and nothing was
\* recorded about it.
LEMMA ClaimPreserves ==
  ASSUME NotificationInv, NEW m \in Messages, Claim(m) PROVE NotificationInv'
<1> DEFINE c == Channel(m)
<1>1. /\ task[m].pc = "claim" /\ task[m].at \in DOMAIN ChannelList
      /\ UNCHANGED <<sent, degraded, log, dlq, crashes>>
  BY NotificationAssumption DEF Claim, NotificationInv, TypeOK
<1>2. c \in Channels
  BY <1>1, ChannelType DEF NotificationInv
<1>3. CASE c \in keys
  <2>1. NextChannel(m) /\ keys' = keys
    BY <1>3 DEF Claim
  <2>2. /\ TypeOK' /\ task'[m].pc = "claim"
        /\ \A n \in Messages \ {m} : task'[n] = task[n]
    BY <1>1, <2>1, NextChannelType DEF NotificationInv, TypeOK
  <2>3. task'[m].pc \notin Serving
    BY <2>2 DEF Serving
  <2> QED BY <1>1, <2>1, <2>2, <2>3, OutsideStep
<1>4. CASE c \notin keys
  <2>1. Goto(m, "deliver") /\ keys' = keys \cup {c}
    BY <1>4 DEF Claim
  <2>2. "deliver" \in PcName /\ "deliver" \in Serving
    BY DEF PcName, Serving
  <2>3. /\ TypeOK' /\ task'[m].pc = "deliver" /\ task'[m].at = task[m].at
        /\ \A n \in Messages \ {m} : task'[n] = task[n]
    BY <1>1, <1>2, <2>1, <2>2, GotoType DEF NotificationInv, TypeOK
  <2>4. Channel(m)' = c /\ \A n \in Messages \ {m} : Channel(n)' = Channel(n)
    BY <2>3 DEF Channel
  <2>5. \A n \in Messages \ {m} : task[n].pc \in Serving => Channel(n) # c
    BY <1>4 DEF NotificationInv, Owned
  <2>6. Untouched'
    BY <1>1, <2>1 DEF NotificationInv, Untouched, Unrecorded
  <2>7. Owned'
    BY <2>1, <2>3, <2>4, <2>5 DEF NotificationInv, Owned
  <2>8. Phase'
    <3> SUFFICES ASSUME NEW n \in Messages PROVE PhaseOf(task[n].pc, Channel(n))'
      BY DEF Phase
    <3>1. CASE n = m
      BY <1>1, <1>2, <1>4, <2>3, <2>4, <3>1
      DEF NotificationInv, Untouched, PhaseOf, Unrecorded
    <3>2. CASE n # m
      BY <1>1, <2>3, <2>4, <3>2 DEF NotificationInv, Phase, PhaseOf, Unrecorded
    <3> QED BY <3>1, <3>2
  <2>9. \A d \in Channels : Bounds(d)'
    BY <1>1 DEF NotificationInv, Bounds
  <2> QED BY <2>3, <2>6, <2>7, <2>8, <2>9 DEF NotificationInv
<1> QED BY <1>3, <1>4

LEMMA ClaimRaisesPreserves ==
  ASSUME NotificationInv, NEW m \in Messages, ClaimRaises(m) PROVE NotificationInv'
<1>1. /\ task[m].at \in DOMAIN ChannelList /\ Raise(m)
      /\ UNCHANGED <<sent, degraded, log, dlq, crashes>>
      /\ keys' \in {keys, keys \cup {Channel(m)}}
  BY NotificationAssumption DEF ClaimRaises, NotificationInv, TypeOK
<1>2. Channel(m) \in Channels
  BY <1>1, ChannelType DEF NotificationInv
<1>3. keys \subseteq keys' /\ keys' \subseteq Channels
  BY <1>1, <1>2 DEF NotificationInv, TypeOK
<1>4. /\ TypeOK' /\ task'[m].pc \notin Serving
      /\ \A n \in Messages \ {m} : task'[n] = task[n]
  BY <1>1, <1>3, RaiseType DEF NotificationInv, TypeOK
<1> QED BY <1>1, <1>3, <1>4, OutsideStep

LEMMA WorkerLostPreserves ==
  ASSUME NotificationInv, NEW m \in Messages, WorkerLost(m) PROVE NotificationInv'
<1>1. UNCHANGED <<keys, sent, degraded, log, dlq>>
  BY DEF WorkerLost
<1>2. /\ TypeOK' /\ task'[m].pc \notin Serving
      /\ \A n \in Messages \ {m} : task'[n] = task[n]
  BY <1>1, LostType DEF NotificationInv, TypeOK
<1> QED BY <1>1, <1>2, OutsideStep

LEMMA ProcessLostPreserves ==
  ASSUME NotificationInv, NEW m \in Messages, ProcessLost(m) PROVE NotificationInv'
<1>1. "dead" \in PcName /\ "dead" \notin Serving
  BY DEF PcName, Serving, Over
<1>2. Goto(m, "dead") /\ UNCHANGED <<keys, sent, degraded, log, dlq, crashes>>
  BY DEF ProcessLost
<1>3. TypeOK' /\ task'[m].pc = "dead" /\ \A n \in Messages \ {m} : task'[n] = task[n]
  BY <1>1, <1>2, GotoType DEF NotificationInv, TypeOK
<1> QED BY <1>1, <1>2, <1>3, OutsideStep


LEMMA DeliverPreserves ==
  ASSUME NotificationInv, NEW m \in Messages, Deliver(m) PROVE NotificationInv'
<1>1. task[m].pc = "deliver" /\ task[m].pc \in Serving
  BY DEF Deliver, Serving
<1>2. PICK c \in Channels : c = Channel(m)
  BY <1>1, ServingFacts
<1>3. task[m].at \in DOMAIN ChannelList /\ PhaseOf("deliver", c)
  BY <1>1, <1>2, ServingFacts
<1>4. /\ sent' = [sent EXCEPT ![c] = sent[c] + 1] /\ Goto(m, "success")
      /\ UNCHANGED <<keys, degraded, log, dlq, crashes>>
  BY <1>2 DEF Deliver
<1>5. /\ sent' \in [Channels -> Nat] /\ sent'[c] = 1
      /\ \A d \in Channels \ {c} : sent'[d] = sent[d]
  BY <1>3, <1>4 DEF NotificationInv, TypeOK, PhaseOf
<1>6. "success" \in PcName /\ "success" \in Serving
  BY DEF PcName, Serving
<1>7. /\ TypeOK' /\ task'[m].pc = "success" /\ task'[m].at = task[m].at
      /\ \A n \in Messages \ {m} : task'[n] = task[n]
  BY <1>3, <1>4, <1>5, <1>6, GotoType DEF NotificationInv, TypeOK
<1>8. Bounds(c)' /\ PhaseOf(task[m].pc, c)'
  BY <1>3, <1>4, <1>5, <1>7 DEF PhaseOf, Unrecorded, Bounds
<1> QED BY <1>1, <1>2, <1>4, <1>5, <1>7, <1>8, OwnerStep

LEMMA PublishRaisesPreserves ==
  ASSUME NotificationInv, NEW m \in Messages, PublishRaises(m) PROVE NotificationInv'
<1>1. task[m].pc = "deliver" /\ task[m].pc \in Serving
  BY DEF PublishRaises, Serving
<1>2. PICK c \in Channels : c = Channel(m)
  BY <1>1, ServingFacts
<1>3. task[m].at \in DOMAIN ChannelList /\ PhaseOf("deliver", c)
  BY <1>1, <1>2, ServingFacts
<1>4. /\ (sent' = [sent EXCEPT ![c] = sent[c] + 1] \/ sent' = sent)
      /\ Goto(m, "failed") /\ UNCHANGED <<keys, degraded, log, dlq, crashes>>
  BY <1>2 DEF PublishRaises
<1>5. /\ sent' \in [Channels -> Nat] /\ sent'[c] <= 1
      /\ \A d \in Channels \ {c} : sent'[d] = sent[d]
  <2>1. sent \in [Channels -> Nat] /\ sent[c] = 0
    BY <1>3 DEF NotificationInv, TypeOK, PhaseOf
  <2>2. CASE sent' = [sent EXCEPT ![c] = sent[c] + 1]
    BY <2>1, <2>2
  <2>3. CASE sent' = sent
    BY <2>1, <2>3
  <2> QED BY <1>4, <2>2, <2>3
<1>6. "failed" \in PcName /\ "failed" \in Serving
  BY DEF PcName, Serving
<1>7. /\ TypeOK' /\ task'[m].pc = "failed" /\ task'[m].at = task[m].at
      /\ \A n \in Messages \ {m} : task'[n] = task[n]
  BY <1>3, <1>4, <1>5, <1>6, GotoType DEF NotificationInv, TypeOK
<1>8. Bounds(c)' /\ PhaseOf(task[m].pc, c)'
  BY <1>3, <1>4, <1>5, <1>7 DEF PhaseOf, Unrecorded, Bounds, NotificationInv, TypeOK
<1> QED BY <1>1, <1>2, <1>4, <1>5, <1>7, <1>8, OwnerStep

LEMMA ProviderFailsPreserves ==
  ASSUME NotificationInv, NEW m \in Messages, ProviderFails(m) PROVE NotificationInv'
<1>1. task[m].pc = "deliver" /\ task[m].pc \in Serving
  BY DEF ProviderFails, Serving
<1>2. PICK c \in Channels : c = Channel(m)
  BY <1>1, ServingFacts
<1>3. task[m].at \in DOMAIN ChannelList /\ PhaseOf("deliver", c) /\ Bounds(c)
  BY <1>1, <1>2, ServingFacts
<1>4. Goto(m, "fallback") /\ UNCHANGED <<keys, sent, degraded, log, dlq, crashes>>
  BY DEF ProviderFails
<1>5. "fallback" \in PcName /\ "fallback" \in Serving
  BY DEF PcName, Serving
<1>6. /\ TypeOK' /\ task'[m].pc = "fallback" /\ task'[m].at = task[m].at
      /\ \A n \in Messages \ {m} : task'[n] = task[n]
  BY <1>3, <1>4, <1>5, GotoType DEF NotificationInv, TypeOK
<1>7. Bounds(c)' /\ PhaseOf(task[m].pc, c)'
  BY <1>3, <1>4, <1>6 DEF PhaseOf, Unrecorded, Bounds
<1> QED BY <1>1, <1>2, <1>4, <1>6, <1>7, OwnerStep

LEMMA LogSuccessPreserves ==
  ASSUME NotificationInv, NEW m \in Messages, LogSuccess(m) PROVE NotificationInv'
<1>1. task[m].pc = "success" /\ task[m].pc \in Serving
  BY DEF LogSuccess, Serving
<1>2. PICK c \in Channels : c = Channel(m)
  BY <1>1, ServingFacts
<1>3. task[m].at \in DOMAIN ChannelList /\ PhaseOf("success", c)
  BY <1>1, <1>2, ServingFacts
<1>4. /\ Log(m, "SUCCESS") /\ NextChannel(m)
      /\ UNCHANGED <<keys, sent, degraded, dlq, crashes>>
  BY DEF LogSuccess
<1>5. /\ log' \in [Channels -> [LogStatus -> Nat]]
      /\ log'[c]["SUCCESS"] = log[c]["SUCCESS"] + 1
      /\ log'[c]["FAILED"] = log[c]["FAILED"] /\ log'[c]["RETRY"] = log[c]["RETRY"]
      /\ \A d \in Channels \ {c} : log'[d] = log[d]
  BY <1>2, <1>4, LogEffect DEF LogStatus
<1>6. /\ TypeOK' /\ task'[m].pc \notin Serving
      /\ \A n \in Messages \ {m} : task'[n] = task[n]
  BY <1>3, <1>4, <1>5, NextChannelType DEF NotificationInv, TypeOK, Serving
<1>7. Bounds(c)'
  BY <1>3, <1>4, <1>5 DEF PhaseOf, Unrecorded, Bounds
<1> QED BY <1>1, <1>2, <1>4, <1>5, <1>6, <1>7, OwnerStep

LEMMA LogSuccessFailsPreserves ==
  ASSUME NotificationInv, NEW m \in Messages, LogSuccessFails(m) PROVE NotificationInv'
<1>1. task[m].pc = "success" /\ task[m].pc \in Serving
  BY DEF LogSuccessFails, Serving
<1>2. PICK c \in Channels : c = Channel(m)
  BY <1>1, ServingFacts
<1>3. task[m].at \in DOMAIN ChannelList /\ PhaseOf("success", c) /\ Bounds(c)
  BY <1>1, <1>2, ServingFacts
<1>4. PICK pc \in {"failed", "fallback"} : Goto(m, pc)
  BY DEF LogSuccessFails
<1>5. UNCHANGED <<keys, sent, degraded, log, dlq, crashes>>
  BY DEF LogSuccessFails
<1>6. pc \in PcName /\ pc \in Serving
  BY <1>4 DEF PcName, Serving
<1>7. /\ TypeOK' /\ task'[m].pc = pc /\ task'[m].at = task[m].at
      /\ \A n \in Messages \ {m} : task'[n] = task[n]
  BY <1>3, <1>4, <1>5, <1>6, GotoType DEF NotificationInv, TypeOK
<1>8. Bounds(c)' /\ PhaseOf(task[m].pc, c)'
  BY <1>3, <1>4, <1>5, <1>7 DEF PhaseOf, Unrecorded, Bounds
<1> QED BY <1>1, <1>2, <1>5, <1>7, <1>8, OwnerStep

LEMMA FallbackPreserves ==
  ASSUME NotificationInv, NEW m \in Messages, Fallback(m) PROVE NotificationInv'
<1>1. task[m].pc = "fallback" /\ task[m].pc \in Serving
  BY DEF Fallback, Serving
<1>2. PICK c \in Channels : c = Channel(m)
  BY <1>1, ServingFacts
<1>3. task[m].at \in DOMAIN ChannelList /\ PhaseOf("fallback", c) /\ Bounds(c)
  BY <1>1, <1>2, ServingFacts
<1>4. /\ (degraded' = [degraded EXCEPT ![c] = degraded[c] + 1] \/ degraded' = degraded)
      /\ Goto(m, "failed") /\ UNCHANGED <<keys, sent, log, dlq, crashes>>
  BY <1>2 DEF Fallback
<1>5. /\ degraded' \in [Channels -> Nat] /\ degraded'[c] <= 1
      /\ \A d \in Channels \ {c} : degraded'[d] = degraded[d]
  <2>1. degraded \in [Channels -> Nat] /\ degraded[c] = 0
    BY <1>3 DEF NotificationInv, TypeOK, PhaseOf
  <2>2. CASE degraded' = [degraded EXCEPT ![c] = degraded[c] + 1]
    BY <2>1, <2>2
  <2>3. CASE degraded' = degraded
    BY <2>1, <2>3
  <2> QED BY <1>4, <2>2, <2>3
<1>6. "failed" \in PcName /\ "failed" \in Serving
  BY DEF PcName, Serving
<1>7. /\ TypeOK' /\ task'[m].pc = "failed" /\ task'[m].at = task[m].at
      /\ \A n \in Messages \ {m} : task'[n] = task[n]
  BY <1>3, <1>4, <1>5, <1>6, GotoType DEF NotificationInv, TypeOK
<1>8. Bounds(c)' /\ PhaseOf(task[m].pc, c)'
  BY <1>3, <1>4, <1>5, <1>7 DEF PhaseOf, Unrecorded, Bounds
<1> QED BY <1>1, <1>2, <1>4, <1>5, <1>7, <1>8, OwnerStep

LEMMA LogFailedPreserves ==
  ASSUME NotificationInv, NEW m \in Messages, LogFailed(m) PROVE NotificationInv'
<1>1. task[m].pc = "failed" /\ task[m].pc \in Serving
  BY DEF LogFailed, Serving
<1>2. PICK c \in Channels : c = Channel(m)
  BY <1>1, ServingFacts
<1>3. task[m].at \in DOMAIN ChannelList /\ PhaseOf("failed", c) /\ Bounds(c)
  BY <1>1, <1>2, ServingFacts
<1>4. UNCHANGED <<keys, sent, degraded, dlq, crashes>>
  BY DEF LogFailed
<1>5. CASE Log(m, "FAILED") /\ Goto(m, "verdict")
  <2>1. /\ log' \in [Channels -> [LogStatus -> Nat]]
        /\ log'[c]["FAILED"] = log[c]["FAILED"] + 1
        /\ log'[c]["SUCCESS"] = log[c]["SUCCESS"] /\ log'[c]["RETRY"] = log[c]["RETRY"]
        /\ \A d \in Channels \ {c} : log'[d] = log[d]
    BY <1>2, <1>5, LogEffect DEF LogStatus
  <2>2. "verdict" \in PcName /\ "verdict" \in Serving
    BY DEF PcName, Serving
  <2>3. /\ TypeOK' /\ task'[m].pc = "verdict" /\ task'[m].at = task[m].at
        /\ \A n \in Messages \ {m} : task'[n] = task[n]
    BY <1>3, <1>4, <1>5, <2>1, <2>2, GotoType DEF NotificationInv, TypeOK
  <2>4. Bounds(c)' /\ PhaseOf(task[m].pc, c)'
    BY <1>3, <1>4, <2>1, <2>3 DEF PhaseOf, Unrecorded, Bounds
  <2> QED BY <1>1, <1>2, <1>4, <2>1, <2>3, <2>4, OwnerStep
<1>6. CASE Raise(m) /\ UNCHANGED log
  <2>1. /\ TypeOK' /\ task'[m].pc \notin Serving
        /\ \A n \in Messages \ {m} : task'[n] = task[n]
    BY <1>4, <1>6, RaiseType DEF NotificationInv, TypeOK
  <2> QED BY <1>4, <1>6, <2>1, OutsideStep
<1> QED BY <1>5, <1>6 DEF LogFailed

LEMMA DeadLetterPreserves ==
  ASSUME NotificationInv, NEW m \in Messages, DeadLetter(m) PROVE NotificationInv'
<1>1. task[m].pc = "verdict" /\ task[m].pc \in Serving
  BY DEF DeadLetter, Serving
<1>2. PICK c \in Channels : c = Channel(m)
  BY <1>1, ServingFacts
<1>3. task[m].at \in DOMAIN ChannelList /\ PhaseOf("verdict", c) /\ Bounds(c)
  BY <1>1, <1>2, ServingFacts
<1>4. /\ dlq' \in {dlq, dlq \cup {c}} /\ (NextChannel(m) \/ Raise(m))
      /\ UNCHANGED <<keys, sent, degraded, log, crashes>>
  BY <1>2 DEF DeadLetter
<1>5. dlq' \subseteq Channels /\ \A d \in Channels \ {c} : d \in dlq' <=> d \in dlq
  BY <1>4 DEF NotificationInv, TypeOK
<1>6. /\ TypeOK' /\ task'[m].pc \notin Serving
      /\ \A n \in Messages \ {m} : task'[n] = task[n]
  BY <1>3, <1>4, <1>5, NextChannelType, RaiseType DEF NotificationInv, TypeOK, Serving
<1>7. Bounds(c)'
  BY <1>3, <1>4 DEF PhaseOf, Bounds
<1> QED BY <1>1, <1>2, <1>4, <1>5, <1>6, <1>7, OwnerStep

LEMMA RetryPreserves ==
  ASSUME NotificationInv, NEW m \in Messages, Retry(m) PROVE NotificationInv'
<1>1. task[m].pc = "verdict" /\ task[m].pc \in Serving
  BY DEF Retry, Serving
<1>2. PICK c \in Channels : c = Channel(m)
  BY <1>1, ServingFacts
<1>3. PhaseOf("verdict", c) /\ Bounds(c)
  BY <1>1, <1>2, ServingFacts
<1>4. Raise(m) /\ UNCHANGED <<keys, sent, degraded, dlq, crashes>>
  BY DEF Retry
<1>5. CASE Log(m, "RETRY")
  <2>1. /\ log' \in [Channels -> [LogStatus -> Nat]]
        /\ log'[c]["FAILED"] = log[c]["FAILED"] /\ log'[c]["SUCCESS"] = log[c]["SUCCESS"]
        /\ \A d \in Channels \ {c} : log'[d] = log[d]
    BY <1>2, <1>5, LogEffect DEF LogStatus
  <2>2. /\ TypeOK' /\ task'[m].pc \notin Serving
        /\ \A n \in Messages \ {m} : task'[n] = task[n]
    BY <1>4, <2>1, RaiseType DEF NotificationInv, TypeOK
  <2>3. Bounds(c)'
    BY <1>3, <1>4, <2>1 DEF PhaseOf, Bounds
  <2> QED BY <1>1, <1>2, <1>4, <2>1, <2>2, <2>3, OwnerStep
<1>6. CASE UNCHANGED log
  <2>1. /\ TypeOK' /\ task'[m].pc \notin Serving
        /\ \A n \in Messages \ {m} : task'[n] = task[n]
    BY <1>4, <1>6, RaiseType DEF NotificationInv, TypeOK
  <2> QED BY <1>4, <1>6, <2>1, OutsideStep
<1> QED BY <1>5, <1>6 DEF Retry

-----------------------------------------------------------------------------
(* The theorems *)

LEMMA NotificationInit == Init => NotificationInv
<1> SUFFICES ASSUME Init PROVE NotificationInv
  OBVIOUS
<1>1. /\ 1 \in 1..Len(ChannelList) + 1 /\ 0 \in 0..MaxRetries /\ 0 \in 0..MaxCrashes
      /\ "unsent" \in PcName /\ "unsent" \notin Serving
  BY NotificationAssumption DEF PcName, Serving
<1>2. \A m \in Messages : task[m] = [pc |-> "unsent", at |-> 1, retries |-> 0]
  BY DEF Init
<1>3. task \in [Messages -> [pc : PcName, at : 1..Len(ChannelList) + 1,
                             retries : 0..MaxRetries]]
  BY <1>1 DEF Init
<1>4. TypeOK
  BY <1>1, <1>2, <1>3 DEF Init, TypeOK
<1>5. \A c \in Channels :
        sent[c] = 0 /\ degraded[c] = 0 /\ Unrecorded(c)
  BY DEF Init, Unrecorded, LogStatus
<1>6. Owned /\ Phase
  BY <1>1, <1>2 DEF Owned, Phase, PhaseOf
<1> QED BY <1>4, <1>5, <1>6 DEF NotificationInv, Untouched, Bounds, Unrecorded

\* Keys are held by one execution at a time, and the phase of that execution
\* tells what has happened to the channel.
THEOREM NotificationInvariant == Spec => []NotificationInv
<1>1. NotificationInv /\ [Next]_vars => NotificationInv'
  <2> SUFFICES ASSUME NotificationInv, [Next]_vars PROVE NotificationInv'
    OBVIOUS
  <2>1. ASSUME NEW m \in Messages, DispatchEvent(m) \/ Step(m) \/ WorkerLost(m) \/ ProcessLost(m)
        PROVE  NotificationInv'
    BY <2>1, DispatchPreserves, StartPreserves, FinishPreserves, ClaimPreserves,
       ClaimRaisesPreserves, DeliverPreserves, PublishRaisesPreserves,
       ProviderFailsPreserves, LogSuccessPreserves, LogSuccessFailsPreserves,
       FallbackPreserves, LogFailedPreserves, DeadLetterPreserves, RetryPreserves,
       WorkerLostPreserves, ProcessLostPreserves
    DEF Step
  <2>2. CASE UNCHANGED vars
    <3>1. TypeOK'
      BY <2>2 DEF vars, NotificationInv, TypeOK
    <3>2. Untouched'
      BY <2>2 DEF vars, NotificationInv, Untouched, Unrecorded
    <3>3. Owned'
      BY <2>2 DEF vars, NotificationInv, Owned, Channel
    <3>4. Phase'
      BY <2>2 DEF vars, NotificationInv, Phase, PhaseOf, Unrecorded, Channel
    <3>5. \A c \in Channels : Bounds(c)'
      BY <2>2 DEF vars, NotificationInv, Bounds
    <3> QED BY <3>1, <3>2, <3>3, <3>4, <3>5 DEF NotificationInv
  <2> QED BY <2>1, <2>2 DEF Next
<1> QED BY NotificationInit, <1>1, PTL DEF Spec

\* Counters, columns and the number of attempts keep to their types.
THEOREM NotificationTypes == Spec => []TypeOK
<1>1. NotificationInv => TypeOK
  BY DEF NotificationInv
<1> QED BY NotificationInvariant, <1>1, PTL

\* A channel notifies at most once, whatever is dispatched, delivered or
\* executed again.
THEOREM AtMostOnceHolds == Spec => []AtMostOnce
<1>1. NotificationInv => AtMostOnce
  BY DEF NotificationInv, Bounds, AtMostOnce
<1> QED BY NotificationInvariant, <1>1, PTL

\* The audit log gives every channel at most one verdict, and a true one.
THEOREM OneVerdictHolds == Spec => []OneVerdict
<1>1. NotificationInv => OneVerdict
  BY DEF NotificationInv, Bounds, OneVerdict
<1> QED BY NotificationInvariant, <1>1, PTL

\* A dead letter has failed and is not retried.
THEOREM DeadLettersFailedHolds == Spec => []DeadLettersFailed
<1>1. NotificationInv => DeadLettersFailed
  BY DEF NotificationInv, TypeOK, Bounds, DeadLettersFailed
<1> QED BY NotificationInvariant, <1>1, PTL

-----------------------------------------------------------------------------
(* What a lost worker loses *)

\* Channels with a key, not reached, that no execution is going to reach.
Orphans ==
  {c \in keys : /\ ~Reached(c)
                /\ \A m \in Messages : task[m].pc \in {"deliver", "fallback"} => Channel(m) # c}

\* An execution is past the channels before its own: their keys are set.  Once a
\* call of its channel has returned, the channel is reached.
Progress(m) ==
  /\ task[m].pc # "dead"
  /\ task[m].pc \in {"unsent", "queued"} => task[m].at = 1
  /\ task[m].pc \in {"success", "failed", "verdict"} => Reached(Channel(m))
  /\ task[m].pc \in Serving \cup {"claim"} => \A i \in 1 .. task[m].at - 1 : ChannelList[i] \in keys
  /\ task[m].pc = "done" => Enabled \subseteq keys

LossInv ==
  /\ NotificationInv
  /\ Cardinality(Orphans) <= crashes
  /\ \A m \in Messages : Progress(m)

LEMMA OrphansFinite ==
  ASSUME NotificationInv
  PROVE  IsFiniteSet(Orphans) /\ Cardinality(Orphans) \in Nat
<1>1. IsFiniteSet({"WEBSOCKET"}) /\ IsFiniteSet({"WEBSOCKET"} \cup {"EMAIL"})
      /\ IsFiniteSet(({"WEBSOCKET"} \cup {"EMAIL"}) \cup {"PUSH"})
  <2>1. IsFiniteSet({"WEBSOCKET"})
    BY FS_Singleton
  <2>2. IsFiniteSet({"WEBSOCKET"} \cup {"EMAIL"})
    BY <2>1, FS_AddElement
  <2> QED BY <2>1, <2>2, FS_AddElement
<1>2. Channels = ({"WEBSOCKET"} \cup {"EMAIL"}) \cup {"PUSH"}
  BY DEF Channels
<1>3. IsFiniteSet(Channels)
  BY <1>1, <1>2
<1>4. Orphans \in SUBSET Channels
  BY DEF Orphans, NotificationInv, TypeOK
<1>5. IsFiniteSet(Orphans)
  BY <1>3, <1>4, FS_Subset
<1> QED BY <1>5, FS_CardinalityType

\* A step of the execution of m, other than the loss of its worker: what it takes
\* up it holds, and it does not let go of a channel before it is reached.
LEMMA LossStep ==
  ASSUME LossInv, NotificationInv', NEW m \in Messages, NEW own, own = Channel(m),
         \A n \in Messages \ {m} : task'[n] = task[n],
         keys \subseteq keys', crashes' = crashes,
         \A c \in Channels : Reached(c) => Reached(c)',
         \A c \in keys' \ keys : task'[m].pc = "deliver" /\ Channel(m)' = c,
         task[m].pc \in {"deliver", "fallback"} =>
           \/ Reached(own)'
           \/ task'[m].pc \in {"deliver", "fallback"} /\ Channel(m)' = own,
         Progress(m)'
  PROVE  LossInv'
<1>1. keys \subseteq Channels /\ keys' \subseteq Channels
  BY DEF LossInv, NotificationInv, TypeOK
<1>2. \A n \in Messages \ {m} : Channel(n)' = Channel(n)
  BY DEF Channel
<1>3. ASSUME NEW c \in Orphans' PROVE c \in Orphans
  <2>1. /\ c \in keys' /\ ~ Reached(c)'
        /\ \A n \in Messages : task'[n].pc \in {"deliver", "fallback"} => Channel(n)' # c
    BY DEF Orphans
  <2>2. c \in keys
    BY <2>1
  <2>3. ~ Reached(c)
    BY <1>1, <2>1
  <2>4. ASSUME NEW n \in Messages, task[n].pc \in {"deliver", "fallback"} PROVE Channel(n) # c
    <3>1. CASE n = m
      BY <2>1, <2>4, <3>1
    <3>2. CASE n # m
      BY <1>2, <2>1, <2>4, <3>2
    <3> QED BY <3>1, <3>2
  <2> QED BY <2>2, <2>3, <2>4 DEF Orphans
<1>4. Cardinality(Orphans)' <= crashes'
  <2> DEFINE S == Orphans
             T == Orphans'
  <2>1. IsFiniteSet(S) /\ Cardinality(S) \in Nat
    BY OrphansFinite DEF LossInv
  <2>2. T \in SUBSET S
    BY <1>3
  <2>3. crashes \in Nat /\ Cardinality(S) <= crashes
    BY NotificationAssumption DEF LossInv, NotificationInv, TypeOK
  <2> HIDE DEF S
  <2>4. IsFiniteSet(T) /\ Cardinality(T) <= Cardinality(S)
    <3> HIDE DEF T
    <3> QED BY <2>1, <2>2, FS_Subset
  <2>5. Cardinality(T) \in Nat
    <3> HIDE DEF T
    <3> QED BY <2>4, FS_CardinalityType
  <2>6. Cardinality(T) <= crashes
    <3> HIDE DEF T
    <3> QED BY <2>1, <2>3, <2>4, <2>5
  <2> QED BY <2>6
<1>5. ASSUME NEW n \in Messages \ {m} PROVE Progress(n)'
  <2>1. Progress(n) /\ task'[n] = task[n] /\ Channel(n)' = Channel(n)
    BY <1>2 DEF LossInv
  <2>2. task[n].pc \in Serving => Channel(n) \in Channels
    BY ServingFacts DEF LossInv
  <2> QED BY <2>1, <2>2 DEF Progress, Serving
<1> QED BY <1>4, <1>5 DEF LossInv

\* Of the parts that may fail, a provider is the only one here.
LEMMA LossWorkerLost ==
  ASSUME LossInv, NotificationInv', NEW m \in Messages, WorkerLost(m) PROVE LossInv'
<1> DEFINE c == Channel(m)
           S == Orphans
           T == Orphans'
<1>1. /\ UNCHANGED <<keys, sent, degraded>> /\ crashes' = crashes + 1
      /\ task' = [task EXCEPT ![m].pc = "queued", ![m].at = 1]
  BY DEF WorkerLost
<1>2. /\ task'[m].pc = "queued" /\ \A n \in Messages \ {m} : task'[n] = task[n]
      /\ \A n \in Messages \ {m} : Channel(n)' = Channel(n)
  BY <1>1 DEF LossInv, NotificationInv, TypeOK, Channel
<1>3. \A x : Reached(x)' = Reached(x)
  BY <1>1 DEF Reached
<1>4. T \in SUBSET (S \cup {c})
  <2> SUFFICES ASSUME NEW x \in Orphans', x # c PROVE x \in Orphans
    OBVIOUS
  <2>1. x \in keys /\ ~ Reached(x)
    BY <1>1, <1>3 DEF Orphans
  <2>2. \A n \in Messages : task'[n].pc \in {"deliver", "fallback"} => Channel(n)' # x
    BY DEF Orphans
  <2>3. ASSUME NEW n \in Messages, task[n].pc \in {"deliver", "fallback"} PROVE Channel(n) # x
    <3>1. CASE n = m
      BY <3>1
    <3>2. CASE n # m
      BY <1>2, <2>2, <2>3, <3>2
    <3> QED BY <3>1, <3>2
  <2> QED BY <2>1, <2>3 DEF Orphans
<1>5. Cardinality(T) <= crashes'
  <2>1. IsFiniteSet(S) /\ Cardinality(S) \in Nat /\ Cardinality(S) <= crashes
    BY OrphansFinite DEF LossInv
  <2>2. crashes \in Nat
    BY NotificationAssumption DEF LossInv, NotificationInv, TypeOK
  <2> HIDE DEF S, T, c
  <2>3. IsFiniteSet(S \cup {c}) /\ Cardinality(S \cup {c}) \in Nat
        /\ Cardinality(S \cup {c}) <= Cardinality(S) + 1
    <3>1. /\ IsFiniteSet(S \cup {c})
          /\ Cardinality(S \cup {c}) = IF c \in S THEN Cardinality(S) ELSE Cardinality(S) + 1
      BY <2>1, FS_AddElement
    <3> QED BY <2>1, <3>1
  <2>4. IsFiniteSet(T) /\ Cardinality(T) <= Cardinality(S \cup {c})
    BY <1>4, <2>3, FS_Subset
  <2>5. Cardinality(T) \in Nat
    BY <2>4, FS_CardinalityType
  <2> QED BY <1>1, <2>1, <2>2, <2>3, <2>4, <2>5
<1>6. ASSUME NEW n \in Messages PROVE Progress(n)'
  <2>1. CASE n = m
    <3>1. task'[m].at = 1
      BY <1>1 DEF LossInv, NotificationInv, TypeOK
    <3> QED BY <1>2, <2>1, <3>1 DEF Progress, Serving
  <2>2. CASE n # m
    <3>1. Progress(n) /\ task'[n] = task[n] /\ Channel(n)' = Channel(n) /\ keys' = keys
      BY <1>1, <1>2, <2>2 DEF LossInv
    <3> QED BY <1>3, <3>1 DEF Progress
  <2> QED BY <2>1, <2>2
<1> QED BY <1>5, <1>6 DEF LossInv

\* The next call of an execution while only providers fail.
LEMMA LossCalls ==
  ASSUME Faults \subseteq {"provider"}, LossInv, NotificationInv', NEW m \in Messages,
         DispatchEvent(m) \/ Step(m)
  PROVE  LossInv'
<1> DEFINE Others == \A n \in Messages \ {m} : task'[n] = task[n]
<1>0. /\ "redis" \notin Faults /\ "database" \notin Faults /\ TypeOK /\ Progress(m)
      /\ Len(ChannelList) \in Nat /\ DOMAIN ChannelList = 1 .. Len(ChannelList)
  BY NotificationAssumption DEF LossInv, NotificationInv
<1>1. PICK own : own = Channel(m)
  OBVIOUS
<1>2. /\ task[m].at \in 1 .. Len(ChannelList) + 1 /\ task[m].retries \in 0 .. MaxRetries
      /\ task[m].pc \in Serving => task[m].at \in DOMAIN ChannelList /\ own \in Channels
  BY <1>0, <1>1, ChannelType DEF TypeOK
<1>3. ASSUME NEW pc, Goto(m, pc)
      PROVE  /\ task'[m].pc = pc /\ task'[m].at = task[m].at /\ Channel(m)' = own /\ Others
  BY <1>0, <1>1, <1>3 DEF TypeOK, Goto, Channel
<1>4. ASSUME NextChannel(m)
      PROVE  task'[m].pc = "claim" /\ task'[m].at = task[m].at + 1 /\ Others
  BY <1>0, <1>4 DEF TypeOK, NextChannel
<1>5. CASE DispatchEvent(m)
  <2>1. task'[m].pc = "queued" /\ task'[m].at = task[m].at /\ Others /\ task[m].pc = "unsent"
        /\ UNCHANGED <<keys, crashes, sent, degraded>>
    BY <1>3, <1>5 DEF DispatchEvent
  <2>2. Progress(m)'
    BY <1>0, <2>1 DEF Progress, Serving
  <2> QED BY <1>1, <2>1, <2>2, LossStep DEF Reached
<1>6. CASE Start(m)
  <2>1. task'[m].pc = "claim" /\ task'[m].at = task[m].at /\ Others /\ task[m].pc = "queued"
        /\ UNCHANGED <<keys, crashes, sent, degraded>>
    BY <1>0, <1>3, <1>6 DEF Start
  <2>2. Progress(m)'
    BY <1>0, <2>1 DEF Progress, Serving
  <2> QED BY <1>1, <2>1, <2>2, LossStep DEF Reached
<1>7. CASE Finish(m)
  <2>1. task'[m].pc = "done" /\ Others /\ task[m].pc = "claim" /\ task[m].at > Len(ChannelList)
        /\ UNCHANGED <<keys, crashes, sent, degraded>>
    BY <1>3, <1>7 DEF Finish
  <2>2. \A i \in 1 .. Len(ChannelList) : ChannelList[i] \in keys
    BY <1>0, <1>2, <2>1 DEF Progress
  <2>3. Enabled \subseteq keys
    BY <1>0, <2>2 DEF Enabled
  <2>4. Progress(m)'
    BY <2>1, <2>3 DEF Progress, Serving, Enabled
  <2> QED BY <1>1, <2>1, <2>4, LossStep DEF Reached
\* The channels up to the present one have their keys.
<1>8. ASSUME task[m].pc \in Serving \cup {"claim"}, NextChannel(m), own \in keys',
             keys \subseteq keys'
      PROVE  Progress(m)'
  <2>1. \A i \in 1 .. task[m].at - 1 : ChannelList[i] \in keys'
    BY <1>0, <1>8 DEF Progress
  <2>2. ChannelList[task[m].at] \in keys'
    BY <1>1, <1>8 DEF Channel
  <2>3. \A i \in 1 .. task'[m].at - 1 : ChannelList[i] \in keys'
    BY <1>2, <1>4, <1>8, <2>1, <2>2
  <2> QED BY <1>4, <1>8, <2>3 DEF Progress
<1>9. CASE Claim(m)
  <2>1. task[m].pc = "claim" /\ UNCHANGED <<crashes, sent, degraded>>
    BY <1>9 DEF Claim
  <2>2. CASE own \in keys
    <3>1. NextChannel(m) /\ keys' = keys
      BY <1>1, <1>9, <2>2 DEF Claim
    <3>2. Progress(m)'
      BY <1>8, <2>1, <2>2, <3>1
    <3> QED BY <1>1, <1>4, <2>1, <3>1, <3>2, LossStep DEF Reached
  <2>3. CASE own \notin keys
    <3>1. Goto(m, "deliver") /\ keys' = keys \cup {own}
      BY <1>1, <1>9, <2>3 DEF Claim
    <3>2. task'[m].pc = "deliver" /\ task'[m].at = task[m].at /\ Channel(m)' = own /\ Others
      BY <1>3, <3>1
    <3>3. \A i \in 1 .. task[m].at - 1 : ChannelList[i] \in keys'
      BY <1>0, <2>1, <3>1 DEF Progress
    <3>4. Progress(m)'
      BY <3>2, <3>3 DEF Progress
    <3> QED BY <1>1, <2>1, <3>1, <3>2, <3>4, LossStep DEF Reached
  <2> QED BY <2>2, <2>3
<1>10. ASSUME task[m].pc \in Serving PROVE own \in keys /\ own \in Channels
  BY <1>1, <1>2, <1>10 DEF LossInv, NotificationInv, Owned
\* A call that keeps the channel and moves on to pc.
<1>11. ASSUME NEW pc \in {"success", "fallback", "failed", "verdict"}, Goto(m, pc),
              task[m].pc \in Serving, UNCHANGED keys,
              pc # "fallback" => Reached(own)'
       PROVE  Progress(m)'
  <2>1. task'[m].pc = pc /\ task'[m].at = task[m].at /\ Channel(m)' = own
    BY <1>3, <1>11
  <2>2. \A i \in 1 .. task[m].at - 1 : ChannelList[i] \in keys'
    BY <1>0, <1>11 DEF Progress
  <2>3. pc # "fallback" => Reached(Channel(m))'
    BY <1>11, <2>1 DEF Reached
  <2> QED BY <2>1, <2>2, <2>3 DEF Progress
<1>12. CASE Deliver(m)
  <2>1. /\ task[m].pc = "deliver" /\ task[m].pc \in Serving /\ Goto(m, "success")
        /\ UNCHANGED <<keys, crashes, degraded>>
        /\ sent' = [sent EXCEPT ![own] = sent[own] + 1]
    BY <1>1, <1>12 DEF Deliver, Serving
  <2>2. \A c \in Channels : sent'[c] >= sent[c] /\ sent[c] \in Nat /\ sent'[c] \in Nat
    BY <1>0, <1>10, <2>1 DEF TypeOK
  <2>3. sent'[own] > 0
    BY <1>0, <1>10, <2>1 DEF TypeOK
  <2>4. Reached(own)' /\ \A c \in Channels : Reached(c) => Reached(c)'
    BY <2>1, <2>2, <2>3 DEF Reached
  <2>5. Progress(m)'
    BY <1>11, <2>1, <2>4
  <2>6. Others
    BY <1>3, <2>1
  <2> QED BY <1>1, <2>1, <2>4, <2>5, <2>6, LossStep
<1>13. CASE ProviderFails(m)
  <2>1. /\ task[m].pc = "deliver" /\ task[m].pc \in Serving /\ Goto(m, "fallback")
        /\ UNCHANGED <<keys, crashes, sent, degraded>>
    BY <1>13 DEF ProviderFails, Serving
  <2>2. Progress(m)' /\ Others /\ task'[m].pc = "fallback" /\ Channel(m)' = own
    BY <1>3, <1>11, <2>1
  <2> QED BY <1>1, <2>1, <2>2, LossStep DEF Reached
<1>14. CASE Fallback(m)
  <2>1. /\ task[m].pc = "fallback" /\ task[m].pc \in Serving /\ Goto(m, "failed")
        /\ UNCHANGED <<keys, crashes, sent>>
        /\ degraded' = [degraded EXCEPT ![own] = degraded[own] + 1]
    BY <1>0, <1>1, <1>14 DEF Fallback, Serving
  <2>2. \A c \in Channels : degraded'[c] >= degraded[c] /\ degraded[c] \in Nat /\ degraded'[c] \in Nat
    BY <1>0, <1>10, <2>1 DEF TypeOK
  <2>3. degraded'[own] > 0
    BY <1>0, <1>10, <2>1 DEF TypeOK
  <2>4. Reached(own)' /\ \A c \in Channels : Reached(c) => Reached(c)'
    BY <2>1, <2>2, <2>3 DEF Reached
  <2>5. Progress(m)'
    BY <1>11, <2>1, <2>4
  <2>6. Others
    BY <1>3, <2>1
  <2> QED BY <1>1, <2>1, <2>4, <2>5, <2>6, LossStep
<1>15. CASE LogFailed(m)
  <2>1. /\ task[m].pc = "failed" /\ task[m].pc \in Serving /\ Goto(m, "verdict")
        /\ UNCHANGED <<keys, crashes, sent, degraded>>
    BY <1>0, <1>15 DEF LogFailed, Serving
  <2>2. Reached(own)
    BY <1>0, <1>1, <2>1 DEF Progress
  <2>3. Progress(m)' /\ Others
    BY <1>3, <1>11, <2>1, <2>2 DEF Reached
  <2> QED BY <1>1, <2>1, <2>3, LossStep DEF Reached
<1>16. CASE LogSuccess(m) \/ (DeadLetter(m) /\ NextChannel(m))
  <2>1. /\ task[m].pc \in {"success", "verdict"} /\ task[m].pc \in Serving /\ NextChannel(m)
        /\ UNCHANGED <<keys, crashes, sent, degraded>>
    BY <1>16 DEF LogSuccess, DeadLetter, Serving
  <2>2. Progress(m)' /\ Others
    BY <1>4, <1>8, <1>10, <2>1
  <2> QED BY <1>1, <2>1, <2>2, LossStep DEF Reached
<1>17. CASE Retry(m)
  <2>1. /\ task[m].pc = "verdict" /\ task[m].retries < MaxRetries /\ Raise(m)
        /\ UNCHANGED <<keys, crashes, sent, degraded>>
    BY <1>17 DEF Retry
  <2>2. task' = [task EXCEPT ![m] = [pc |-> "queued", at |-> 1, retries |-> task[m].retries + 1]]
    BY <2>1 DEF Raise
  <2>3. task'[m].pc = "queued" /\ task'[m].at = 1 /\ Others
    BY <1>0, <2>2 DEF TypeOK
  <2>4. Progress(m)'
    BY <2>3 DEF Progress, Serving
  <2> QED BY <1>1, <2>1, <2>3, <2>4, LossStep DEF Reached
<1>18. ~ ClaimRaises(m) /\ ~ PublishRaises(m) /\ ~ LogSuccessFails(m)
       /\ (DeadLetter(m) => NextChannel(m))
  BY <1>0 DEF ClaimRaises, PublishRaises, LogSuccessFails, DeadLetter
<1> QED BY <1>5, <1>6, <1>7, <1>9, <1>12, <1>13, <1>14, <1>15, <1>16, <1>17, <1>18 DEF Step

\* While providers are the only part that fails, each worker that is lost costs at
\* most one notification, however many messages, channels and retries there are:
\* the keys of the channels behind the one it served are still free, and a channel
\* is left unreached only by the execution that was serving it.
THEOREM LossPerCrashHolds ==
  ASSUME Faults \subseteq {"provider"}, Messages # {}
  PROVE  Spec => []LossPerCrash
<1>1. Init => LossInv
  <2> SUFFICES ASSUME Init PROVE LossInv
    OBVIOUS
  <2>1. NotificationInv
    BY NotificationInit
  <2>2. Orphans = {}
    BY DEF Init, Orphans
  <2>3. Cardinality(Orphans) <= crashes
    BY <2>2, FS_EmptySet DEF Init
  <2>4. \A m \in Messages : Progress(m)
    BY DEF Init, Progress, Serving
  <2> QED BY <2>1, <2>3, <2>4 DEF LossInv
<1>2. LossInv /\ NotificationInv' /\ [Next]_vars => LossInv'
  <2> SUFFICES ASSUME LossInv, NotificationInv', [Next]_vars PROVE LossInv'
    OBVIOUS
  <2>1. ASSUME NEW m \in Messages, ProcessLost(m) PROVE FALSE
    BY <2>1 DEF ProcessLost
  <2>2. CASE UNCHANGED vars
    BY <2>2 DEF vars, LossInv, Orphans, Progress, Reached, Channel
  <2> QED BY <2>1, <2>2, LossCalls, LossWorkerLost DEF Next
<1>3. LossInv => LossPerCrash
  <2> SUFFICES ASSUME LossInv, \A m \in Messages : task[m].pc \in Over PROVE
               Cardinality({c \in Enabled : ~ Reached(c)}) <= crashes
    BY DEF LossPerCrash
  <2> DEFINE U == {c \in Enabled : ~ Reached(c)}
             S == Orphans
  <2>1. PICK m \in Messages : task[m].pc = "done"
    BY DEF LossInv, Progress, Over
  <2>2. Enabled \subseteq keys
    BY <2>1 DEF LossInv, Progress
  <2>3. U \in SUBSET S
    BY <2>2 DEF Orphans, Over
  <2>4. IsFiniteSet(S) /\ Cardinality(S) \in Nat /\ Cardinality(S) <= crashes /\ crashes \in Nat
    BY OrphansFinite, NotificationAssumption DEF LossInv, NotificationInv, TypeOK
  <2> HIDE DEF U, S
  <2>5. IsFiniteSet(U) /\ Cardinality(U) <= Cardinality(S)
    BY <2>3, <2>4, FS_Subset
  <2>6. Cardinality(U) \in Nat
    BY <2>5, FS_CardinalityType
  <2>7. Cardinality(U) <= crashes
    BY <2>4, <2>5, <2>6
  <2> QED BY <2>7 DEF U
<1>4. Spec => []LossInv
  BY NotificationInvariant, <1>1, <1>2, PTL DEF Spec
<1> QED BY <1>3, <1>4, PTL
=============================================================================
