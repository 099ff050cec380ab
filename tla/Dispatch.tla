------------------------------ MODULE Dispatch ------------------------------
(***************************************************************************)
(* The dispatch core of the backend: the handlers of DeliveryService,      *)
(* AssignmentService, DeliveriesApi and DriverService, interleaved at      *)
(* their awaits over the shared stores, with the commit that ends each of  *)
(* them and the announcement that follows it.                              *)
(***************************************************************************)
EXTENDS DeliveryService, AssignmentService, DeliveriesApi, DriverService

CONSTANTS
  Ops,       \* the kinds of request the environment issues
  Patches,   \* the statuses PATCH asks for
  Named,     \* the driver ids PATCH bodies carry (NoDriver: none)
  Silent,    \* the drivers that may stop to ping
  Faults     \* whether handlers and nodes may fail

ASSUME DispatchAssumption ==
  /\ Ops \subseteq OpName
  /\ Patches \subseteq OrderStatus
  /\ Named \subseteq Drivers \cup {NoDriver}
  /\ Silent \subseteq Drivers
  /\ Faults \in BOOLEAN

-----------------------------------------------------------------------------
(* The common end of the order handlers *)

\* commit(): all changes of the session, in one transaction.  The commit that
\* only answers an attempt is followed by trigger_assignment.
Commit(p) ==
  LET s == sess[p]
      answerOnly == s.op \in {"Reject", "Timeout"}
      offers == s.op = "Trigger" /\ s.pick # NoDriver
  IN  /\ s.pc = "commit"
      /\ orders' = [orders EXCEPT ![s.o] = WriteOrder(s.was, s.now, @)]
      /\ drivers' = WriteDrivers(s)
      /\ attempts' = WriteAttempts(s)
      /\ audit' = [audit EXCEPT ![s.o] = @ \o s.rows]
      /\ Continue(p, [s EXCEPT
           !.pc = IF answerOnly THEN "order" ELSE "refresh",
           !.att = IF offers THEN Len(attempts) + 1 ELSE 0,
           !.mark = "OFFERED", !.rows = <<>>, !.drv = NoDrivers, !.dnow = NoDrivers])
      /\ UNCHANGED <<redis, tasks>>

\* refresh(order): the row as it is now, which another session may have
\* written since.
Refresh(p) ==
  LET s == sess[p]
  IN  /\ s.pc = "refresh"
      /\ Continue(p, [s EXCEPT !.pc = "announce", !.now = orders[s.o]])
      /\ UNCHANGED <<tables, redis, tasks>>

\* Mutant: the order is published as it was loaded.
Payload_AsLoaded(s) == s.was

\* What the announcement of s publishes on the channel of its order.
Payload(s) ==
  IF s.op = "Trigger" /\ s.pick = NoDriver THEN [s.now EXCEPT !.driver = NoDriver]
                                          ELSE s.now

\* Mutant: PICKED_UP is dispatched with every change of status.
EventsOf_AlwaysPickedUp(s) == {s.now.status, "PICKED_UP"}

\* The events it dispatches: update_status reads the refreshed status, the
\* other handlers name theirs.
EventsOf(s) ==
  IF s.op = "Patch"
  THEN {s.now.status} \cup (IF s.st = "PICKED_UP" THEN {"PICKED_UP"} ELSE {})
  ELSE {s.st}

\* Mutant: the timer of an offer made for a pending order is forgotten.
Armed_FirstOnly(s) ==
  IF s.att # 0 /\ s.was.status # "DRIVER_PENDING" THEN timers \cup {s.att} ELSE timers

\* The timers after the announcement: an offer arms one.
Armed(s) == IF s.att # 0 THEN timers \cup {s.att} ELSE timers

\* publish, then create_task of the offer timer, then dispatch_event; the
\* latter two follow the publish without another await.
Announce(p) ==
  LET s == sess[p]
  IN  /\ s.pc = "announce"
      /\ channel' = [channel EXCEPT ![s.o] = Payload(s)]
      /\ events' = [events EXCEPT ![s.o] = @ \cup EventsOf(s)]
      /\ timers' = Armed(s)
      /\ Continue(p, Idle)
      /\ UNCHANGED <<tables, geo, locks>>

-----------------------------------------------------------------------------
(* Failures *)

\* A handler stops at an await: its node restarts, or PostgreSQL or Redis
\* raises.  The session is rolled back; what it did to Redis stays.
Abort(p) ==
  /\ Faults
  /\ sess[p].pc # "idle"
  /\ Continue(p, Idle)
  /\ UNCHANGED <<tables, redis, tasks>>

\* A node restarts: the timers it had armed are gone.
LoseTimer(i) ==
  /\ Faults
  /\ i \in timers
  /\ timers' = timers \ {i}
  /\ UNCHANGED <<tables, redis, events, sess, issued>>

\* PX 5000: the lock of a handler that is slow or gone expires.
LockExpires(d) ==
  /\ Faults
  /\ d \in locks
  /\ locks' = locks \ {d}
  /\ UNCHANGED <<tables, geo, channel, tasks, sess, issued>>

-----------------------------------------------------------------------------
(* Specification *)

Init == StoreInit

\* A request that the API accepts, at a free slot.
Request(p) ==
  \/ /\ "Patch" \in Ops
     /\ \E o \in Orders, st \in Patches, d \in Named : UpdateStatus(p, o, st, d)
  \/ "Assign" \in Ops /\ \E o \in Orders, d \in Drivers : AssignFetchOrder(p, o, d)
  \/ "Trigger" \in Ops /\ \E o \in Orders : TriggerAssignment(p, o)
  \/ \E op \in Ops \cap {"Accept", "Reject"}, o \in Orders : AnswerOffer(p, op, o)
  \/ "Ping" \in Ops /\ \E d \in Drivers : UpdateLocation(p, d)
  \/ /\ "Availability" \in Ops
     /\ \E d \in Drivers, flag \in BOOLEAN : UpdateAvailability(p, d, flag)

\* The next await of the handler in slot p.
Step(p) ==
  \/ ReleaseDriver(p) \/ IndexDriver(p)
  \/ AssignFetchDriver(p) \/ AssignRefused(p) \/ Unindex(p)
  \/ Retrigger(p) \/ FetchExcluded(p) \/ Discover(p) \/ Score(p)
  \/ \E d \in Drivers : AcquireLock(p, d) \/ LockFailed(p, d)
  \/ CheckAndUnlock(p)
  \/ FetchAttempt(p) \/ NoAttempt(p) \/ AcceptFetchDriver(p)
  \/ ReloadDriver(p) \/ Reindex(p) \/ StoreDriver(p)
  \/ \E d \in Drivers : PurgeGhost(p, d)
  \/ Commit(p) \/ Refresh(p) \/ Announce(p)

\* The tasks that no request starts.
Timeout(i) == TimeoutMoot(i) \/ \E p \in Procs : TimeoutFires(p, i)
Sweep == "Sweep" \in Ops /\ \E p \in Procs : SweepGhosts(p)
Clock == \E d \in Silent : GrowStale(d)

Failure ==
  \/ \E p \in Procs : Abort(p)
  \/ \E i \in timers : LoseTimer(i)
  \/ \E d \in Drivers : LockExpires(d)

Next ==
  \/ \E o \in Orders : CreateDelivery(o)
  \/ \E p \in Procs : Request(p) \/ Step(p)
  \/ \E i \in timers : Timeout(i)
  \/ Sweep \/ Clock \/ Failure

Spec == Init /\ [][Next]_vars

\* Every handler in progress takes its next await, and every armed timer fires:
\* the event loop resumes whatever is ready.  No request is promised.
Fairness ==
  /\ \A p \in Procs : WF_vars(Step(p))
  /\ WF_vars(\E i \in timers : Timeout(i))

FairSpec == Spec /\ Fairness

-----------------------------------------------------------------------------
(* Properties of every interleaving *)

\* The tables, the Redis keys and the sessions hold what their columns and
\* types allow, whatever the handlers write.
TypeOK ==
  /\ orders \in [Orders -> OrderRow]
  /\ drivers \in [Drivers -> DriverRow]
  /\ attempts \in Seq(AttemptRow)
  /\ audit \in [Orders -> Seq(Edge)]
  /\ geo \subseteq Drivers
  /\ locks \subseteq Drivers
  /\ channel \in [Orders -> OrderRow]
  /\ timers \subseteq DOMAIN attempts
  /\ events \in [Orders -> SUBSET OrderStatus]
  /\ sess \in [Procs -> Session]
  /\ issued \in 0 .. MaxRequests

\* The moves to NO_DRIVER_AVAILABLE that the state machine does not allow.
Bypasses == {<<"CREATED", "NO_DRIVER_AVAILABLE">>, <<"ASSIGNED", "NO_DRIVER_AVAILABLE">>}

\* The state machine is bypassed, for all that README.md:76 calls it
\* non-bypassable, and in one way only: a search that found nobody for a new or
\* an assigned order writes NO_DRIVER_AVAILABLE without asking it
\* (_transition_to_no_driver).  Every other row of every audit trail is a move
\* that it allows, whatever handlers were overtaken between check and commit.
OnlySearchBypasses ==
  \A o \in Orders : \A i \in DOMAIN audit[o] :
    ValidTransition(audit[o][i][1], audit[o][i][2]) \/ audit[o][i] \in Bypasses

\* The status an order has was recorded: even where two commits merge their
\* columns, the stored status is the target of some row of its audit trail.
StatusAudited ==
  \A o \in Orders :
    orders[o].status # "ABSENT" => \E i \in DOMAIN audit[o] : audit[o][i][2] = orders[o].status

\* PICKED_UP is passed through and never seen: no order is stored with it, and
\* the row that records it is followed at once by the one that leaves it.
PickedUpIsTransient ==
  \A o \in Orders :
    /\ orders[o].status # "PICKED_UP"
    /\ \A i \in DOMAIN audit[o] :
         audit[o][i][2] = "PICKED_UP" =>
           i + 1 \in DOMAIN audit[o] /\ audit[o][i + 1] = <<"PICKED_UP", "IN_TRANSIT">>

\* Celery is never told of a status that no committed transaction recorded for
\* the order, although the label of an event is read after the commit.
EventsAudited ==
  \A o \in Orders : \A e \in events[o] : \E i \in DOMAIN audit[o] : audit[o][i][2] = e

\* At most one handler is between SET NX and DEL of a driver's lock, and the
\* key exists all that time.
LockExclusive ==
  \A p \in Procs : sess[p].pc = "unlock" =>
    /\ sess[p].pick \in locks
    /\ \A q \in Procs \ {p} : sess[q].pc = "unlock" => sess[q].pick # sess[p].pick

\* Every driver that was offered an order, and every acceptance, has its move in
\* the audit trail: the two tables are written by the same commit.
TrailCoversAttempts ==
  \A o \in Orders :
    LET mine == {i \in DOMAIN attempts : attempts[i].order = o}
        to(s) == {i \in DOMAIN audit[o] : audit[o][i][2] = s}
    IN  /\ Cardinality(mine) <= Cardinality(to("DRIVER_PENDING"))
        /\ Cardinality({i \in mine : attempts[i].status = "ACCEPTED"})
             <= Cardinality(to("ASSIGNED"))

\* No handler hangs: each one that starts ends, also while the others hold locks
\* and change what it has read.
HandlersEnd == \A p \in Procs : sess[p].pc # "idle" ~> sess[p].pc = "idle"

\* An offer does not stay open: the driver answers, the order moves on, or the
\* timer takes the order away from the driver.
OfferSettles ==
  \A o \in Orders, d \in Drivers :
    LET open == orders[o].status = "DRIVER_PENDING" /\ orders[o].driver = d
    IN  open ~> ~open

-----------------------------------------------------------------------------
(* Handlers that have nothing in common *)

\* The drivers whose row, or whose entry in drivers:active, a handler writes.
Writes(s) ==
  {d \in Drivers : \/ s.drv[d] # s.dnow[d]
                   \/ s.op \in {"Ping", "Availability", "Assign", "Accept"} /\ d = s.ask
                   \/ s.op = "Patch" /\ d = s.now.driver}

\* No two handlers in progress work on the same order or write the same driver.
Apart ==
  \A p, q \in Procs :
    p # q /\ sess[p].pc # "idle" /\ sess[q].pc # "idle" =>
      /\ sess[p].o = sess[q].o => sess[p].o = NoOrder
      /\ Writes(sess[p]) \cap Writes(sess[q]) = {}

\* The behaviours in which handlers overlap only if they are apart.
ApartSpec == Init /\ [][Next /\ Apart']_vars

\* No handler works on o.
AtRest(o) == \A p \in Procs : sess[p].pc # "idle" => sess[p].o # o

Quiet == \A p \in Procs : sess[p].pc = "idle"

\* Each order goes through the life cycle that OrderLifecycle describes.
Lifecycle == INSTANCE OrderLifecycle WITH life <- orders
ImplementsLifecycle == Lifecycle!Spec

\* The audit trail of an order is its history: each row starts where the one
\* before it ended, and the last one ends in the stored status.
AuditChained ==
  \A o \in Orders :
    /\ \A i \in 1 .. Len(audit[o]) - 1 : audit[o][i + 1][1] = audit[o][i][2]
    /\ audit[o] # <<>> => audit[o][Len(audit[o])][2] = orders[o].status

\* When no handler runs, drivers:active lists exactly the drivers that are
\* ONLINE, available and at a known position.
GeoIndexAgrees == Quiet => geo = {d \in Drivers : Dispatchable(drivers[d])}

\* The last payload on the channel of an order that no handler works on is the
\* order as stored; only a new order has none.
ChannelAgrees ==
  \A o \in Orders :
    AtRest(o) => orders[o].status \in {"ABSENT", "CREATED"} \/ channel[o] = orders[o]

\* A driver that rejected an order, or let its offer of it expire, is not offered
\* that order again, through however many searches it goes.
NotOfferedAgain ==
  [][\A i \in DOMAIN attempts' \ DOMAIN attempts : \A j \in DOMAIN attempts :
       /\ attempts[j].order = attempts'[i].order
       /\ attempts[j].driver = attempts'[i].driver
       => attempts[j].status \notin {"REJECTED", "TIMEOUT"}]_vars

\* An order that waits for a driver has a timer that will take it from there, or
\* a handler working on it.  It has none only if PATCH made it DRIVER_PENDING at
\* some time, which offers it to nobody: it then has fewer attempts than moves to
\* DRIVER_PENDING.
PendingHasTimer ==
  \A o \in Orders :
    orders[o].status = "DRIVER_PENDING" /\ AtRest(o) =>
      \/ \E i \in timers : attempts[i].order = o /\ attempts[i].driver = orders[o].driver
      \/ Cardinality({i \in DOMAIN attempts : attempts[i].order = o})
           < Cardinality({i \in DOMAIN audit[o] : audit[o][i][2] = "DRIVER_PENDING"})

-----------------------------------------------------------------------------
(* Claims of the documents *)

\* PHASE-3.md: the same driver is never assigned to several deliveries.
NoDoubleAssignment == \A d \in Drivers : Cardinality(ActiveOrders(d)) <= 1

\* README.md: no race delivers an order that was cancelled, or the reverse.
TerminalIsFinal ==
  [][\A o \in Orders : orders[o].status \in {"DELIVERED", "CANCELLED"} =>
       orders'[o].status = orders[o].status]_vars
=============================================================================
