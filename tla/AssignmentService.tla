------------------------- MODULE AssignmentService -------------------------
(***************************************************************************)
(* services/assignment_service.py: manual assignment, the candidate search *)
(* with its per-driver lock, and the 30-second offer timer.                *)
(***************************************************************************)
EXTENDS Store

-----------------------------------------------------------------------------
(* assign_driver *)

\* First SELECT: the order.  Nothing is checked before the driver is loaded.
AssignFetchOrder(p, o, d) ==
  /\ orders[o].status # "ABSENT"
  /\ Begin(p, [Idle EXCEPT !.pc = "driver", !.op = "Assign", !.o = o, !.ask = d,
                           !.was = orders[o], !.now = orders[o]])
  /\ UNCHANGED <<tables, redis, tasks>>

\* Second SELECT: the driver, whose availability is not looked at.
AssignFetchDriver(p) ==
  LET s == sess[p]
      d == s.ask
  IN  /\ s.pc = "driver" /\ s.op = "Assign"
      /\ ValidTransition(s.was.status, "ASSIGNED")
      /\ Continue(p, [s EXCEPT
           !.pc = "unindex", !.st = "ASSIGNED",
           !.now = [status |-> "ASSIGNED", driver |-> d],
           !.drv = [@ EXCEPT ![d] = drivers[d]],
           !.dnow = [@ EXCEPT ![d] = [drivers[d] EXCEPT !.status = "BUSY"]],
           !.rows = << <<s.was.status, "ASSIGNED">> >>])
      /\ UNCHANGED <<tables, redis, tasks>>

\* InvalidTransitionError: the session ends without a write.
AssignRefused(p) ==
  /\ sess[p].pc = "driver" /\ sess[p].op = "Assign"
  /\ ~ ValidTransition(sess[p].was.status, "ASSIGNED")
  /\ Continue(p, Idle)
  /\ UNCHANGED <<tables, redis, tasks>>

\* Mutant: the driver stays in the index.
Unindex_Kept(p) ==
  /\ sess[p].pc = "unindex"
  /\ Continue(p, [sess[p] EXCEPT !.pc = "commit"])
  /\ UNCHANGED <<tables, redis, tasks>>

\* ZREM before the commit; accept_delivery does the same.
Unindex(p) ==
  LET s == sess[p]
  IN  /\ s.pc = "unindex"
      /\ geo' = geo \ {s.now.driver}
      /\ Continue(p, [s EXCEPT !.pc = "commit"])
      /\ UNCHANGED <<tables, locks, channel, tasks>>

-----------------------------------------------------------------------------
(* trigger_assignment *)

\* Mutant: the move is not recorded.
GiveUp_Unlogged(s) ==
  [s EXCEPT !.pc = "commit", !.st = "NO_DRIVER_AVAILABLE", !.pick = NoDriver,
            !.now = [status |-> "NO_DRIVER_AVAILABLE", driver |-> NoDriver],
            !.drv = NoDrivers, !.dnow = NoDrivers, !.cand = {}, !.excl = {}]

\* The session that has found no driver: _transition_to_no_driver consults no
\* state machine.
GiveUp(s) ==
  [s EXCEPT !.pc = "commit", !.st = "NO_DRIVER_AVAILABLE", !.pick = NoDriver,
            !.now = [status |-> "NO_DRIVER_AVAILABLE", driver |-> NoDriver],
            !.rows = << <<s.was.status, "NO_DRIVER_AVAILABLE">> >>,
            !.drv = NoDrivers, !.dnow = NoDrivers, !.cand = {}, !.excl = {}]

\* Mutant: the offer is not recorded when the order was pending already.
OfferTo_UnloggedAgain(s, d) ==
  [s EXCEPT !.pc = "commit", !.st = "DRIVER_PENDING", !.pick = d,
            !.now = [status |-> "DRIVER_PENDING", driver |-> d],
            !.rows = IF s.was.status = "DRIVER_PENDING" THEN <<>>
                     ELSE << <<s.was.status, "DRIVER_PENDING">> >>,
            !.drv = NoDrivers, !.dnow = NoDrivers, !.cand = {}, !.excl = {}]

\* The session that offers the order to d.
OfferTo(s, d) ==
  [s EXCEPT !.pc = "commit", !.st = "DRIVER_PENDING", !.pick = d,
            !.now = [status |-> "DRIVER_PENDING", driver |-> d],
            !.rows = << <<s.was.status, "DRIVER_PENDING">> >>,
            !.drv = NoDrivers, !.dnow = NoDrivers, !.cand = {}, !.excl = {}]

\* POST /deliveries/assign-driver: the order, and its transition checked.
TriggerAssignment(p, o) ==
  /\ orders[o].status # "ABSENT"
  /\ ValidTransition(orders[o].status, "DRIVER_PENDING")
  /\ Begin(p, [Idle EXCEPT !.pc = "excluded", !.op = "Trigger", !.o = o,
                           !.was = orders[o], !.now = orders[o]])
  /\ UNCHANGED <<tables, redis, tasks>>

\* The call from reject_delivery and from the timer.  Their session has loaded
\* the order already, so the SELECT yields that object and not the row as it
\* now is (expire_on_commit=False, no populate_existing).
Retrigger(p) ==
  LET s == sess[p]
  IN  /\ s.pc = "order"
      /\ ValidTransition(s.was.status, "DRIVER_PENDING")
      /\ Continue(p, [s EXCEPT !.pc = "excluded", !.op = "Trigger"])
      /\ UNCHANGED <<tables, redis, tasks>>

\* Mutant: a driver that let the offer expire is asked again.
FetchExcluded_Rejected(p) ==
  LET s == sess[p]
  IN  /\ s.pc = "excluded"
      /\ Continue(p, [s EXCEPT !.pc = "search",
           !.excl = {attempts[i].driver : i \in
                      {j \in DOMAIN attempts :
                         attempts[j].order = s.o /\ attempts[j].status = "REJECTED"}}])
      /\ UNCHANGED <<tables, redis, tasks>>

\* Drivers that rejected this order or let its offer expire.
FetchExcluded(p) ==
  LET s == sess[p]
  IN  /\ s.pc = "excluded"
      /\ Continue(p, [s EXCEPT !.pc = "search",
           !.excl = {attempts[i].driver : i \in
                      {j \in DOMAIN attempts :
                         /\ attempts[j].order = s.o
                         /\ attempts[j].status \in {"REJECTED", "TIMEOUT"}}}])
      /\ UNCHANGED <<tables, redis, tasks>>

\* GEOSEARCH around the pickup, minus the excluded drivers.
Discover(p) ==
  LET s == sess[p]
      found == (geo \cap InRange[s.o]) \ s.excl
  IN  /\ s.pc = "search"
      /\ Continue(p, IF found = {} THEN GiveUp(s)
                     ELSE [s EXCEPT !.pc = "score", !.cand = found, !.excl = {}])
      /\ UNCHANGED <<tables, redis, tasks>>

\* One SELECT loads every candidate; the loop below works on these copies.
Score(p) ==
  LET s == sess[p]
  IN  /\ s.pc = "score"
      /\ Continue(p, [s EXCEPT !.pc = "lock",
           !.drv = [d \in Drivers |-> IF d \in s.cand THEN drivers[d] ELSE NewDriver],
           !.dnow = [d \in Drivers |-> IF d \in s.cand THEN drivers[d] ELSE NewDriver]])
      /\ UNCHANGED <<tables, redis, tasks>>

\* Mutant: the candidate is tried again.
NextCandidate_Again(s, d) == [s EXCEPT !.pc = "lock", !.pick = NoDriver]

\* The loop without candidate d.
NextCandidate(s, d) ==
  IF s.cand = {d} THEN GiveUp(s)
  ELSE [s EXCEPT !.pc = "lock", !.pick = NoDriver, !.cand = @ \ {d}]

\* Mutant: SET without NX.
AcquireLock_NoNX(p, d) ==
  /\ sess[p].pc = "lock"
  /\ d \in sess[p].cand
  /\ locks' = locks \cup {d}
  /\ Continue(p, [sess[p] EXCEPT !.pc = "unlock", !.pick = d])
  /\ UNCHANGED <<tables, geo, channel, tasks>>

\* SET driver:{d}:lock NX.  Distance and rating order the candidates; as both
\* are data, any candidate may be the next one.
AcquireLock(p, d) ==
  LET s == sess[p]
  IN  /\ s.pc = "lock"
      /\ d \in s.cand \ locks
      /\ locks' = locks \cup {d}
      /\ Continue(p, [s EXCEPT !.pc = "unlock", !.pick = d])
      /\ UNCHANGED <<tables, geo, channel, tasks>>

\* The lock is taken: the driver is skipped.
LockFailed(p, d) ==
  LET s == sess[p]
  IN  /\ s.pc = "lock"
      /\ d \in s.cand \cap locks
      /\ Continue(p, NextCandidate(s, d))
      /\ UNCHANGED <<tables, redis, tasks>>

\* The double check, on the loaded copy, and the DEL of the finally clause,
\* before anything is written.
CheckAndUnlock(p) ==
  LET s == sess[p]
      d == s.pick
  IN  /\ s.pc = "unlock"
      /\ locks' = locks \ {d}
      /\ Continue(p, IF s.drv[d].status = "ONLINE" /\ s.drv[d].available
                     THEN OfferTo(s, d) ELSE NextCandidate(s, d))
      /\ UNCHANGED <<tables, geo, channel, tasks>>

-----------------------------------------------------------------------------
(* _run_assignment_timeout *)

\* The timer of attempt i has slept and its session reads the order: the offer
\* it was armed for still stands.
TimeoutFires(p, i) ==
  LET a == attempts[i]
      row == orders[a.order]
  IN  /\ i \in timers
      /\ row.status = "DRIVER_PENDING" /\ row.driver = a.driver
      /\ sess[p].pc = "idle"
      /\ timers' = timers \ {i}
      /\ Continue(p, [Idle EXCEPT !.pc = "attempt", !.op = "Timeout", !.o = a.order,
                                  !.ask = a.driver, !.was = row, !.now = row])
      /\ UNCHANGED <<tables, redis, events>>

\* The offer was answered or withdrawn in the meantime.
TimeoutMoot(i) ==
  LET a == attempts[i]
      row == orders[a.order]
  IN  /\ i \in timers
      /\ ~ (row.status = "DRIVER_PENDING" /\ row.driver = a.driver)
      /\ timers' = timers \ {i}
      /\ UNCHANGED <<tables, redis, events, sess, issued>>
=============================================================================
