--------------------------- MODULE DeliveriesApi ---------------------------
(***************************************************************************)
(* The handlers of api/deliveries.py that are more than a call to a        *)
(* service: a driver's answer to an offer.  The SELECT of the attempt is   *)
(* shared with the offer timer, whose code has the same three steps.       *)
(***************************************************************************)
EXTENDS Store

\* Mutant: an order that is no longer pending can be answered.
AnswerOffer_AnyStatus(p, op, o) ==
  /\ orders[o].driver # NoDriver
  /\ Begin(p, [Idle EXCEPT !.pc = "attempt", !.op = op, !.o = o,
                           !.ask = orders[o].driver,
                           !.was = orders[o], !.now = orders[o]])
  /\ UNCHANGED <<tables, redis, tasks>>

\* accept_delivery and reject_delivery up to their first await: the order must
\* be pending and name a driver.
AnswerOffer(p, op, o) ==
  /\ orders[o].status = "DRIVER_PENDING"
  /\ orders[o].driver # NoDriver
  /\ Begin(p, [Idle EXCEPT !.pc = "attempt", !.op = op, !.o = o,
                           !.ask = orders[o].driver,
                           !.was = orders[o], !.now = orders[o]])
  /\ UNCHANGED <<tables, redis, tasks>>

\* The status each answer gives the attempt.
AnswerOf(op) ==
  CASE op = "Accept" -> "ACCEPTED"
    [] op = "Reject" -> "REJECTED"
    [] OTHER -> "TIMEOUT"

\* The session once its OFFERED attempt is loaded: accept goes on to the
\* driver, the other two commit the answer and then look for another driver.
WithAttempt(s, i) ==
  [s EXCEPT !.att = i, !.mark = AnswerOf(s.op),
            !.pc = IF s.op = "Accept" THEN "driver" ELSE "commit"]

\* scalars().first() of an unordered SELECT: any OFFERED row of the pair.
FetchAttempt(p) ==
  LET s == sess[p]
  IN  /\ s.pc = "attempt"
      /\ \E i \in Offered(s.o, s.ask) : Continue(p, WithAttempt(s, i))
      /\ UNCHANGED <<tables, redis, tasks>>

\* No row is found: the handler goes on without recording the answer.
NoAttempt(p) ==
  LET s == sess[p]
  IN  /\ s.pc = "attempt"
      /\ Offered(s.o, s.ask) = {}
      /\ Continue(p, WithAttempt(s, 0))
      /\ UNCHANGED <<tables, redis, tasks>>

\* accept_delivery: the order becomes ASSIGNED and its driver BUSY.  The state
\* machine is not consulted; the guard on the status stands for it.
AcceptFetchDriver(p) ==
  LET s == sess[p]
      d == s.ask
  IN  /\ s.pc = "driver" /\ s.op = "Accept"
      /\ Continue(p, [s EXCEPT
           !.pc = "unindex", !.st = "ASSIGNED", !.now.status = "ASSIGNED",
           !.drv = [@ EXCEPT ![d] = drivers[d]],
           !.dnow = [@ EXCEPT ![d] = [drivers[d] EXCEPT !.status = "BUSY"]],
           !.rows = << <<s.was.status, "ASSIGNED">> >>])
      /\ UNCHANGED <<tables, redis, tasks>>
=============================================================================
