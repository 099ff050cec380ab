--------------------------- MODULE DispatchProofs ---------------------------
(***************************************************************************)
(* Proofs about Dispatch for every value of its constants: the types of    *)
(* all that the handlers share and hold, and the locks of the search.      *)
(***************************************************************************)
EXTENDS Dispatch, TLAPS, SequenceTheorems

-----------------------------------------------------------------------------
(* The inductive strengthening of TypeOK: what each await may rely on *)

\* The awaits of a session that works on an order.
OrderPc == {"order", "driver", "index", "unindex", "attempt", "excluded", "search",
            "score", "lock", "unlock", "commit", "refresh", "announce"}

\* It has loaded an existing order and knows the status to announce.
HasOrder(s) ==
  s.pc \in OrderPc =>
    /\ s.o \in Orders
    /\ orders[s.o].status \in OrderStatus
    /\ s.was.status \in OrderStatus
    /\ s.now.status \in OrderStatus

HasStatus(s) ==
  \/ s.pc \in {"index", "unindex", "refresh", "announce"}
  \/ s.pc = "driver" /\ s.op = "Patch"
  \/ s.pc = "commit" /\ s.op \notin {"Reject", "Timeout"}
  => s.st \in OrderStatus

\* It has the driver that its next step looks up or indexes.
HasDriver(s) ==
  /\ s.pc \in {"attempt", "reload", "reindex"} => s.ask \in Drivers
  /\ s.pc = "driver" => \/ s.op \in {"Assign", "Accept"} /\ s.ask \in Drivers
                        \/ s.op = "Patch" /\ s.now.driver \in Drivers
  /\ s.pc = "index" => s.now.driver \in Drivers
  /\ s.pc = "attempt" => s.op \in {"Accept", "Reject", "Timeout"}
  /\ s.pc = "unlock" => s.pick \in Drivers

SessionOK(s) ==
  s.att \in 0 .. Len(attempts) /\ HasOrder(s) /\ HasStatus(s) /\ HasDriver(s)

TypeInv == TypeOK /\ \A p \in Procs : SessionOK(sess[p])

-----------------------------------------------------------------------------
(* Lemmas *)

\* What the step of one session does to the others: nothing.
LEMMA SessionUpdate ==
  ASSUME sess \in [Procs -> Session], NEW p \in Procs, NEW s \in Session,
         sess' = [sess EXCEPT ![p] = s]
  PROVE  /\ sess' \in [Procs -> Session]
         /\ sess'[p] = s
         /\ \A q \in Procs \ {p} : sess'[q] = sess[q]
  OBVIOUS

LEMMA IdleType == Idle \in Session
  BY StoreAssumption DEF Idle, Session, PcName, OpName, Absent, OrderRow, NoDrivers,
     NewDriver, DriverRow, DriverStatus, AttemptStatus

\* A session that has ended needs nothing.
LEMMA IdleOK == ASSUME attempts \in Seq(AttemptRow) PROVE SessionOK(Idle)
  BY DEF Idle, SessionOK, HasOrder, HasStatus, HasDriver, OrderPc

\* A step that changes no table keeps what the other sessions rely on.
LEMMA LocalStep ==
  ASSUME TypeInv, NEW p \in Procs, NEW s \in Session, SessionOK(s),
         sess' = [sess EXCEPT ![p] = s],
         issued' \in 0 .. MaxRequests,
         UNCHANGED <<tables, channel, events>>, timers' \subseteq timers,
         geo' \subseteq Drivers, locks' \subseteq Drivers
  PROVE  TypeInv'
<1>1. sess' \in [Procs -> Session] /\ \A q \in Procs : SessionOK(sess'[q])
  BY SessionUpdate DEF TypeInv, TypeOK
<1>2. TypeOK'
  BY <1>1 DEF TypeInv, TypeOK, tables
<1>3. \A q \in Procs : SessionOK(sess[q])'
  BY <1>1 DEF SessionOK, HasOrder, HasStatus, HasDriver, tables
<1> QED BY <1>2, <1>3 DEF TypeInv

\* The two ways a handler takes a step that writes no table.
LEMMA BeginStep ==
  ASSUME TypeInv, NEW p \in Procs, NEW s \in Session, SessionOK(s), Begin(p, s),
         UNCHANGED <<tables, redis, tasks>>
  PROVE  TypeInv'
<1>1. issued' \in 0 .. MaxRequests
  BY StoreAssumption DEF TypeInv, TypeOK, Begin
<1>2. geo' \subseteq Drivers /\ locks' \subseteq Drivers /\ UNCHANGED channel
  BY DEF TypeInv, TypeOK, redis
<1> QED BY <1>1, <1>2, LocalStep DEF Begin, tasks

LEMMA ContinueStep ==
  ASSUME TypeInv, NEW p \in Procs, NEW s \in Session, SessionOK(s), Continue(p, s),
         UNCHANGED <<tables, channel, tasks>>,
         geo' \subseteq Drivers, locks' \subseteq Drivers
  PROVE  TypeInv'
  BY LocalStep DEF TypeInv, TypeOK, Continue, tasks

\* The facts about one session that the cases below start from.
LEMMA SessionFacts ==
  ASSUME TypeInv, NEW p \in Procs
  PROVE  sess[p] \in Session /\ SessionOK(sess[p])
  BY DEF TypeInv, TypeOK

LEMMA AttemptFacts ==
  ASSUME TypeInv, NEW i \in DOMAIN attempts
  PROVE  /\ i \in 1 .. Len(attempts)
         /\ attempts[i] \in AttemptRow
         /\ attempts[i].order \in Orders
         /\ attempts[i].driver \in Drivers
         /\ attempts[i].status \in AttemptStatus
<1>1. attempts[i] \in AttemptRow /\ i \in 1 .. Len(attempts)
  BY DEF TypeInv, TypeOK
<1> QED BY <1>1 DEF AttemptRow

\* An order that is not absent has one of the statuses of the life cycle.
LEMMA ExistingOrder ==
  ASSUME TypeInv, NEW o \in Orders, orders[o].status # "ABSENT"
  PROVE  orders[o] \in OrderRow /\ orders[o].status \in OrderStatus
  BY DEF TypeInv, TypeOK, OrderRow

-----------------------------------------------------------------------------
(* DeliveryService *)

LEMMA CreateDeliveryType ==
  ASSUME TypeInv, NEW o \in Orders, CreateDelivery(o) PROVE TypeInv'
<1> USE DEF CreateDelivery, redis, tasks
<1>1. << <<"CREATED", "CREATED">> >> \in Seq(Edge)
  BY DEF Edge, OrderStatus
<1>2. TypeOK'
  BY <1>1 DEF TypeInv, TypeOK, OrderRow, OrderStatus
<1>3. \A q \in Procs : SessionOK(sess[q])'
  BY DEF TypeInv, TypeOK, SessionOK, HasOrder, HasStatus, HasDriver, OrderStatus, Absent
<1> QED BY <1>2, <1>3 DEF TypeInv

LEMMA UpdateStatusType ==
  ASSUME TypeInv, NEW p \in Procs, NEW o \in Orders, NEW new \in OrderStatus,
         NEW d \in Drivers \cup {NoDriver}, UpdateStatus(p, o, new, d)
  PROVE  TypeInv'
<1> DEFINE row == orders[o]
           now == Patched(row, new, d)
           trail == PatchTrail(row.status, new)
           t == [Idle EXCEPT
                  !.pc = IF Releases(new, now.driver) THEN "driver" ELSE "commit",
                  !.op = "Patch", !.o = o, !.st = new, !.was = row, !.now = now,
                  !.rows = trail]
<1>1. row \in OrderRow /\ row.status \in OrderStatus
  BY DEF TypeInv, TypeOK, UpdateStatus, OrderRow, ValidTransition, VALID_TRANSITIONS,
         OrderStatus
<1>2. now \in OrderRow /\ now.status \in OrderStatus
  BY <1>1 DEF Patched, OrderRow, OrderStatus
<1>3. trail \in Seq(Edge)
  <2>1. <<row.status, new>> \in Edge /\ <<new, "IN_TRANSIT">> \in Edge
    BY <1>1 DEF Edge, OrderStatus
  <2>2. CASE new = "PICKED_UP"
    BY <2>1, <2>2 DEF PatchTrail
  <2>3. CASE new # "PICKED_UP"
    BY <2>1, <2>3 DEF PatchTrail
  <2> QED BY <2>2, <2>3
<1>4. t \in Session
  <2> DEFINE pc == IF Releases(new, now.driver) THEN "driver" ELSE "commit"
  <2>1. pc \in {"driver", "commit"}
    OBVIOUS
  <2> HIDE DEF row, now, trail, pc
  <2>2. Idle \in Session => [Idle EXCEPT
                  !.pc = pc,
                  !.op = "Patch", !.o = o, !.st = new, !.was = row, !.now = now,
                  !.rows = trail] \in Session
     BY ZenonT(40), <1>1, <1>2, <1>3, <2>1 DEF Session, PcName, OpName
  <2> QED BY <2>2, IdleType DEF pc
<1>5. SessionOK(t)
  BY <1>1, <1>2 DEF SessionOK, HasOrder, HasStatus, HasDriver, Releases, Idle, TypeInv, TypeOK,
                    OrderPc, OrderRow
<1>6. Begin(p, t) /\ UNCHANGED <<tables, redis, tasks>>
  BY DEF UpdateStatus
<1> QED BY <1>4, <1>5, <1>6, BeginStep

LEMMA DriverRowUpdate ==
  ASSUME NEW f \in [Drivers -> DriverRow], NEW d, NEW row \in DriverRow
  PROVE  [f EXCEPT ![d] = row] \in [Drivers -> DriverRow]
  OBVIOUS

LEMMA ReleaseDriverType ==
  ASSUME TypeInv, NEW p \in Procs, ReleaseDriver(p) PROVE TypeInv'
<1> DEFINE s == sess[p]
           d == s.now.driver
           row == drivers[d]
           pc == IF row.located THEN "index" ELSE "commit"
           f == [s.drv EXCEPT ![d] = row]
           g == [s.dnow EXCEPT ![d] = [row EXCEPT !.status = "ONLINE", !.available = TRUE]]
           t == [s EXCEPT !.pc = pc, !.drv = f, !.dnow = g]
<1>1. s \in Session /\ SessionOK(s) /\ s.pc = "driver" /\ s.op = "Patch"
  BY SessionFacts DEF ReleaseDriver
<1>2. d \in Drivers /\ row \in DriverRow
  BY <1>1 DEF SessionOK, HasDriver, TypeInv, TypeOK
<1>3. pc \in {"index", "commit"}
  OBVIOUS
<1>4. f \in [Drivers -> DriverRow] /\ g \in [Drivers -> DriverRow]
  BY <1>1, <1>2, DriverRowUpdate DEF Session, DriverRow, DriverStatus
<1>5. Continue(p, t) /\ UNCHANGED <<tables, redis, tasks>>
  BY DEF ReleaseDriver
<1> HIDE DEF f, g, pc, row
<1>6. t \in Session
  BY <1>1, <1>3, <1>4 DEF Session, PcName
<1>7. SessionOK(t)
  BY <1>1, <1>2, <1>3 DEF SessionOK, HasOrder, HasStatus, HasDriver, OrderPc, Session
<1> HIDE DEF t
<1> QED
  BY <1>5, <1>6, <1>7, ContinueStep DEF redis, TypeInv, TypeOK

LEMMA IndexDriverType ==
  ASSUME TypeInv, NEW p \in Procs, IndexDriver(p) PROVE TypeInv'
<1> DEFINE s == sess[p]
           t == [s EXCEPT !.pc = "commit"]
<1>1. s \in Session /\ SessionOK(s) /\ s.pc = "index" /\ s.now.driver \in Drivers
  BY SessionFacts DEF IndexDriver, SessionOK, HasDriver
<1>2. t \in Session
  BY <1>1 DEF Session, PcName
<1>3. SessionOK(t)
  BY <1>1 DEF SessionOK, HasOrder, HasStatus, HasDriver, OrderPc, Session
<1>4. geo' \subseteq Drivers /\ locks' \subseteq Drivers
  BY <1>1 DEF IndexDriver, TypeInv, TypeOK
<1> HIDE DEF t
<1> QED
  BY <1>2, <1>3, <1>4, ContinueStep DEF IndexDriver, t

-----------------------------------------------------------------------------
(* AssignmentService *)

LEMMA AssignFetchOrderType ==
  ASSUME TypeInv, NEW p \in Procs, NEW o \in Orders, NEW d \in Drivers,
         AssignFetchOrder(p, o, d)
  PROVE  TypeInv'
<1> DEFINE row == orders[o]
           t == [Idle EXCEPT !.pc = "driver", !.op = "Assign", !.o = o, !.ask = d,
                             !.was = row, !.now = row]
<1>1. row \in OrderRow /\ row.status \in OrderStatus
  BY ExistingOrder DEF AssignFetchOrder
<1>2. Begin(p, t) /\ UNCHANGED <<tables, redis, tasks>>
  BY DEF AssignFetchOrder
<1>3. t \in Session
  <2> HIDE DEF row
  <2> QED BY ZenonT(40), <1>1, IdleType DEF Session, PcName, OpName
<1>4. SessionOK(t)
  BY <1>1, IdleOK, IdleType DEF SessionOK, HasOrder, HasStatus, HasDriver, Session, TypeInv, TypeOK
<1> HIDE DEF t
<1> QED BY <1>2, <1>3, <1>4, BeginStep

LEMMA AssignFetchDriverType ==
  ASSUME TypeInv, NEW p \in Procs, AssignFetchDriver(p) PROVE TypeInv'
<1> DEFINE s == sess[p]
           d == s.ask
           row == drivers[d]
           now == [status |-> "ASSIGNED", driver |-> d]
           f == [s.drv EXCEPT ![d] = row]
           g == [s.dnow EXCEPT ![d] = [row EXCEPT !.status = "BUSY"]]
           rows == << <<s.was.status, "ASSIGNED">> >>
           t == [s EXCEPT !.pc = "unindex", !.st = "ASSIGNED", !.now = now,
                          !.drv = f, !.dnow = g, !.rows = rows]
<1>1. s \in Session /\ SessionOK(s) /\ s.pc = "driver" /\ s.op = "Assign"
  BY SessionFacts DEF AssignFetchDriver
<1>2. d \in Drivers /\ row \in DriverRow /\ now \in OrderRow
      /\ s.o \in Orders /\ s.was.status \in OrderStatus
  BY <1>1 DEF SessionOK, HasDriver, HasOrder, OrderPc, TypeInv, TypeOK, OrderRow, OrderStatus
<1>3. f \in [Drivers -> DriverRow] /\ g \in [Drivers -> DriverRow]
  BY <1>1, <1>2, DriverRowUpdate DEF Session, DriverRow, DriverStatus
<1>4. rows \in Seq(Edge)
  BY <1>2 DEF Edge, OrderStatus
<1>5. Continue(p, t) /\ UNCHANGED <<tables, redis, tasks>>
  BY DEF AssignFetchDriver
<1>6. now.status \in OrderStatus
  BY DEF OrderStatus
<1> HIDE DEF f, g, now, rows
<1>7. t \in Session
  BY <1>1, <1>2, <1>3, <1>4 DEF Session, PcName, OrderStatus
<1>8. SessionOK(t)
  BY <1>1, <1>2, <1>6 DEF SessionOK, HasOrder, HasStatus, HasDriver, OrderPc, Session, OrderStatus
<1> HIDE DEF t
<1> QED BY <1>5, <1>7, <1>8, ContinueStep DEF redis, TypeInv, TypeOK

\* A handler that gives up or has finished leaves its slot idle.
LEMMA EndStep ==
  ASSUME TypeInv, NEW p \in Procs, Continue(p, Idle), UNCHANGED <<tables, redis, tasks>>
  PROVE  TypeInv'
  BY IdleType, IdleOK, ContinueStep DEF TypeInv, TypeOK, redis

LEMMA UnindexType ==
  ASSUME TypeInv, NEW p \in Procs, Unindex(p) PROVE TypeInv'
<1> DEFINE s == sess[p]
           t == [s EXCEPT !.pc = "commit"]
<1>1. s \in Session /\ SessionOK(s) /\ s.pc = "unindex"
  BY SessionFacts DEF Unindex
<1>2. t \in Session
  BY <1>1 DEF Session, PcName
<1>3. SessionOK(t)
  BY <1>1 DEF SessionOK, HasOrder, HasStatus, HasDriver, OrderPc, Session
<1>4. geo' \subseteq Drivers /\ locks' \subseteq Drivers
  BY <1>1 DEF Unindex, TypeInv, TypeOK
<1> HIDE DEF t
<1> QED BY <1>2, <1>3, <1>4, ContinueStep DEF Unindex, t

\* What a session that gives up or makes an offer brings to its commit.
LEMMA GiveUpType ==
  ASSUME TypeInv, NEW s \in Session, SessionOK(s), s.pc \in OrderPc
  PROVE  GiveUp(s) \in Session /\ SessionOK(GiveUp(s))
<1> DEFINE now == [status |-> "NO_DRIVER_AVAILABLE", driver |-> NoDriver]
           rows == << <<s.was.status, "NO_DRIVER_AVAILABLE">> >>
<1>1. s.o \in Orders /\ s.was.status \in OrderStatus
  BY DEF SessionOK, HasOrder
<1>2. now \in OrderRow /\ now.status \in OrderStatus
  BY DEF OrderRow, OrderStatus
<1>3. rows \in Seq(Edge)
  BY <1>1 DEF Edge, OrderStatus
<1>4. NoDrivers \in [Drivers -> DriverRow]
  BY DEF NoDrivers, NewDriver, DriverRow, DriverStatus
<1>5. GiveUp(s) = [s EXCEPT !.pc = "commit", !.st = "NO_DRIVER_AVAILABLE", !.pick = NoDriver,
                            !.now = now, !.rows = rows, !.drv = NoDrivers,
                            !.dnow = NoDrivers, !.cand = {}, !.excl = {}]
  BY DEF GiveUp
<1> HIDE DEF now, rows
<1>6. GiveUp(s) \in Session
  <2>1. \A r \in Session : [r EXCEPT !.drv = NoDrivers, !.dnow = NoDrivers,
                                    !.cand = {}, !.excl = {}] \in Session
    BY <1>4 DEF Session
  <2>2. [s EXCEPT !.pc = "commit", !.st = now.status, !.pick = now.driver,
                  !.now = now, !.rows = rows] \in Session
    BY <1>2, <1>3 DEF Session, PcName, OrderRow
  <2> QED BY <2>1, <2>2, <1>5 DEF now
<1>7. SessionOK(GiveUp(s))
  BY <1>1, <1>2, <1>5 DEF SessionOK, HasOrder, HasStatus, HasDriver, OrderPc, Session, OrderStatus
<1> QED BY <1>6, <1>7

LEMMA OfferToType ==
  ASSUME TypeInv, NEW s \in Session, SessionOK(s), s.pc \in OrderPc,
         NEW d \in Drivers
  PROVE  OfferTo(s, d) \in Session /\ SessionOK(OfferTo(s, d))
<1> DEFINE now == [status |-> "DRIVER_PENDING", driver |-> d]
           rows == << <<s.was.status, "DRIVER_PENDING">> >>
<1>1. s.o \in Orders /\ s.was.status \in OrderStatus
  BY DEF SessionOK, HasOrder
<1>2. now \in OrderRow /\ now.status \in OrderStatus
  BY DEF OrderRow, OrderStatus
<1>3. rows \in Seq(Edge)
  BY <1>1 DEF Edge, OrderStatus
<1>4. NoDrivers \in [Drivers -> DriverRow]
  BY DEF NoDrivers, NewDriver, DriverRow, DriverStatus
<1>5. OfferTo(s, d) = [s EXCEPT !.pc = "commit", !.st = "DRIVER_PENDING", !.pick = d,
                            !.now = now, !.rows = rows, !.drv = NoDrivers,
                            !.dnow = NoDrivers, !.cand = {}, !.excl = {}]
  BY DEF OfferTo
<1> HIDE DEF now, rows
<1>6. OfferTo(s, d) \in Session
  <2>1. \A r \in Session : [r EXCEPT !.drv = NoDrivers, !.dnow = NoDrivers,
                                    !.cand = {}, !.excl = {}] \in Session
    BY <1>4 DEF Session
  <2>2. [s EXCEPT !.pc = "commit", !.st = now.status, !.pick = now.driver,
                  !.now = now, !.rows = rows] \in Session
    BY <1>2, <1>3 DEF Session, PcName, OrderRow
  <2> QED BY <2>1, <2>2, <1>5 DEF now
<1>7. SessionOK(OfferTo(s, d))
  BY <1>1, <1>2, <1>5 DEF SessionOK, HasOrder, HasStatus, HasDriver, OrderPc, Session, OrderStatus
<1> QED BY <1>6, <1>7

LEMMA NextCandidateType ==
  ASSUME TypeInv, NEW s \in Session, SessionOK(s), s.pc \in {"lock", "unlock"}, NEW d
  PROVE  NextCandidate(s, d) \in Session /\ SessionOK(NextCandidate(s, d))
<1>1. CASE s.cand = {d}
  BY <1>1, GiveUpType DEF NextCandidate, OrderPc
<1>2. CASE s.cand # {d}
  <2> DEFINE t == [s EXCEPT !.pc = "lock", !.pick = NoDriver, !.cand = @ \ {d}]
  <2>1. t \in Session
    BY DEF Session, PcName
  <2>2. SessionOK(t)
    BY DEF SessionOK, HasOrder, HasStatus, HasDriver, OrderPc, Session
  <2> QED BY <1>2, <2>1, <2>2 DEF NextCandidate
<1> QED BY <1>1, <1>2

LEMMA TriggerAssignmentType ==
  ASSUME TypeInv, NEW p \in Procs, NEW o \in Orders, TriggerAssignment(p, o) PROVE TypeInv'
<1> DEFINE row == orders[o]
           t == [Idle EXCEPT !.pc = "excluded", !.op = "Trigger", !.o = o,
                             !.was = row, !.now = row]
<1>1. row \in OrderRow /\ row.status \in OrderStatus
  BY ExistingOrder DEF TriggerAssignment
<1>2. Begin(p, t) /\ UNCHANGED <<tables, redis, tasks>>
  BY DEF TriggerAssignment
<1>3. t \in Session
  <2> HIDE DEF row
  <2> QED BY ZenonT(40), <1>1, IdleType DEF Session, PcName, OpName
<1>4. SessionOK(t)
  BY <1>1, IdleOK, IdleType DEF SessionOK, HasOrder, HasStatus, HasDriver, Session, TypeInv, TypeOK
<1> HIDE DEF t
<1> QED BY <1>2, <1>3, <1>4, BeginStep

LEMMA RetriggerType ==
  ASSUME TypeInv, NEW p \in Procs, Retrigger(p) PROVE TypeInv'
<1> DEFINE s == sess[p]
           t == [s EXCEPT !.pc = "excluded", !.op = "Trigger"]
<1>1. s \in Session /\ SessionOK(s) /\ s.pc = "order"
  BY SessionFacts DEF Retrigger
<1>2. t \in Session
  BY <1>1 DEF Session, PcName, OpName
<1>3. SessionOK(t)
  BY <1>1 DEF SessionOK, HasOrder, HasStatus, HasDriver, OrderPc, Session
<1>4. Continue(p, t) /\ UNCHANGED <<tables, redis, tasks>>
  BY DEF Retrigger
<1> HIDE DEF t
<1> QED BY <1>2, <1>3, <1>4, ContinueStep DEF redis, TypeInv, TypeOK

LEMMA FetchExcludedType ==
  ASSUME TypeInv, NEW p \in Procs, FetchExcluded(p) PROVE TypeInv'
<1> DEFINE s == sess[p]
           refused == {attempts[i].driver : i \in
                        {j \in DOMAIN attempts :
                           /\ attempts[j].order = s.o
                           /\ attempts[j].status \in {"REJECTED", "TIMEOUT"}}}
           t == [s EXCEPT !.pc = "search", !.excl = refused]
<1>1. s \in Session /\ SessionOK(s) /\ s.pc = "excluded"
  BY SessionFacts DEF FetchExcluded
<1>2. refused \subseteq Drivers
  BY AttemptFacts
<1>3. Continue(p, t) /\ UNCHANGED <<tables, redis, tasks>>
  BY DEF FetchExcluded
<1> HIDE DEF refused
<1>4. t \in Session
  BY <1>1, <1>2 DEF Session, PcName
<1>5. SessionOK(t)
  BY <1>1 DEF SessionOK, HasOrder, HasStatus, HasDriver, OrderPc, Session
<1> HIDE DEF t
<1> QED BY <1>3, <1>4, <1>5, ContinueStep DEF redis, TypeInv, TypeOK

LEMMA DiscoverType ==
  ASSUME TypeInv, NEW p \in Procs, Discover(p) PROVE TypeInv'
<1> DEFINE s == sess[p]
           found == (geo \cap InRange[s.o]) \ s.excl
           t == [s EXCEPT !.pc = "score", !.cand = found, !.excl = {}]
           next == IF found = {} THEN GiveUp(s) ELSE t
<1>1. s \in Session /\ SessionOK(s) /\ s.pc = "search"
  BY SessionFacts DEF Discover
<1>2. found \subseteq Drivers
  BY DEF TypeInv, TypeOK
<1>3. Continue(p, next) /\ UNCHANGED <<tables, redis, tasks>>
  BY DEF Discover
<1>4. GiveUp(s) \in Session /\ SessionOK(GiveUp(s))
  BY <1>1, GiveUpType DEF OrderPc
<1> HIDE DEF found
<1>5. t \in Session
  BY <1>1, <1>2 DEF Session, PcName
<1>6. SessionOK(t)
  BY <1>1 DEF SessionOK, HasOrder, HasStatus, HasDriver, OrderPc, Session
<1> HIDE DEF t, s
<1>7. next \in Session /\ SessionOK(next)
  BY <1>4, <1>5, <1>6
<1> HIDE DEF next
<1> QED BY <1>3, <1>7, ContinueStep DEF redis, TypeInv, TypeOK

LEMMA ScoreType ==
  ASSUME TypeInv, NEW p \in Procs, Score(p) PROVE TypeInv'
<1> DEFINE s == sess[p]
           f == [d \in Drivers |-> IF d \in s.cand THEN drivers[d] ELSE NewDriver]
           t == [s EXCEPT !.pc = "lock", !.drv = f, !.dnow = f]
<1>1. s \in Session /\ SessionOK(s) /\ s.pc = "score"
  BY SessionFacts DEF Score
<1>2. f \in [Drivers -> DriverRow]
  BY DEF TypeInv, TypeOK, NewDriver, DriverRow, DriverStatus
<1>3. Continue(p, t) /\ UNCHANGED <<tables, redis, tasks>>
  BY DEF Score
<1> HIDE DEF f
<1>4. t \in Session
  BY <1>1, <1>2 DEF Session, PcName
<1>5. SessionOK(t)
  BY <1>1 DEF SessionOK, HasOrder, HasStatus, HasDriver, OrderPc, Session
<1> HIDE DEF t
<1> QED BY <1>3, <1>4, <1>5, ContinueStep DEF redis, TypeInv, TypeOK

LEMMA AcquireLockType ==
  ASSUME TypeInv, NEW p \in Procs, NEW d \in Drivers, AcquireLock(p, d) PROVE TypeInv'
<1> DEFINE s == sess[p]
           t == [s EXCEPT !.pc = "unlock", !.pick = d]
<1>1. s \in Session /\ SessionOK(s) /\ s.pc = "lock"
  BY SessionFacts DEF AcquireLock
<1>2. t \in Session
  BY <1>1 DEF Session, PcName
<1>3. SessionOK(t)
  BY <1>1 DEF SessionOK, HasOrder, HasStatus, HasDriver, OrderPc, Session
<1>4. locks' \subseteq Drivers /\ geo' \subseteq Drivers
  BY DEF AcquireLock, TypeInv, TypeOK
<1>5. Continue(p, t) /\ UNCHANGED <<tables, channel, tasks>>
  BY DEF AcquireLock
<1> HIDE DEF t
<1> QED BY <1>2, <1>3, <1>4, <1>5, ContinueStep

LEMMA LockFailedType ==
  ASSUME TypeInv, NEW p \in Procs, NEW d \in Drivers, LockFailed(p, d) PROVE TypeInv'
<1> DEFINE s == sess[p]
           t == NextCandidate(s, d)
<1>1. s \in Session /\ SessionOK(s) /\ s.pc = "lock"
  BY SessionFacts DEF LockFailed
<1>2. t \in Session /\ SessionOK(t)
  BY <1>1, NextCandidateType
<1>3. Continue(p, t) /\ UNCHANGED <<tables, redis, tasks>>
  BY DEF LockFailed
<1> HIDE DEF t
<1> QED BY <1>2, <1>3, ContinueStep DEF redis, TypeInv, TypeOK

LEMMA CheckAndUnlockType ==
  ASSUME TypeInv, NEW p \in Procs, CheckAndUnlock(p) PROVE TypeInv'
<1> DEFINE s == sess[p]
           d == s.pick
           t == IF s.drv[d].status = "ONLINE" /\ s.drv[d].available
                THEN OfferTo(s, d) ELSE NextCandidate(s, d)
<1>1. s \in Session /\ SessionOK(s) /\ s.pc = "unlock" /\ d \in Drivers
  BY SessionFacts DEF CheckAndUnlock, SessionOK, HasDriver
<1>2. OfferTo(s, d) \in Session /\ SessionOK(OfferTo(s, d))
  BY <1>1, OfferToType DEF OrderPc
<1>3. NextCandidate(s, d) \in Session /\ SessionOK(NextCandidate(s, d))
  BY <1>1, NextCandidateType
<1>4. t \in Session /\ SessionOK(t)
  BY <1>2, <1>3
<1>5. Continue(p, t) /\ UNCHANGED <<tables, channel, tasks>>
  BY DEF CheckAndUnlock
<1>6. locks' \subseteq Drivers /\ geo' \subseteq Drivers
  BY DEF CheckAndUnlock, TypeInv, TypeOK
<1> HIDE DEF t
<1> QED BY <1>4, <1>5, <1>6, ContinueStep

LEMMA TimeoutFiresType ==
  ASSUME TypeInv, NEW p \in Procs, NEW i \in timers, TimeoutFires(p, i) PROVE TypeInv'
<1> DEFINE a == attempts[i]
           row == orders[a.order]
           t == [Idle EXCEPT !.pc = "attempt", !.op = "Timeout", !.o = a.order,
                             !.ask = a.driver, !.was = row, !.now = row]
<1>1. a.order \in Orders /\ a.driver \in Drivers
  BY AttemptFacts DEF TypeInv, TypeOK
<1>2. row \in OrderRow /\ row.status \in OrderStatus
  BY <1>1 DEF TimeoutFires, TypeInv, TypeOK, OrderStatus
<1>3. Continue(p, t) /\ timers' \subseteq timers /\ UNCHANGED <<tables, redis, events>>
  BY DEF TimeoutFires
<1> HIDE DEF a
<1>4. t \in Session
  <2> HIDE DEF row
  <2> QED BY ZenonT(40), <1>1, <1>2, IdleType DEF Session, PcName, OpName
<1>5. SessionOK(t)
  BY <1>1, <1>2, IdleOK, IdleType DEF SessionOK, HasOrder, HasStatus, HasDriver, Session, TypeInv, TypeOK
<1> HIDE DEF t
<1>6. issued' \in 0 .. MaxRequests /\ sess' = [sess EXCEPT ![p] = t]
  BY <1>3 DEF Continue, TypeInv, TypeOK
<1>7. UNCHANGED <<tables, channel, events>> /\ geo' \subseteq Drivers /\ locks' \subseteq Drivers
  BY <1>3 DEF redis, TypeInv, TypeOK
<1> QED BY <1>3, <1>4, <1>5, <1>6, <1>7, LocalStep

\* A step that only discards a timer.
LEMMA TimerStep ==
  ASSUME TypeInv, timers' \subseteq timers, UNCHANGED <<tables, redis, events, sess, issued>>
  PROVE  TypeInv'
<1>1. TypeOK'
  BY DEF TypeInv, TypeOK, tables, redis
<1>2. \A q \in Procs : SessionOK(sess[q])'
  BY DEF TypeInv, SessionOK, HasOrder, HasStatus, HasDriver, tables
<1> QED BY <1>1, <1>2 DEF TypeInv

LEMMA TimeoutMootType ==
  ASSUME TypeInv, NEW i \in timers, TimeoutMoot(i) PROVE TypeInv'
  BY TimerStep DEF TimeoutMoot

-----------------------------------------------------------------------------
(* DeliveriesApi *)

LEMMA AnswerOfferType ==
  ASSUME TypeInv, NEW p \in Procs, NEW op \in {"Accept", "Reject"}, NEW o \in Orders,
         AnswerOffer(p, op, o)
  PROVE  TypeInv'
<1> DEFINE row == orders[o]
           t == [Idle EXCEPT !.pc = "attempt", !.op = op, !.o = o, !.ask = row.driver,
                             !.was = row, !.now = row]
<1>1. row \in OrderRow /\ row.status \in OrderStatus /\ row.driver \in Drivers
  BY DEF AnswerOffer, TypeInv, TypeOK, OrderRow, OrderStatus
<1>2. Begin(p, t) /\ UNCHANGED <<tables, redis, tasks>>
  BY DEF AnswerOffer
<1>3. t \in Session
  <2> HIDE DEF row
  <2> QED BY ZenonT(40), <1>1, IdleType DEF Session, PcName, OpName
<1>4. SessionOK(t)
  BY <1>1, IdleOK, IdleType DEF SessionOK, HasOrder, HasStatus, HasDriver, Session, TypeInv, TypeOK
<1> HIDE DEF t
<1> QED BY <1>2, <1>3, <1>4, BeginStep

LEMMA WithAttemptType ==
  ASSUME TypeInv, NEW s \in Session, SessionOK(s), s.pc = "attempt",
         NEW i \in 0 .. Len(attempts)
  PROVE  WithAttempt(s, i) \in Session /\ SessionOK(WithAttempt(s, i))
<1> DEFINE pc == IF s.op = "Accept" THEN "driver" ELSE "commit"
           mark == AnswerOf(s.op)
           t == [s EXCEPT !.att = i, !.mark = mark, !.pc = pc]
<1>1. s.op \in {"Accept", "Reject", "Timeout"} /\ s.ask \in Drivers
  BY DEF SessionOK, HasDriver
<1>2. mark \in AttemptStatus /\ pc \in {"driver", "commit"}
  BY <1>1 DEF AnswerOf, AttemptStatus
<1>3. i \in Nat
  BY DEF TypeInv, TypeOK
<1>4. WithAttempt(s, i) = t
  BY DEF WithAttempt
<1>5. t \in Session
  <2> HIDE DEF pc, mark
  <2> QED BY <1>2, <1>3 DEF Session, PcName
<1>6. SessionOK(t)
  <2> HIDE DEF mark
  <2> QED BY <1>1 DEF SessionOK, HasOrder, HasStatus, HasDriver, OrderPc, Session
<1> QED BY <1>4, <1>5, <1>6

LEMMA FetchAttemptType ==
  ASSUME TypeInv, NEW p \in Procs, FetchAttempt(p) PROVE TypeInv'
<1> DEFINE s == sess[p]
<1>1. s \in Session /\ SessionOK(s) /\ s.pc = "attempt"
  BY SessionFacts DEF FetchAttempt
<1>2. PICK i \in Offered(s.o, s.ask) : Continue(p, WithAttempt(s, i))
  BY DEF FetchAttempt
<1>3. i \in 0 .. Len(attempts)
  BY AttemptFacts DEF Offered
<1>4. WithAttempt(s, i) \in Session /\ SessionOK(WithAttempt(s, i))
  BY <1>1, <1>3, WithAttemptType
<1> HIDE DEF s
<1> QED BY <1>2, <1>4, ContinueStep DEF FetchAttempt, redis, TypeInv, TypeOK

LEMMA NoAttemptType ==
  ASSUME TypeInv, NEW p \in Procs, NoAttempt(p) PROVE TypeInv'
<1> DEFINE s == sess[p]
<1>1. s \in Session /\ SessionOK(s) /\ s.pc = "attempt" /\ Continue(p, WithAttempt(s, 0))
  BY SessionFacts DEF NoAttempt
<1>2. 0 \in 0 .. Len(attempts)
  BY DEF TypeInv, TypeOK
<1>3. WithAttempt(s, 0) \in Session /\ SessionOK(WithAttempt(s, 0))
  BY <1>1, <1>2, WithAttemptType
<1> HIDE DEF s
<1> QED BY <1>1, <1>3, ContinueStep DEF NoAttempt, redis, TypeInv, TypeOK

LEMMA AcceptFetchDriverType ==
  ASSUME TypeInv, NEW p \in Procs, AcceptFetchDriver(p) PROVE TypeInv'
<1> DEFINE s == sess[p]
           d == s.ask
           row == drivers[d]
           f == [s.drv EXCEPT ![d] = row]
           g == [s.dnow EXCEPT ![d] = [row EXCEPT !.status = "BUSY"]]
           now == [s.now EXCEPT !.status = "ASSIGNED"]
           rows == << <<s.was.status, "ASSIGNED">> >>
           t == [s EXCEPT !.pc = "unindex", !.st = "ASSIGNED", !.now = now,
                          !.drv = f, !.dnow = g, !.rows = rows]
<1>1. s \in Session /\ SessionOK(s) /\ s.pc = "driver" /\ s.op = "Accept"
  BY SessionFacts DEF AcceptFetchDriver
<1>2. d \in Drivers /\ row \in DriverRow /\ s.o \in Orders /\ s.was.status \in OrderStatus
  BY <1>1 DEF SessionOK, HasDriver, HasOrder, OrderPc, TypeInv, TypeOK
<1>3. f \in [Drivers -> DriverRow] /\ g \in [Drivers -> DriverRow]
  BY <1>1, <1>2, DriverRowUpdate DEF Session, DriverRow, DriverStatus
<1>4. rows \in Seq(Edge)
  BY <1>2 DEF Edge, OrderStatus
<1>5. now \in OrderRow /\ now.status \in OrderStatus
  BY <1>1 DEF Session, OrderRow, OrderStatus
<1>6. Continue(p, t) /\ UNCHANGED <<tables, redis, tasks>>
  BY DEF AcceptFetchDriver
<1> HIDE DEF f, g, now, rows
<1>7. t \in Session
  BY <1>1, <1>3, <1>4, <1>5 DEF Session, PcName, OrderStatus
<1>8. SessionOK(t)
  BY <1>1, <1>2, <1>5 DEF SessionOK, HasOrder, HasStatus, HasDriver, OrderPc, Session, OrderStatus
<1> HIDE DEF t
<1> QED BY <1>6, <1>7, <1>8, ContinueStep DEF redis, TypeInv, TypeOK

-----------------------------------------------------------------------------
(* DriverService *)

LEMMA UpdateLocationType ==
  ASSUME TypeInv, NEW p \in Procs, NEW d \in Drivers, UpdateLocation(p, d) PROVE TypeInv'
<1> DEFINE t == [Idle EXCEPT !.pc = "reload", !.op = "Ping", !.ask = d]
<1>1. Begin(p, t) /\ UNCHANGED <<tables, redis, tasks>>
  BY DEF UpdateLocation
<1>2. t \in Session
  BY ZenonT(40), IdleType DEF Session, PcName, OpName
<1>3. SessionOK(t)
  BY IdleOK, IdleType DEF SessionOK, HasOrder, HasStatus, HasDriver, OrderPc, Session,
                          TypeInv, TypeOK
<1> HIDE DEF t
<1> QED BY <1>1, <1>2, <1>3, BeginStep

LEMMA ReloadDriverType ==
  ASSUME TypeInv, NEW p \in Procs, ReloadDriver(p) PROVE TypeInv'
<1> DEFINE s == sess[p]
           d == s.ask
           row == drivers[d]
           Loaded(f, g) == [s EXCEPT !.pc = "reindex", !.drv = f, !.dnow = g]
<1>1. s \in Session /\ SessionOK(s) /\ s.pc = "reload" /\ d \in Drivers
  BY SessionFacts DEF ReloadDriver, SessionOK, HasDriver
<1>2. row \in DriverRow
  BY <1>1 DEF TypeInv, TypeOK
<1>3. [row EXCEPT !.fresh = FALSE] \in DriverRow
  BY <1>2 DEF DriverRow
<1>4. Pinged(row) \in DriverRow
  BY <1>2 DEF Pinged, DriverRow, DriverStatus
<1>5. ASSUME NEW f \in [Drivers -> DriverRow], NEW g \in [Drivers -> DriverRow],
             Continue(p, Loaded(f, g))
      PROVE  TypeInv'
  <2>1. Loaded(f, g) \in Session
    BY <1>1 DEF Session, PcName
  <2>2. SessionOK(Loaded(f, g))
    BY <1>1 DEF SessionOK, HasOrder, HasStatus, HasDriver, OrderPc, Session
  <2>3. UNCHANGED <<tables, redis, tasks>>
    BY DEF ReloadDriver
  <2> HIDE DEF Loaded
  <2> QED BY <1>5, <2>1, <2>2, <2>3, ContinueStep DEF redis, TypeInv, TypeOK
<1>6. s.drv \in [Drivers -> DriverRow] /\ s.dnow \in [Drivers -> DriverRow]
  BY <1>1 DEF Session
<1>7. CASE Continue(p, Loaded([s.drv EXCEPT ![d] = [row EXCEPT !.fresh = FALSE]],
                            [s.dnow EXCEPT ![d] = Pinged(row)]))
  <2> DEFINE f == [s.drv EXCEPT ![d] = [row EXCEPT !.fresh = FALSE]]
             g == [s.dnow EXCEPT ![d] = Pinged(row)]
  <2>1. f \in [Drivers -> DriverRow] /\ g \in [Drivers -> DriverRow]
    BY <1>3, <1>4, <1>6, DriverRowUpdate
  <2> HIDE DEF f, g, Loaded
  <2> QED BY <1>5, <1>7, <2>1 DEF f, g
<1>8. CASE Continue(p, Loaded([s.drv EXCEPT ![d] = row], [s.dnow EXCEPT ![d] = row]))
  <2> DEFINE f == [s.drv EXCEPT ![d] = row]
             g == [s.dnow EXCEPT ![d] = row]
  <2>1. f \in [Drivers -> DriverRow] /\ g \in [Drivers -> DriverRow]
    BY <1>2, <1>6, DriverRowUpdate
  <2> HIDE DEF f, g, Loaded
  <2> QED BY <1>5, <1>8, <2>1 DEF f, g
<1> QED BY <1>7, <1>8 DEF ReloadDriver

LEMMA UpdateAvailabilityType ==
  ASSUME TypeInv, NEW p \in Procs, NEW d \in Drivers, NEW flag \in BOOLEAN,
         UpdateAvailability(p, d, flag)
  PROVE  TypeInv'
<1> DEFINE row == drivers[d]
           f == [Idle.drv EXCEPT ![d] = row]
           g == [Idle.dnow EXCEPT ![d] = [row EXCEPT !.available = flag]]
           t == [Idle EXCEPT !.pc = "reindex", !.op = "Availability", !.ask = d,
                             !.drv = f, !.dnow = g]
<1>1. row \in DriverRow /\ [row EXCEPT !.available = flag] \in DriverRow
  BY DEF TypeInv, TypeOK, DriverRow
<1>2. Idle.drv \in [Drivers -> DriverRow] /\ Idle.dnow \in [Drivers -> DriverRow]
  BY IdleType DEF Session
<1>3. f \in [Drivers -> DriverRow] /\ g \in [Drivers -> DriverRow]
  BY <1>1, <1>2, DriverRowUpdate
<1>4. Begin(p, t) /\ UNCHANGED <<tables, redis, tasks>>
  BY DEF UpdateAvailability
<1> HIDE DEF f, g
<1>5. t \in Session
  BY ZenonT(40), <1>3, IdleType DEF Session, PcName, OpName
<1>6. SessionOK(t)
  BY IdleOK, IdleType DEF SessionOK, HasOrder, HasStatus, HasDriver, OrderPc, Session,
                          TypeInv, TypeOK
<1> HIDE DEF t
<1> QED BY <1>4, <1>5, <1>6, BeginStep

LEMMA ReindexType ==
  ASSUME TypeInv, NEW p \in Procs, Reindex(p) PROVE TypeInv'
<1> DEFINE s == sess[p]
           t == [s EXCEPT !.pc = "store"]
<1>1. s \in Session /\ SessionOK(s) /\ s.pc = "reindex" /\ s.ask \in Drivers
  BY SessionFacts DEF Reindex, SessionOK, HasDriver
<1>2. t \in Session
  BY <1>1 DEF Session, PcName
<1>3. SessionOK(t)
  BY <1>1 DEF SessionOK, HasOrder, HasStatus, HasDriver, OrderPc, Session
<1>4. geo' \subseteq Drivers /\ locks' \subseteq Drivers
  BY <1>1 DEF Reindex, TypeInv, TypeOK
<1>5. Continue(p, t) /\ UNCHANGED <<tables, channel, tasks>>
  BY DEF Reindex
<1> HIDE DEF t
<1> QED BY <1>2, <1>3, <1>4, <1>5, ContinueStep

\* The columns a commit of driver rows writes.
LEMMA WriteDriversType ==
  ASSUME TypeInv, NEW s \in Session PROVE WriteDrivers(s) \in [Drivers -> DriverRow]
<1>1. ASSUME NEW was \in DriverRow, NEW now \in DriverRow, NEW row \in DriverRow
      PROVE  WriteDriver(was, now, row) \in DriverRow
  BY DEF WriteDriver, DriverRow
<1>2. \A d \in Drivers : s.drv[d] \in DriverRow /\ s.dnow[d] \in DriverRow /\ drivers[d] \in DriverRow
  BY DEF Session, TypeInv, TypeOK
<1> QED BY <1>1, <1>2 DEF WriteDrivers

\* A step that writes the drivers table and nothing else that is shared.
LEMMA DriversStep ==
  ASSUME TypeInv, drivers' \in [Drivers -> DriverRow], issued' \in 0 .. MaxRequests,
         UNCHANGED <<orders, attempts, audit, redis, tasks>>,
         sess' \in [Procs -> Session],
         \A q \in Procs : SessionOK(sess'[q])
  PROVE  TypeInv'
<1>1. TypeOK'
  BY DEF TypeInv, TypeOK, redis, tasks
<1>2. \A q \in Procs : SessionOK(sess[q])'
  BY DEF SessionOK, HasOrder, HasStatus, HasDriver
<1> QED BY <1>1, <1>2 DEF TypeInv

LEMMA StoreDriverType ==
  ASSUME TypeInv, NEW p \in Procs, StoreDriver(p) PROVE TypeInv'
<1>1. drivers' \in [Drivers -> DriverRow]
  BY SessionFacts, WriteDriversType DEF StoreDriver
<1>2. sess' = [sess EXCEPT ![p] = Idle] /\ UNCHANGED issued
  BY DEF StoreDriver, Continue
<1>3. sess' \in [Procs -> Session] /\ \A q \in Procs : SessionOK(sess'[q])
  BY <1>2, SessionUpdate, IdleType, IdleOK DEF TypeInv, TypeOK
<1> QED BY <1>1, <1>2, <1>3, DriversStep DEF StoreDriver, TypeInv, TypeOK

LEMMA GrowStaleType ==
  ASSUME TypeInv, NEW d \in Drivers, GrowStale(d) PROVE TypeInv'
<1>1. drivers' \in [Drivers -> DriverRow]
  BY DEF GrowStale, TypeInv, TypeOK, DriverRow
<1> QED BY <1>1, DriversStep DEF GrowStale, TypeInv, TypeOK

LEMMA SweepGhostsType ==
  ASSUME TypeInv, NEW p \in Procs, SweepGhosts(p) PROVE TypeInv'
<1> DEFINE f == [d \in Drivers |-> IF d \in Ghosts THEN drivers[d] ELSE NewDriver]
           g == [d \in Drivers |->
                   IF d \in Ghosts
                   THEN [drivers[d] EXCEPT !.status = "OFFLINE", !.available = FALSE]
                   ELSE NewDriver]
           t == [Idle EXCEPT !.pc = "purge", !.op = "Sweep", !.cand = Ghosts,
                             !.drv = f, !.dnow = g]
<1>1. f \in [Drivers -> DriverRow] /\ g \in [Drivers -> DriverRow]
  BY DEF TypeInv, TypeOK, DriverRow, DriverStatus, NewDriver
<1>2. Ghosts \subseteq Drivers
  BY DEF Ghosts
<1>3. Continue(p, t) /\ UNCHANGED <<tables, redis, tasks>>
  BY DEF SweepGhosts
<1> HIDE DEF f, g
<1>4. t \in Session
  BY ZenonT(40), <1>1, <1>2, IdleType DEF Session, PcName, OpName
<1>5. SessionOK(t)
  BY IdleOK, IdleType DEF SessionOK, HasOrder, HasStatus, HasDriver, OrderPc, Session,
                          TypeInv, TypeOK
<1> HIDE DEF t
<1> QED BY <1>3, <1>4, <1>5, ContinueStep DEF redis, TypeInv, TypeOK

LEMMA PurgeGhostType ==
  ASSUME TypeInv, NEW p \in Procs, NEW d \in Drivers, PurgeGhost(p, d) PROVE TypeInv'
<1> DEFINE s == sess[p]
           pc == IF s.cand = {d} THEN "store" ELSE "purge"
           t == [s EXCEPT !.cand = @ \ {d}, !.pc = pc]
<1>1. s \in Session /\ SessionOK(s)
  BY SessionFacts
<1>2. pc \in {"store", "purge"}
  OBVIOUS
<1>3. Continue(p, t) /\ UNCHANGED <<tables, channel, tasks>>
  BY DEF PurgeGhost
<1>4. geo' \subseteq Drivers /\ locks' \subseteq Drivers
  BY DEF PurgeGhost, TypeInv, TypeOK
<1> HIDE DEF pc
<1>5. t \in Session
  BY <1>1, <1>2 DEF Session, PcName
<1>6. SessionOK(t)
  BY <1>1, <1>2 DEF SessionOK, HasOrder, HasStatus, HasDriver, OrderPc, Session
<1> HIDE DEF t
<1> QED BY <1>3, <1>4, <1>5, <1>6, ContinueStep

-----------------------------------------------------------------------------
(* The commit, and what follows it *)

LEMMA WriteOrderType ==
  ASSUME NEW was \in OrderRow, NEW now \in OrderRow, NEW row \in OrderRow
  PROVE  /\ WriteOrder(was, now, row) \in OrderRow
         /\ now.status \in OrderStatus /\ row.status \in OrderStatus
              => WriteOrder(was, now, row).status \in OrderStatus
  BY DEF WriteOrder, OrderRow

\* A commit changes at most one attempt row and adds at most one.
LEMMA WriteAttemptsType ==
  ASSUME TypeInv, NEW s \in Session, s.o \in Orders
  PROVE  /\ WriteAttempts(s) \in Seq(AttemptRow)
         /\ Len(attempts) <= Len(WriteAttempts(s))
         /\ s.op = "Trigger" /\ s.pick # NoDriver
              => Len(WriteAttempts(s)) = Len(attempts) + 1
<1>1. attempts \in Seq(AttemptRow)
  BY DEF TypeInv, TypeOK
<1>2. CASE s.op = "Trigger" /\ s.pick # NoDriver
  <2>1. [order |-> s.o, driver |-> s.pick, status |-> "OFFERED"] \in AttemptRow
    BY <1>2 DEF AttemptRow, AttemptStatus, Session
  <2> QED BY <1>1, <1>2, <2>1 DEF WriteAttempts
<1>3. CASE ~ (s.op = "Trigger" /\ s.pick # NoDriver)
  <2>1. CASE s.att \in DOMAIN attempts /\ s.mark # "OFFERED"
    <3> DEFINE row == [attempts[s.att] EXCEPT !.status = s.mark]
               new == [attempts EXCEPT ![s.att] = row]
    <3>1. row \in AttemptRow
      BY <2>1, AttemptFacts DEF AttemptRow, Session
    <3>2. new \in Seq(AttemptRow) /\ Len(new) = Len(attempts)
      <4> HIDE DEF row
      <4> QED BY <1>1, <2>1, <3>1
    <3>3. WriteAttempts(s) = new
      BY <1>3, <2>1 DEF WriteAttempts, Answered
    <3>4. Len(attempts) \in Nat
      BY <1>1
    <3> HIDE DEF new
    <3> QED BY <1>3, <3>2, <3>3, <3>4
  <2>2. CASE ~ (s.att \in DOMAIN attempts /\ s.mark # "OFFERED")
    BY <1>1, <1>3, <2>2 DEF WriteAttempts, Answered
  <2> QED BY <2>1, <2>2
<1> QED BY <1>2, <1>3

LEMMA CommitType ==
  ASSUME TypeInv, NEW p \in Procs, Commit(p) PROVE TypeInv'
<1> DEFINE s == sess[p]
           pc == IF s.op \in {"Reject", "Timeout"} THEN "order" ELSE "refresh"
           offers == s.op = "Trigger" /\ s.pick # NoDriver
           att == IF offers THEN Len(attempts) + 1 ELSE 0
           t == [s EXCEPT !.pc = pc, !.att = att, !.mark = "OFFERED", !.rows = <<>>,
                          !.drv = NoDrivers, !.dnow = NoDrivers]
           new == WriteOrder(s.was, s.now, orders[s.o])
<1>1. s \in Session /\ SessionOK(s) /\ s.pc = "commit" /\ s.o \in Orders
      /\ orders[s.o].status \in OrderStatus /\ s.now.status \in OrderStatus
  BY SessionFacts DEF Commit, SessionOK, HasOrder, OrderPc
<1>2. s.was \in OrderRow /\ s.now \in OrderRow /\ orders[s.o] \in OrderRow
  BY <1>1 DEF Session, TypeInv, TypeOK
<1>3. new \in OrderRow /\ new.status \in OrderStatus
  BY <1>1, <1>2, WriteOrderType
<1>4. orders' = [orders EXCEPT ![s.o] = new]
  BY DEF Commit
<1> HIDE DEF new
<1>5. /\ orders' \in [Orders -> OrderRow]
      /\ \A o \in Orders : orders[o].status \in OrderStatus => orders'[o].status \in OrderStatus
  BY <1>1, <1>3, <1>4 DEF TypeInv, TypeOK
<1>6. drivers' \in [Drivers -> DriverRow]
  BY <1>1, WriteDriversType DEF Commit
<1>7. /\ attempts' \in Seq(AttemptRow)
      /\ Len(attempts) <= Len(attempts')
      /\ att \in 0 .. Len(attempts')
  <2>1. attempts' = WriteAttempts(s) /\ Len(attempts) \in Nat /\ attempts \in Seq(AttemptRow)
    BY DEF Commit, TypeInv, TypeOK
  <2> QED BY <1>1, <2>1, WriteAttemptsType
<1>8. audit' \in [Orders -> Seq(Edge)]
  <2>1. s.rows \in Seq(Edge) /\ audit[s.o] \in Seq(Edge)
    BY <1>1 DEF Session, TypeInv, TypeOK
  <2>2. audit[s.o] \o s.rows \in Seq(Edge)
    BY <2>1
  <2> QED BY <1>1, <2>2 DEF Commit, TypeInv, TypeOK
<1>9. sess' = [sess EXCEPT ![p] = t] /\ UNCHANGED issued
  BY DEF Commit, Continue
<1>10. t \in Session
  <2>1. <<>> \in Seq(Edge)
    OBVIOUS
  <2>2. NoDrivers \in [Drivers -> DriverRow]
    BY DEF NoDrivers, NewDriver, DriverRow, DriverStatus
  <2>3. pc \in PcName /\ att \in Nat /\ "OFFERED" \in AttemptStatus
    BY <1>7 DEF PcName, AttemptStatus, TypeInv, TypeOK
  <2> HIDE DEF pc, att
  <2> QED BY <1>1, <2>1, <2>2, <2>3 DEF Session
<1>11. sess' \in [Procs -> Session] /\ sess'[p] = t
       /\ \A q \in Procs \ {p} : sess'[q] = sess[q]
  BY <1>9, <1>10, SessionUpdate DEF TypeInv, TypeOK
<1>12. SessionOK(sess[p])'
  <2>1. /\ t.o = s.o /\ t.st = s.st /\ t.was = s.was /\ t.now = s.now /\ t.op = s.op
        /\ t.pc = pc /\ t.att = att
    BY <1>1 DEF Session
  <2>2. orders'[s.o].status \in OrderStatus
    BY <1>1, <1>5
  <2>3. s.was.status \in OrderStatus
    BY <1>1 DEF SessionOK, HasOrder, OrderPc
  <2>4. pc = "refresh" => s.st \in OrderStatus
    BY <1>1 DEF SessionOK, HasStatus
  <2>5. pc \in {"order", "refresh"}
    OBVIOUS
  <2> HIDE DEF t, s, pc, att
  <2> QED BY <1>1, <1>7, <1>11, <2>1, <2>2, <2>3, <2>4, <2>5
          DEF SessionOK, HasOrder, HasStatus, HasDriver
<1>13. ASSUME NEW q \in Procs \ {p} PROVE SessionOK(sess[q])'
  <2>1. SessionOK(sess[q]) /\ sess'[q] = sess[q]
    BY <1>11, SessionFacts
  <2>2. Len(attempts) \in Nat /\ Len(attempts') \in Nat
    BY <1>7 DEF TypeInv, TypeOK
  <2> QED BY <1>5, <1>7, <2>1, <2>2 DEF SessionOK, HasOrder, HasStatus, HasDriver
<1>14. TypeOK'
  <2>1. timers \subseteq DOMAIN attempts'
    BY <1>7 DEF TypeInv, TypeOK
  <2> QED BY <1>5, <1>6, <1>7, <1>8, <1>9, <1>11, <2>1 DEF Commit, TypeInv, TypeOK, redis, tasks
<1> QED BY <1>12, <1>13, <1>14 DEF TypeInv

LEMMA RefreshType ==
  ASSUME TypeInv, NEW p \in Procs, Refresh(p) PROVE TypeInv'
<1> DEFINE s == sess[p]
           row == orders[s.o]
           t == [s EXCEPT !.pc = "announce", !.now = row]
<1>1. s \in Session /\ SessionOK(s) /\ s.pc = "refresh"
  BY SessionFacts DEF Refresh
<1>2. row \in OrderRow /\ row.status \in OrderStatus
  BY <1>1 DEF SessionOK, HasOrder, OrderPc, TypeInv, TypeOK
<1>3. Continue(p, t) /\ UNCHANGED <<tables, redis, tasks>>
  BY DEF Refresh
<1>4. t \in Session
  <2> HIDE DEF row
  <2> QED BY <1>1, <1>2 DEF Session, PcName
<1>5. SessionOK(t)
  BY <1>1, <1>2 DEF SessionOK, HasOrder, HasStatus, HasDriver, OrderPc, Session
<1> HIDE DEF t
<1> QED BY <1>3, <1>4, <1>5, ContinueStep DEF redis, TypeInv, TypeOK

LEMMA AnnounceType ==
  ASSUME TypeInv, NEW p \in Procs, Announce(p) PROVE TypeInv'
<1> DEFINE s == sess[p]
<1>1. s \in Session /\ SessionOK(s) /\ s.pc = "announce" /\ s.o \in Orders
      /\ s.st \in OrderStatus /\ s.now.status \in OrderStatus /\ s.now \in OrderRow
  BY SessionFacts DEF Announce, SessionOK, HasOrder, HasStatus, OrderPc, Session
<1>2. channel' \in [Orders -> OrderRow]
  <2>1. Payload(s) \in OrderRow
    BY <1>1 DEF Payload, OrderRow
  <2> QED BY <2>1 DEF Announce, TypeInv, TypeOK
<1>3. events' \in [Orders -> SUBSET OrderStatus]
  <2>1. EventsOf(s) \subseteq OrderStatus
    BY <1>1 DEF EventsOf, OrderStatus
  <2> QED BY <2>1 DEF Announce, TypeInv, TypeOK
<1>4. timers' \subseteq DOMAIN attempts
  <2>1. s.att # 0 => s.att \in DOMAIN attempts
    BY <1>1 DEF SessionOK, TypeInv, TypeOK
  <2> QED BY <2>1 DEF Announce, Armed, TypeInv, TypeOK
<1>5. sess' \in [Procs -> Session] /\ \A q \in Procs : SessionOK(sess'[q])
  <2>1. sess' = [sess EXCEPT ![p] = Idle]
    BY DEF Announce, Continue
  <2> QED BY <2>1, SessionUpdate, IdleType, IdleOK DEF TypeInv, TypeOK
<1>6. UNCHANGED <<tables, geo, locks, issued>>
  BY DEF Announce, Continue
<1>7. TypeOK'
  BY <1>2, <1>3, <1>4, <1>5, <1>6 DEF TypeInv, TypeOK, tables
<1>8. \A q \in Procs : SessionOK(sess[q])'
  BY <1>5, <1>6 DEF SessionOK, HasOrder, HasStatus, HasDriver, tables
<1> QED BY <1>7, <1>8 DEF TypeInv

-----------------------------------------------------------------------------
(* Failures *)

LEMMA FailureType == ASSUME TypeInv, Failure PROVE TypeInv'
<1>1. ASSUME NEW p \in Procs, Abort(p) PROVE TypeInv'
  BY <1>1, EndStep DEF Abort
<1>2. ASSUME NEW i \in timers, LoseTimer(i) PROVE TypeInv'
  BY <1>2, TimerStep DEF LoseTimer
<1>3. ASSUME NEW d \in Drivers, LockExpires(d) PROVE TypeInv'
  <2>1. TypeOK'
    BY <1>3 DEF LockExpires, TypeInv, TypeOK, tables, tasks
  <2>2. \A q \in Procs : SessionOK(sess[q])'
    BY <1>3 DEF LockExpires, TypeInv, SessionOK, HasOrder, HasStatus, HasDriver, tables
  <2> QED BY <2>1, <2>2 DEF TypeInv
<1> QED BY <1>1, <1>2, <1>3 DEF Failure

-----------------------------------------------------------------------------
(* The theorem *)

LEMMA TypeInvInit == Init => TypeInv
<1> SUFFICES ASSUME Init PROVE TypeInv
  OBVIOUS
<1> USE DEF Init, StoreInit
<1>1. Absent \in OrderRow
  BY DEF Absent, OrderRow
<1>2. NewDriver \in DriverRow /\ OnlineDriver \in DriverRow
  BY DEF NewDriver, OnlineDriver, DriverRow, DriverStatus
<1>3. TypeOK
  BY <1>1, <1>2, IdleType, StoreAssumption DEF TypeOK
<1>4. \A p \in Procs : SessionOK(sess[p])
  BY IdleOK
<1> QED BY <1>3, <1>4 DEF TypeInv

LEMMA RequestType ==
  ASSUME TypeInv, NEW p \in Procs, Request(p) PROVE TypeInv'
<1>1. ASSUME NEW o \in Orders, NEW st \in Patches, NEW d \in Named, UpdateStatus(p, o, st, d)
      PROVE  TypeInv'
  BY <1>1, UpdateStatusType, DispatchAssumption
<1>2. ASSUME NEW o \in Orders, NEW d \in Drivers, AssignFetchOrder(p, o, d) PROVE TypeInv'
  BY <1>2, AssignFetchOrderType
<1>3. ASSUME NEW o \in Orders, TriggerAssignment(p, o) PROVE TypeInv'
  BY <1>3, TriggerAssignmentType
<1>4. ASSUME NEW op \in Ops \cap {"Accept", "Reject"}, NEW o \in Orders, AnswerOffer(p, op, o)
      PROVE  TypeInv'
  BY <1>4, AnswerOfferType
<1>5. ASSUME NEW d \in Drivers, UpdateLocation(p, d) PROVE TypeInv'
  BY <1>5, UpdateLocationType
<1>6. ASSUME NEW d \in Drivers, NEW flag \in BOOLEAN, UpdateAvailability(p, d, flag)
      PROVE  TypeInv'
  BY <1>6, UpdateAvailabilityType
<1> QED BY <1>1, <1>2, <1>3, <1>4, <1>5, <1>6 DEF Request

LEMMA StepType ==
  ASSUME TypeInv, NEW p \in Procs, Step(p) PROVE TypeInv'
<1>1. CASE ReleaseDriver(p) \/ IndexDriver(p)
  BY <1>1, ReleaseDriverType, IndexDriverType
<1>2. CASE AssignFetchDriver(p) \/ AssignRefused(p) \/ Unindex(p)
  BY <1>2, AssignFetchDriverType, EndStep, UnindexType DEF AssignRefused
<1>3. CASE Retrigger(p) \/ FetchExcluded(p) \/ Discover(p) \/ Score(p)
  BY <1>3, RetriggerType, FetchExcludedType, DiscoverType, ScoreType
<1>4. ASSUME NEW d \in Drivers, AcquireLock(p, d) \/ LockFailed(p, d) PROVE TypeInv'
  BY <1>4, AcquireLockType, LockFailedType
<1>5. CASE CheckAndUnlock(p)
  BY <1>5, CheckAndUnlockType
<1>6. CASE FetchAttempt(p) \/ NoAttempt(p) \/ AcceptFetchDriver(p)
  BY <1>6, FetchAttemptType, NoAttemptType, AcceptFetchDriverType
<1>7. CASE ReloadDriver(p) \/ Reindex(p) \/ StoreDriver(p)
  BY <1>7, ReloadDriverType, ReindexType, StoreDriverType
<1>8. ASSUME NEW d \in Drivers, PurgeGhost(p, d) PROVE TypeInv'
  BY <1>8, PurgeGhostType
<1>9. CASE Commit(p) \/ Refresh(p) \/ Announce(p)
  BY <1>9, CommitType, RefreshType, AnnounceType
<1> QED BY <1>1, <1>2, <1>3, <1>4, <1>5, <1>6, <1>7, <1>8, <1>9 DEF Step

LEMMA TypeInvStep == TypeInv /\ [Next]_vars => TypeInv'
<1> SUFFICES ASSUME TypeInv, [Next]_vars PROVE TypeInv'
  OBVIOUS
<1>1. ASSUME NEW o \in Orders, CreateDelivery(o) PROVE TypeInv'
  BY <1>1, CreateDeliveryType
<1>2. ASSUME NEW p \in Procs, Request(p) \/ Step(p) PROVE TypeInv'
  BY <1>2, RequestType, StepType
<1>3. ASSUME NEW i \in timers, Timeout(i) PROVE TypeInv'
  BY <1>3, TimeoutFiresType, TimeoutMootType DEF Timeout
<1>4. CASE Sweep \/ Clock
  BY <1>4, SweepGhostsType, GrowStaleType, DispatchAssumption DEF Sweep, Clock
<1>5. CASE Failure
  BY <1>5, FailureType
<1>6. CASE UNCHANGED vars
  <2>1. UNCHANGED <<tables, redis, tasks, sess, issued>>
    BY <1>6 DEF vars
  <2>2. TypeOK'
    BY <2>1 DEF TypeInv, TypeOK, tables, redis, tasks
  <2>3. \A q \in Procs : SessionOK(sess[q])'
    BY <2>1 DEF TypeInv, SessionOK, HasOrder, HasStatus, HasDriver, tables
  <2> QED BY <2>2, <2>3 DEF TypeInv
<1> QED BY <1>1, <1>2, <1>3, <1>4, <1>5, <1>6 DEF Next

\* Whatever the handlers do at the same time and wherever they fail, each
\* column, key and session keeps to its type, and each handler finds what its
\* next await looks up: the order it loaded exists, the driver it names is not
\* NULL, and its answer refers to a row of assignment_attempts.
THEOREM TypeCorrect == Spec => []TypeInv
<1> QED BY TypeInvInit, TypeInvStep, PTL DEF Spec

\* In particular every table, key and session holds what its type allows.
THEOREM TypeOKHolds == Spec => []TypeOK
<1>1. TypeInv => TypeOK
  BY DEF TypeInv
<1> QED BY <1>1, TypeCorrect, PTL

-----------------------------------------------------------------------------
(* The driver lock of trigger_assignment: steps that leave the locks alone *)

\* The handler in slot p takes a step after which it is not at its DEL.
PassesBy(p) ==
  /\ locks' = locks
  /\ sess'[p].pc # "unlock"
  /\ \A q \in Procs \ {p} : sess'[q] = sess[q]

LEMMA LocksUntouched ==
  ASSUME LockExclusive, NEW p \in Procs, PassesBy(p) PROVE LockExclusive'
BY DEF LockExclusive, PassesBy

LEMMA RequestLocks ==
  ASSUME TypeInv, NEW p \in Procs, Request(p) PROVE PassesBy(p)
<1> USE DEF Begin, redis, PassesBy
<1>1. sess \in [Procs -> Session]
  BY DEF TypeInv, TypeOK
<1>2. ASSUME NEW o \in Orders, NEW st \in Patches, NEW d \in Named, UpdateStatus(p, o, st, d)
      PROVE  PassesBy(p)
  BY <1>2, <1>1 DEF UpdateStatus, Idle
<1>3. ASSUME NEW o \in Orders, NEW d \in Drivers, AssignFetchOrder(p, o, d)
      PROVE  PassesBy(p)
  BY <1>3, <1>1 DEF AssignFetchOrder, Idle
<1>4. ASSUME NEW o \in Orders, TriggerAssignment(p, o) PROVE PassesBy(p)
  BY <1>4, <1>1 DEF TriggerAssignment, Idle
<1>5. ASSUME NEW op, NEW o \in Orders, AnswerOffer(p, op, o) PROVE PassesBy(p)
  BY <1>5, <1>1 DEF AnswerOffer, Idle
<1>6. ASSUME NEW d \in Drivers, UpdateLocation(p, d) PROVE PassesBy(p)
  BY <1>6, <1>1 DEF UpdateLocation, Idle
<1>7. ASSUME NEW d \in Drivers, NEW flag \in BOOLEAN, UpdateAvailability(p, d, flag)
      PROVE  PassesBy(p)
  BY <1>7, <1>1 DEF UpdateAvailability, Idle
<1> QED BY <1>2, <1>3, <1>4, <1>5, <1>6, <1>7 DEF Request

-----------------------------------------------------------------------------
(* SET NX and DEL *)

\* The key was free, and whoever is at its DEL holds a key.
LEMMA AcquireLocks ==
  ASSUME TypeInv, LockExclusive, NEW p \in Procs, NEW d \in Drivers, AcquireLock(p, d)
  PROVE  LockExclusive'
<1>1. sess \in [Procs -> Session] /\ sess[p] \in Session
  BY DEF TypeInv, TypeOK
<1>2. d \notin locks /\ locks' = locks \cup {d}
  BY DEF AcquireLock
<1>3. sess'[p].pick = d /\ \A q \in Procs \ {p} : sess'[q] = sess[q]
  BY <1>1 DEF AcquireLock, Continue, Session
<1> QED BY <1>2, <1>3 DEF LockExclusive

\* What CheckAndUnlock may leave.
LEMMA NotAtUnlock ==
  ASSUME NEW s \in Session, NEW d
  PROVE  GiveUp(s).pc = "commit" /\ OfferTo(s, d).pc = "commit"
         /\ NextCandidate(s, d).pc \in {"commit", "lock"}
BY DEF GiveUp, OfferTo, NextCandidate, Session

\* DEL takes away one's own key only.
LEMMA UnlockLocks ==
  ASSUME TypeInv, LockExclusive, NEW p \in Procs, CheckAndUnlock(p)
  PROVE  LockExclusive'
<1>1. sess \in [Procs -> Session] /\ sess[p] \in Session
  BY DEF TypeInv, TypeOK
<1>2. sess[p].pc = "unlock" /\ locks' = locks \ {sess[p].pick}
  BY DEF CheckAndUnlock
<1>3. sess'[p].pc # "unlock" /\ \A q \in Procs \ {p} : sess'[q] = sess[q]
  BY <1>1, NotAtUnlock DEF CheckAndUnlock, Continue
<1>4. \A q \in Procs \ {p} :
        sess[q].pc = "unlock" => sess[q].pick \in locks /\ sess[q].pick # sess[p].pick
  BY <1>2 DEF LockExclusive
<1> QED BY <1>2, <1>3, <1>4 DEF LockExclusive

-----------------------------------------------------------------------------
(* The lock and the other awaits *)

LEMMA StepLocks ==
  ASSUME TypeInv, NEW p \in Procs, Step(p),
         ~ CheckAndUnlock(p), \A d \in Drivers : ~ AcquireLock(p, d)
  PROVE  PassesBy(p)
<1>1. sess \in [Procs -> Session] /\ sess[p] \in Session
  BY DEF TypeInv, TypeOK
<1>2. Idle.pc = "idle"
  BY DEF Idle
<1> USE DEF Continue, redis, PassesBy
<1>3. CASE ReleaseDriver(p)
  BY <1>1, <1>3 DEF ReleaseDriver, Session
<1>4. CASE IndexDriver(p)
  BY <1>1, <1>4 DEF IndexDriver, Session
<1>5. CASE AssignFetchDriver(p)
  BY <1>1, <1>5 DEF AssignFetchDriver, Session
<1>6. CASE AssignRefused(p)
  BY <1>1, <1>2, <1>6 DEF AssignRefused
<1>7. CASE Unindex(p)
  BY <1>1, <1>7 DEF Unindex, Session
<1>8. CASE Retrigger(p)
  BY <1>1, <1>8 DEF Retrigger, Session
<1>9. CASE FetchExcluded(p)
  BY <1>1, <1>9 DEF FetchExcluded, Session
<1>10. CASE Discover(p)
  <2>1. GiveUp(sess[p]).pc = "commit"
    BY <1>1, NotAtUnlock
  <2> QED BY <1>1, <1>10, <2>1 DEF Discover, Session
<1>11. CASE Score(p)
  BY <1>1, <1>11 DEF Score, Session
<1>12. ASSUME NEW d \in Drivers, LockFailed(p, d) PROVE PassesBy(p)
  <2>1. NextCandidate(sess[p], d).pc \in {"commit", "lock"}
    BY <1>1, NotAtUnlock
  <2> QED BY <1>1, <1>12, <2>1 DEF LockFailed
<1>13. CASE FetchAttempt(p) \/ NoAttempt(p)
  <2>1. \A i : WithAttempt(sess[p], i).pc \in {"driver", "commit"}
    BY <1>1 DEF WithAttempt, Session
  <2>2. PICK i : sess' = [sess EXCEPT ![p] = WithAttempt(sess[p], i)]
    BY <1>13 DEF FetchAttempt, NoAttempt
  <2>3. locks' = locks
    BY <1>13 DEF FetchAttempt, NoAttempt
  <2> QED BY <1>1, <2>1, <2>2, <2>3
<1>14. CASE AcceptFetchDriver(p)
  BY <1>1, <1>14 DEF AcceptFetchDriver, Session
<1>15. CASE ReloadDriver(p)
  BY ZenonT(40), <1>1, <1>15 DEF ReloadDriver, Session
<1>16. CASE Reindex(p)
  BY <1>1, <1>16 DEF Reindex, Session
<1>17. CASE StoreDriver(p)
  BY <1>1, <1>2, <1>17 DEF StoreDriver
<1>18. ASSUME NEW d \in Drivers, PurgeGhost(p, d) PROVE PassesBy(p)
  BY <1>1, <1>18 DEF PurgeGhost, Session
<1>19. CASE Commit(p)
  BY <1>1, <1>19 DEF Commit, Session
<1>20. CASE Refresh(p)
  BY <1>1, <1>20 DEF Refresh, Session
<1>21. CASE Announce(p)
  BY <1>1, <1>2, <1>21 DEF Announce
<1> QED BY <1>3, <1>4, <1>5, <1>6, <1>7, <1>8, <1>9, <1>10, <1>11, <1>12, <1>13, <1>14,
           <1>15, <1>16, <1>17, <1>18, <1>19, <1>20, <1>21
        DEF Step

-----------------------------------------------------------------------------
(* The theorem about the lock *)

\* Without failures, in particular without a lock that expires while its handler
\* is between SET NX and DEL, a driver's lock is held by one handler at a time,
\* for any number of handlers and candidates: a handler that skips a locked
\* driver never deletes a key it did not set.
THEOREM LockExclusiveHolds ==
  ASSUME ~ Faults
  PROVE  Spec => []LockExclusive
<1>1. Init => LockExclusive
  BY DEF Init, StoreInit, Idle, LockExclusive
<1>2. TypeInv /\ LockExclusive /\ [Next]_vars => LockExclusive'
  <2> SUFFICES ASSUME TypeInv, LockExclusive, [Next]_vars PROVE LockExclusive'
    OBVIOUS
  <2>8. sess \in [Procs -> Session]
    BY DEF TypeInv, TypeOK
  <2>1. ASSUME NEW o \in Orders, CreateDelivery(o) PROVE LockExclusive'
    BY <2>1 DEF CreateDelivery, redis, LockExclusive
  <2>2. ASSUME NEW p \in Procs, Request(p) \/ Step(p) PROVE LockExclusive'
    BY <2>2, RequestLocks, StepLocks, LocksUntouched, AcquireLocks, UnlockLocks
  <2>3. ASSUME NEW i \in timers, Timeout(i) PROVE LockExclusive'
    <3>1. CASE TimeoutMoot(i)
      BY <3>1 DEF TimeoutMoot, redis, LockExclusive
    <3>2. ASSUME NEW p \in Procs, TimeoutFires(p, i) PROVE LockExclusive'
      <4>1. PassesBy(p)
        BY <2>8, <3>2 DEF TimeoutFires, Continue, redis, Idle, PassesBy
      <4> QED BY <4>1, LocksUntouched
    <3> QED BY <2>3, <3>1, <3>2 DEF Timeout
  <2>4. CASE Sweep
    <3>1. PICK p \in Procs : SweepGhosts(p)
      BY <2>4 DEF Sweep
    <3>2. PassesBy(p)
      BY <2>8, <3>1 DEF SweepGhosts, Continue, redis, Idle, PassesBy
    <3> QED BY <3>2, LocksUntouched
  <2>5. CASE Clock
    BY <2>5 DEF Clock, GrowStale, redis, LockExclusive
  <2>6. ~ Failure
    BY DEF Failure, Abort, LoseTimer, LockExpires
  <2>7. CASE UNCHANGED vars
    BY <2>7 DEF vars, redis, LockExclusive
  <2> QED BY <2>1, <2>2, <2>3, <2>4, <2>5, <2>6, <2>7 DEF Next
<1> QED BY TypeCorrect, <1>1, <1>2, PTL DEF Spec
=============================================================================
