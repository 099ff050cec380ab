---------------------------- MODULE SerialProofs ----------------------------
(***************************************************************************)
(* The dispatch core where handlers overlap only if they are apart, for    *)
(* every number of slots, orders, drivers and requests: what the code      *)
(* keeps as long as no two handlers in progress work on the same order or  *)
(* write the same driver, and what the other interleavings take from it.   *)
(***************************************************************************)
EXTENDS AuditProofs

-----------------------------------------------------------------------------
(* The inductive invariant *)

SearchPc == {"excluded", "search", "score", "lock", "unlock"}
DriverPc == {"reload", "reindex", "purge", "store"}
DriverOp == {"Ping", "Availability", "Sweep"}

\* The session has loaded its order and not changed it, has changed it and not
\* written it, has written it.
Before(s)  == s.pc \in SearchPc \cup {"order", "attempt"} \/ (s.pc = "driver" /\ s.op # "Patch")
Changed(s) == s.pc \in {"index", "unindex", "commit"} \/ (s.pc = "driver" /\ s.op = "Patch")
After(s)   == s.pc \in {"refresh", "announce"}

\* The change a handler brings to its commit, and the rows that record it.
PlanPatch(s) ==
  /\ s.st \in Patches
  /\ ValidTransition(s.was.status, s.st)
  /\ \E d \in Named : s.now = Patched(s.was, s.st, d)
  /\ s.rows = PatchTrail(s.was.status, s.st)

PlanAssigned(s) ==
  /\ ValidTransition(s.was.status, "ASSIGNED")
  /\ s.now.status = "ASSIGNED" /\ s.now.driver \in Drivers \cup {s.was.driver}
  /\ s.rows = << <<s.was.status, "ASSIGNED">> >>

\* The outcome of a search: a driver, or nobody.
Outcome(d) == IF d = NoDriver THEN "NO_DRIVER_AVAILABLE" ELSE "DRIVER_PENDING"

PlanSearch(s) ==
  /\ ValidTransition(s.was.status, "DRIVER_PENDING")
  /\ s.now = [status |-> Outcome(s.pick), driver |-> s.pick]
  /\ s.rows = << <<s.was.status, Outcome(s.pick)>> >>

Plan(s) ==
  \/ s.op = "Patch" /\ PlanPatch(s)
  \/ s.op \in {"Assign", "Accept"} /\ PlanAssigned(s)
  \/ s.op = "Trigger" /\ PlanSearch(s)
  \/ s.op \in {"Reject", "Timeout"} /\ s.pc = "commit" /\ s.now = s.was /\ s.rows = <<>>

\* What its commit has left in the tables.
Stored(s) ==
  \/ s.op = "Patch"
  \/ s.op \in {"Assign", "Accept"} /\ orders[s.o].status = "ASSIGNED"
  \/ /\ s.op = "Trigger"
     /\ orders[s.o] = [status |-> Outcome(s.pick), driver |-> s.pick]
     /\ s.pick # NoDriver =>
          /\ s.att \in DOMAIN attempts
          /\ attempts[s.att].order = s.o /\ attempts[s.att].driver = s.pick

\* The loaded copies are the stored rows until the session commits.
SerialOK(s) ==
  /\ Before(s) => s.was = orders[s.o] /\ s.now = s.was /\ s.rows = <<>>
  /\ Changed(s) => s.was = orders[s.o] /\ Plan(s)
  /\ After(s) => Stored(s)
  /\ s.pc = "announce" => s.now = orders[s.o]
  /\ s.att # 0 /\ s.mark # "OFFERED" =>
       attempts[s.att].status = "OFFERED" /\ attempts[s.att].order = s.o
  /\ s.pc \in SearchPc => s.op = "Trigger"
  /\ s.pc = "order" => s.op \in {"Reject", "Timeout"}
  /\ s.pc \in DriverPc => s.op \in DriverOp
  /\ s.pc \in DriverPc \cup {"idle"} => s.att = 0

\* AuditChained, for one order.
Linked(rows) == \A i \in 1 .. Len(rows) - 1 : rows[i + 1][1] = rows[i][2]
EndsIn(rows, st) == rows # <<>> => rows[Len(rows)][2] = st
Chained(o) == Linked(audit[o]) /\ EndsIn(audit[o], orders[o].status)

\* What the step of slot q starts from, and the whole.
SerialInv(q) == CoverInv /\ SerialOK(sess[q]) /\ \A o \in Orders : Chained(o)

ApartInv ==
  /\ CoverInv /\ Apart
  /\ \A p \in Procs : SerialOK(sess[p])
  /\ \A o \in Orders : Chained(o)

-----------------------------------------------------------------------------
(* The kinds of step that write neither orders nor attempts *)

Same(s, t) == t.o = s.o /\ t.was = s.was /\ t.att = s.att /\ t.mark = s.mark

\* A request or a timer loads its order ...
Opens(s, t) ==
  /\ s.pc = "idle" /\ t.was = orders[t.o] /\ t.now = t.was /\ t.rows = <<>> /\ t.att = 0
  /\ \/ t.pc = "driver" /\ t.op = "Assign"
     \/ t.pc = "excluded" /\ t.op = "Trigger"
     \/ t.pc = "attempt" /\ t.op \in {"Accept", "Reject", "Timeout"}

\* ... update_status changes it with the same step.
OpensPatch(s, t) ==
  /\ s.pc = "idle" /\ t.was = orders[t.o] /\ t.att = 0
  /\ t.op = "Patch" /\ t.pc \in {"driver", "commit"} /\ PlanPatch(t)

Searches(s, t) ==
  /\ Same(s, t) /\ s.pc \in SearchPc \cup {"order"}
  /\ t.pc \in SearchPc /\ t.op = "Trigger" /\ t.now = s.now /\ t.rows = s.rows

Finds(s, t) ==
  Same(s, t) /\ s.pc \in SearchPc /\ t.pc = "commit" /\ t.op = s.op /\ PlanSearch(t)

Onward(s, t) ==
  /\ Same(s, t) /\ s.pc # "commit" /\ Changed(s) /\ t.pc \in {"index", "commit"}
  /\ t.op = s.op /\ t.st = s.st /\ t.now = s.now /\ t.rows = s.rows /\ t.pick = s.pick

Takes(s, t) ==
  /\ Same(s, t) /\ s.pc = "driver" /\ s.op \in {"Assign", "Accept"}
  /\ t.op = s.op /\ t.pc = "unindex" /\ PlanAssigned(t)

Answers(s, t) ==
  /\ s.pc = "attempt" /\ s.op \in {"Accept", "Reject", "Timeout"}
  /\ t.o = s.o /\ t.was = s.was /\ t.op = s.op /\ t.now = s.now /\ t.rows = s.rows
  /\ t.pc = IF s.op = "Accept" THEN "driver" ELSE "commit"
  /\ t.att = 0 \/ (attempts[t.att].status = "OFFERED" /\ attempts[t.att].order = s.o)

Drives(s, t) ==
  /\ s.pc \in DriverPc \cup {"idle"} /\ t.pc \in DriverPc
  /\ \/ s.pc \in DriverPc /\ t.op = s.op /\ t.att = s.att /\ t.mark = s.mark
     \/ t.op \in DriverOp /\ t.att = 0

Ends(s, t) == t = Idle /\ (s.pc = "store" \/ (s.pc = "driver" /\ s.op = "Assign"))

Effect(s, t) ==
  \/ Opens(s, t) \/ OpensPatch(s, t) \/ Searches(s, t) \/ Finds(s, t) \/ Onward(s, t)
  \/ Takes(s, t) \/ Answers(s, t) \/ Drives(s, t) \/ Ends(s, t)

Unwritten == UNCHANGED <<orders, attempts, audit, channel, events>>

LEMMA EffectKeeps ==
  ASSUME NEW s, NEW t, SerialOK(s), Effect(s, t) PROVE SerialOK(t)
<1> USE DEF SerialOK, Same, Before, Changed, After, SearchPc, DriverPc, DriverOp
<1>1. CASE Opens(s, t)
  BY <1>1 DEF Opens
<1>2. CASE OpensPatch(s, t)
  BY <1>2 DEF OpensPatch, Plan
<1>3. CASE Searches(s, t)
  BY <1>3 DEF Searches
<1>4. CASE Finds(s, t)
  BY <1>4 DEF Finds, Plan
<1>5. CASE Onward(s, t)
  <2>1. Plan(s)
    BY <1>5 DEF Onward
  <2>2. Plan(t)
    BY <1>5, <2>1 DEF Onward, Plan, PlanPatch, PlanAssigned, PlanSearch
  <2> QED BY <1>5, <2>2 DEF Onward
<1>6. CASE Takes(s, t)
  BY <1>6 DEF Takes, Plan
<1>7. CASE Answers(s, t)
  BY <1>7 DEF Answers, Plan
<1>8. CASE Drives(s, t)
  BY <1>8 DEF Drives
<1>9. CASE Ends(s, t)
  BY <1>9 DEF Ends, Idle
<1> QED BY <1>1, <1>2, <1>3, <1>4, <1>5, <1>6, <1>7, <1>8, <1>9 DEF Effect

-----------------------------------------------------------------------------
(* Which step is of which kind *)

LEMMA Slot ==
  ASSUME TypeInv, NEW q \in Procs, NEW t, Begin(q, t) \/ Continue(q, t)
  PROVE  sess'[q] = t
BY DEF TypeInv, TypeOK, Begin, Continue

LEMMA RequestEffect ==
  ASSUME TrailInv, NEW q \in Procs, Request(q)
  PROVE  Unwritten /\ UNCHANGED timers /\ Effect(sess[q], sess'[q])
<1> DEFINE Goal == Unwritten /\ UNCHANGED timers /\ Effect(sess[q], sess'[q])
<1> USE DEF Unwritten, tables, redis, tasks
<1> TypeInv
  BY DEF TrailInv
<1>1. ASSUME NEW o \in Orders, NEW st \in Patches, NEW d \in Named, UpdateStatus(q, o, st, d)
      PROVE  Goal
  <2> DEFINE row == orders[o]
             now == Patched(row, st, d)
             pc == IF Releases(st, now.driver) THEN "driver" ELSE "commit"
             rows == PatchTrail(row.status, st)
             t == [Idle EXCEPT !.pc = pc, !.op = "Patch", !.o = o, !.st = st, !.was = row,
                               !.now = now, !.rows = rows]
  <2>1. /\ Begin(q, t) /\ sess[q].pc = "idle" /\ ValidTransition(row.status, st)
        /\ Unwritten /\ UNCHANGED timers
    BY <1>1 DEF UpdateStatus, Begin
  <2>2. pc \in {"driver", "commit"}
    OBVIOUS
  <2> HIDE DEF row, now, pc, rows
  <2>3. /\ t.pc = pc /\ t.op = "Patch" /\ t.o = o /\ t.st = st /\ t.was = row /\ t.now = now
        /\ t.rows = rows /\ t.att = 0
    BY DEF Idle
  <2>4. sess'[q] = t
    BY <2>1, Slot
  <2> HIDE DEF t
  <2>5. OpensPatch(sess[q], t)
    BY <1>1, <2>1, <2>2, <2>3 DEF OpensPatch, PlanPatch, row, now, rows
  <2> QED BY <2>1, <2>4, <2>5 DEF Effect
<1>2. ASSUME NEW o \in Orders, NEW d \in Drivers, AssignFetchOrder(q, o, d) PROVE Goal
  <2> DEFINE t == [Idle EXCEPT !.pc = "driver", !.op = "Assign", !.o = o, !.ask = d,
                               !.was = orders[o], !.now = orders[o]]
  <2>1. Begin(q, t) /\ sess[q].pc = "idle" /\ Unwritten /\ UNCHANGED timers
    BY <1>2 DEF AssignFetchOrder, Begin
  <2>2. Opens(sess[q], t)
    BY <2>1 DEF Opens, Idle
  <2> HIDE DEF t
  <2> QED BY <2>1, <2>2, Slot DEF Effect
<1>3. ASSUME NEW o \in Orders, TriggerAssignment(q, o) PROVE Goal
  <2> DEFINE t == [Idle EXCEPT !.pc = "excluded", !.op = "Trigger", !.o = o,
                               !.was = orders[o], !.now = orders[o]]
  <2>1. Begin(q, t) /\ sess[q].pc = "idle" /\ Unwritten /\ UNCHANGED timers
    BY <1>3 DEF TriggerAssignment, Begin
  <2>2. Opens(sess[q], t)
    BY <2>1 DEF Opens, Idle
  <2> HIDE DEF t
  <2> QED BY <2>1, <2>2, Slot DEF Effect
<1>4. ASSUME NEW op \in {"Accept", "Reject"}, NEW o \in Orders, AnswerOffer(q, op, o)
      PROVE  Goal
  <2> DEFINE t == [Idle EXCEPT !.pc = "attempt", !.op = op, !.o = o, !.ask = orders[o].driver,
                               !.was = orders[o], !.now = orders[o]]
  <2>1. Begin(q, t) /\ sess[q].pc = "idle" /\ Unwritten /\ UNCHANGED timers
    BY <1>4 DEF AnswerOffer, Begin
  <2>2. Opens(sess[q], t)
    BY <2>1 DEF Opens, Idle
  <2> HIDE DEF t
  <2> QED BY <2>1, <2>2, Slot DEF Effect
<1>5. ASSUME NEW d \in Drivers, UpdateLocation(q, d) PROVE Goal
  <2> DEFINE t == [Idle EXCEPT !.pc = "reload", !.op = "Ping", !.ask = d]
  <2>1. Begin(q, t) /\ sess[q].pc = "idle" /\ Unwritten /\ UNCHANGED timers
    BY <1>5 DEF UpdateLocation, Begin
  <2>2. Drives(sess[q], t)
    BY <2>1 DEF Drives, DriverPc, DriverOp, Idle
  <2> HIDE DEF t
  <2> QED BY <2>1, <2>2, Slot DEF Effect
<1>6. ASSUME NEW d \in Drivers, NEW flag \in BOOLEAN, UpdateAvailability(q, d, flag)
      PROVE  Goal
  <2> DEFINE f == [Idle.drv EXCEPT ![d] = drivers[d]]
             g == [Idle.dnow EXCEPT ![d] = [drivers[d] EXCEPT !.available = flag]]
             t == [Idle EXCEPT !.pc = "reindex", !.op = "Availability", !.ask = d,
                               !.drv = f, !.dnow = g]
  <2>1. Begin(q, t) /\ sess[q].pc = "idle" /\ Unwritten /\ UNCHANGED timers
    BY <1>6 DEF UpdateAvailability, Begin
  <2> HIDE DEF f, g
  <2>2. Drives(sess[q], t)
    BY <2>1 DEF Drives, DriverPc, DriverOp, Idle
  <2> HIDE DEF t
  <2> QED BY <2>1, <2>2, Slot DEF Effect
<1> QED BY <1>1, <1>2, <1>3, <1>4, <1>5, <1>6 DEF Request

LEMMA TimerEffect ==
  ASSUME TrailInv, NEW q \in Procs, NEW i \in timers, TimeoutFires(q, i)
  PROVE  Unwritten /\ Effect(sess[q], sess'[q])
<1> DEFINE a == attempts[i]
           row == orders[a.order]
           t == [Idle EXCEPT !.pc = "attempt", !.op = "Timeout", !.o = a.order,
                             !.ask = a.driver, !.was = row, !.now = row]
<1>1. Continue(q, t) /\ sess[q].pc = "idle" /\ Unwritten
  BY DEF TimeoutFires, Unwritten, tables, redis
<1>2. Opens(sess[q], t)
  BY <1>1 DEF Opens, Idle
<1> HIDE DEF t
<1> QED BY <1>1, <1>2, Slot DEF Effect, TrailInv

LEMMA SweepEffect ==
  ASSUME TrailInv, NEW q \in Procs, SweepGhosts(q)
  PROVE  Unwritten /\ UNCHANGED timers /\ Effect(sess[q], sess'[q])
<1>1. PICK f, g : Continue(q, [Idle EXCEPT !.pc = "purge", !.op = "Sweep", !.cand = Ghosts,
                                           !.drv = f, !.dnow = g])
  BY DEF SweepGhosts
<1> DEFINE t == [Idle EXCEPT !.pc = "purge", !.op = "Sweep", !.cand = Ghosts,
                             !.drv = f, !.dnow = g]
<1>2. sess[q].pc = "idle" /\ Unwritten /\ UNCHANGED timers
  BY DEF SweepGhosts, Unwritten, tables, redis, tasks
<1>3. Drives(sess[q], t)
  BY <1>2 DEF Drives, DriverPc, DriverOp, Idle
<1>4. Continue(q, t)
  BY <1>1
<1> HIDE DEF t
<1> QED BY <1>2, <1>3, <1>4, Slot DEF Effect, TrailInv

\* The step of a handler that changes its session and no row.
LEMMA SessionEffect ==
  ASSUME TrailInv, NEW q \in Procs, NEW t, Continue(q, t), UNCHANGED <<tables, channel, tasks>>,
         Effect(sess[q], t)
  PROVE  Unwritten /\ UNCHANGED timers /\ Effect(sess[q], sess'[q])
BY Slot DEF TrailInv, Unwritten, tables, tasks

LEMMA ChangeEffect ==
  ASSUME TrailInv, NEW q \in Procs,
         \/ ReleaseDriver(q) \/ IndexDriver(q) \/ Unindex(q)
         \/ AssignFetchDriver(q) \/ AssignRefused(q) \/ AcceptFetchDriver(q),
         SerialOK(sess[q])
  PROVE  Unwritten /\ UNCHANGED timers /\ Effect(sess[q], sess'[q])
<1> DEFINE s == sess[q]
           Goal == Unwritten /\ UNCHANGED timers /\ Effect(sess[q], sess'[q])
<1> USE DEF redis
<1>0. s \in Session /\ SessionOK(s) /\ TrailOK(s)
  BY TrailFacts
<1>1. CASE ReleaseDriver(q)
  <2> DEFINE d == s.now.driver
             row == drivers[d]
             pc == IF row.located THEN "index" ELSE "commit"
             f == [s.drv EXCEPT ![d] = row]
             g == [s.dnow EXCEPT ![d] = [row EXCEPT !.status = "ONLINE", !.available = TRUE]]
             t == [s EXCEPT !.pc = pc, !.drv = f, !.dnow = g]
  <2>1. /\ s.pc = "driver" /\ s.op = "Patch" /\ Continue(q, t)
        /\ UNCHANGED <<tables, channel, tasks>>
    BY <1>1 DEF ReleaseDriver
  <2>2. pc \in {"index", "commit"}
    OBVIOUS
  <2> HIDE DEF f, g, pc, row, d
  <2>3. Onward(s, t)
    BY <1>0, <2>1, <2>2 DEF Onward, Same, Changed, Session
  <2> HIDE DEF t
  <2> QED BY <2>1, <2>3, SessionEffect DEF Effect
<1>2. CASE IndexDriver(q) \/ Unindex(q)
  <2> DEFINE t == [s EXCEPT !.pc = "commit"]
  <2>1. s.pc \in {"index", "unindex"} /\ Continue(q, t) /\ UNCHANGED <<tables, channel, tasks>>
    BY <1>2 DEF IndexDriver, Unindex
  <2>2. /\ Same(s, t) /\ t.pc = "commit" /\ t.op = s.op /\ t.st = s.st /\ t.now = s.now
        /\ t.rows = s.rows /\ t.pick = s.pick
    BY <1>0 DEF Same, Session
  <2> HIDE DEF t
  <2>3. Onward(s, t)
    BY <2>1, <2>2 DEF Onward, Changed
  <2> QED BY <2>1, <2>3, SessionEffect DEF Effect
<1>3. CASE AssignFetchDriver(q)
  <2> DEFINE d == s.ask
             now == [status |-> "ASSIGNED", driver |-> d]
             f == [s.drv EXCEPT ![d] = drivers[d]]
             g == [s.dnow EXCEPT ![d] = [drivers[d] EXCEPT !.status = "BUSY"]]
             rows == << <<s.was.status, "ASSIGNED">> >>
             t == [s EXCEPT !.pc = "unindex", !.st = "ASSIGNED", !.now = now,
                            !.drv = f, !.dnow = g, !.rows = rows]
  <2>1. /\ s.pc = "driver" /\ s.op = "Assign" /\ Continue(q, t)
        /\ ValidTransition(s.was.status, "ASSIGNED") /\ UNCHANGED <<tables, channel, tasks>>
    BY <1>3 DEF AssignFetchDriver
  <2>2. now.status = "ASSIGNED" /\ now.driver \in Drivers
    BY <1>0, <2>1 DEF SessionOK, HasDriver
  <2> HIDE DEF f, g, now, rows, d
  <2>3. Takes(s, t)
    BY <1>0, <2>1, <2>2 DEF Takes, Same, PlanAssigned, Session, rows
  <2> HIDE DEF t
  <2> QED BY <2>1, <2>3, SessionEffect DEF Effect
<1>4. CASE AssignRefused(q)
  <2>1. Ends(s, Idle) /\ Continue(q, Idle) /\ UNCHANGED <<tables, channel, tasks>>
    BY <1>4 DEF AssignRefused, Ends
  <2> QED BY <2>1, SessionEffect DEF Effect
<1>5. CASE AcceptFetchDriver(q)
  <2> DEFINE d == s.ask
             now == [s.now EXCEPT !.status = "ASSIGNED"]
             f == [s.drv EXCEPT ![d] = drivers[d]]
             g == [s.dnow EXCEPT ![d] = [drivers[d] EXCEPT !.status = "BUSY"]]
             rows == << <<s.was.status, "ASSIGNED">> >>
             t == [s EXCEPT !.pc = "unindex", !.st = "ASSIGNED", !.now = now,
                            !.drv = f, !.dnow = g, !.rows = rows]
  <2>1. /\ s.pc = "driver" /\ s.op = "Accept" /\ Continue(q, t)
        /\ UNCHANGED <<tables, channel, tasks>>
    BY <1>5 DEF AcceptFetchDriver
  <2>2. ValidTransition(s.was.status, "ASSIGNED")
    BY <1>0, <2>1 DEF TrailOK, Entitled, ValidTransition, VALID_TRANSITIONS
  <2>3. now.status = "ASSIGNED" /\ now.driver = s.was.driver
    BY <1>0, <2>1 DEF SerialOK, Before, Session, OrderRow
  <2> HIDE DEF f, g, now, rows, d
  <2>4. Takes(s, t)
    BY <1>0, <2>1, <2>2, <2>3 DEF Takes, Same, PlanAssigned, Session, rows
  <2> HIDE DEF t
  <2> QED BY <2>1, <2>4, SessionEffect DEF Effect
<1> QED BY <1>1, <1>2, <1>3, <1>4, <1>5

\* A search that ends, with a driver or without.
LEMMA FoundEffect ==
  ASSUME NEW s \in Session, s.pc \in SearchPc, s.op = "Trigger",
         ValidTransition(s.was.status, "DRIVER_PENDING")
  PROVE  Finds(s, GiveUp(s)) /\ \A d \in Drivers : Finds(s, OfferTo(s, d))
<1>1. Finds(s, GiveUp(s))
  BY DEF Finds, Same, GiveUp, PlanSearch, Outcome, Session
<1>2. ASSUME NEW d \in Drivers PROVE Finds(s, OfferTo(s, d))
  BY StoreAssumption DEF Finds, Same, OfferTo, PlanSearch, Outcome, Session
<1> QED BY <1>1, <1>2

LEMMA SearchEffect ==
  ASSUME TrailInv, NEW q \in Procs, SerialOK(sess[q]),
         \/ Retrigger(q) \/ FetchExcluded(q) \/ Discover(q) \/ Score(q) \/ CheckAndUnlock(q)
         \/ \E d \in Drivers : AcquireLock(q, d) \/ LockFailed(q, d)
  PROVE  Unwritten /\ UNCHANGED timers /\ Effect(sess[q], sess'[q])
<1> DEFINE s == sess[q]
<1> USE DEF redis, SearchPc
<1>0. s \in Session /\ SessionOK(s) /\ TrailOK(s)
  BY TrailFacts
<1>1. UNCHANGED <<tables, channel, tasks>>
  BY DEF Retrigger, FetchExcluded, Discover, Score, CheckAndUnlock, AcquireLock, LockFailed
<1>2. s.pc \in SearchPc =>
        s.op = "Trigger" /\ Finds(s, GiveUp(s)) /\ \A d \in Drivers : Finds(s, OfferTo(s, d))
  BY <1>0, FoundEffect DEF SerialOK, TrailOK, Entitled
<1>3. ASSUME s.pc \in SearchPc, NEW d
      PROVE  Finds(s, NextCandidate(s, d)) \/ Searches(s, NextCandidate(s, d))
  <2>1. CASE s.cand = {d}
    BY <1>2, <1>3, <2>1 DEF NextCandidate
  <2>2. CASE s.cand # {d}
    <3> DEFINE c == s.cand \ {d}
               t == [s EXCEPT !.pc = "lock", !.pick = NoDriver, !.cand = c]
    <3> HIDE DEF c
    <3>1. Searches(s, t)
      BY <1>0, <1>2, <1>3 DEF Searches, Same, Session
    <3>2. NextCandidate(s, d) = t
      BY <2>2 DEF NextCandidate, c
    <3> QED BY <3>1, <3>2
  <2> QED BY <2>1, <2>2
<1>4. \E t : Continue(q, t) /\ (Searches(s, t) \/ Finds(s, t))
  <2>1. CASE Retrigger(q)
    <3> DEFINE t == [s EXCEPT !.pc = "excluded", !.op = "Trigger"]
    <3>1. Continue(q, t) /\ s.pc = "order"
      BY <2>1 DEF Retrigger
    <3>2. Searches(s, t)
      BY <1>0, <3>1 DEF Searches, Same, Session
    <3> QED BY <3>1, <3>2
  <2>2. CASE FetchExcluded(q)
    <3>1. PICK e : Continue(q, [s EXCEPT !.pc = "search", !.excl = e]) /\ s.pc = "excluded"
      BY <2>2 DEF FetchExcluded
    <3> DEFINE t == [s EXCEPT !.pc = "search", !.excl = e]
    <3>2. Searches(s, t)
      BY <1>0, <1>2, <3>1 DEF Searches, Same, Session
    <3> QED BY <3>1, <3>2
  <2>3. CASE Discover(q)
    <3> DEFINE found == (geo \cap InRange[s.o]) \ s.excl
               t == [s EXCEPT !.pc = "score", !.cand = found, !.excl = {}]
    <3>1. s.pc = "search" /\ Continue(q, IF found = {} THEN GiveUp(s) ELSE t)
      BY <2>3 DEF Discover
    <3> HIDE DEF found
    <3>2. Searches(s, t)
      BY <1>0, <1>2, <3>1 DEF Searches, Same, Session
    <3> HIDE DEF t
    <3>3. Finds(s, GiveUp(s))
      BY <1>2, <3>1
    <3>4. CASE found = {}
      BY <3>1, <3>3, <3>4
    <3>5. CASE found # {}
      BY <3>1, <3>2, <3>5
    <3> QED BY <3>4, <3>5
  <2>4. CASE Score(q)
    <3> DEFINE f == [d \in Drivers |-> IF d \in s.cand THEN drivers[d] ELSE NewDriver]
               t == [s EXCEPT !.pc = "lock", !.drv = f, !.dnow = f]
    <3>1. s.pc = "score" /\ Continue(q, t)
      BY <2>4 DEF Score
    <3> HIDE DEF f
    <3>2. Searches(s, t)
      BY <1>0, <1>2, <3>1 DEF Searches, Same, Session
    <3> QED BY <3>1, <3>2
  <2>5. ASSUME NEW d \in Drivers, AcquireLock(q, d)
        PROVE  \E t : Continue(q, t) /\ (Searches(s, t) \/ Finds(s, t))
    <3> DEFINE t == [s EXCEPT !.pc = "unlock", !.pick = d]
    <3>1. s.pc = "lock" /\ Continue(q, t)
      BY <2>5 DEF AcquireLock
    <3>2. Searches(s, t)
      BY <1>0, <1>2, <3>1 DEF Searches, Same, Session
    <3> QED BY <3>1, <3>2
  <2>6. ASSUME NEW d \in Drivers, LockFailed(q, d)
        PROVE  \E t : Continue(q, t) /\ (Searches(s, t) \/ Finds(s, t))
    <3>1. s.pc = "lock" /\ Continue(q, NextCandidate(s, d))
      BY <2>6 DEF LockFailed
    <3> QED BY <1>3, <3>1
  <2>7. CASE CheckAndUnlock(q)
    <3> DEFINE d == s.pick
               ok == s.drv[d].status = "ONLINE" /\ s.drv[d].available
    <3>1. s.pc = "unlock" /\ Continue(q, IF ok THEN OfferTo(s, d) ELSE NextCandidate(s, d))
      BY <2>7 DEF CheckAndUnlock
    <3>2. Finds(s, OfferTo(s, d))
      BY <1>0, <1>2, <3>1 DEF SessionOK, HasDriver
    <3>3. Finds(s, NextCandidate(s, d)) \/ Searches(s, NextCandidate(s, d))
      BY <1>3, <3>1
    <3> HIDE DEF ok
    <3>4. CASE ok
      BY <3>1, <3>2, <3>4
    <3>5. CASE ~ ok
      BY <3>1, <3>3, <3>5
    <3> QED BY <3>4, <3>5
  <2> QED BY <2>1, <2>2, <2>3, <2>4, <2>5, <2>6, <2>7
<1> QED BY <1>1, <1>4, SessionEffect DEF Effect

LEMMA AttemptEffect ==
  ASSUME TrailInv, NEW q \in Procs, SerialOK(sess[q]), FetchAttempt(q) \/ NoAttempt(q)
  PROVE  Unwritten /\ UNCHANGED timers /\ Effect(sess[q], sess'[q])
<1> DEFINE s == sess[q]
<1>0. s \in Session /\ SessionOK(s)
  BY TrailFacts
<1>1. /\ s.pc = "attempt" /\ UNCHANGED <<tables, channel, tasks>>
      /\ s.op \in {"Accept", "Reject", "Timeout"}
  BY <1>0 DEF FetchAttempt, NoAttempt, redis, SessionOK, HasDriver
<1>2. PICK i : /\ Continue(q, WithAttempt(s, i))
               /\ i = 0 \/ (attempts[i].status = "OFFERED" /\ attempts[i].order = s.o)
  BY DEF FetchAttempt, NoAttempt, Offered
<1> DEFINE pc == IF s.op = "Accept" THEN "driver" ELSE "commit"
           t == [s EXCEPT !.att = i, !.mark = AnswerOf(s.op), !.pc = pc]
<1>3. t = WithAttempt(s, i)
  BY DEF WithAttempt
<1> HIDE DEF pc
<1>4. /\ t.o = s.o /\ t.was = s.was /\ t.op = s.op /\ t.now = s.now /\ t.rows = s.rows
      /\ t.pc = pc /\ t.att = i
  BY <1>0 DEF Session
<1> HIDE DEF t
<1>5. Answers(s, t)
  BY <1>1, <1>2, <1>4 DEF Answers, pc
<1> QED BY <1>1, <1>2, <1>3, <1>5, SessionEffect DEF Effect

LEMMA DriverEffect ==
  ASSUME TrailInv, NEW q \in Procs, SerialOK(sess[q]),
         \/ ReloadDriver(q) \/ Reindex(q) \/ StoreDriver(q)
         \/ \E d \in Drivers : PurgeGhost(q, d)
  PROVE  Unwritten /\ UNCHANGED timers /\ Effect(sess[q], sess'[q])
<1> DEFINE s == sess[q]
<1> USE DEF DriverPc
<1>0. s \in Session
  BY TrailFacts
<1>1. Unwritten /\ UNCHANGED timers
  BY DEF ReloadDriver, Reindex, StoreDriver, PurgeGhost, redis, tables, tasks, Unwritten
<1>2. CASE ReloadDriver(q)
  <2>1. PICK f, g : Continue(q, [s EXCEPT !.pc = "reindex", !.drv = f, !.dnow = g])
    BY <1>2 DEF ReloadDriver
  <2> DEFINE t == [s EXCEPT !.pc = "reindex", !.drv = f, !.dnow = g]
  <2>2. Continue(q, t) /\ s.pc = "reload"
    BY <1>2, <2>1 DEF ReloadDriver
  <2>3. Drives(s, t)
    BY <1>0, <2>2 DEF Drives, Session
  <2> HIDE DEF t
  <2> QED BY <1>1, <2>2, <2>3, Slot DEF Effect, TrailInv
<1>3. CASE Reindex(q)
  <2> DEFINE t == [s EXCEPT !.pc = "store"]
  <2>1. Continue(q, t) /\ s.pc = "reindex"
    BY <1>3 DEF Reindex
  <2>2. Drives(s, t)
    BY <1>0, <2>1 DEF Drives, Session
  <2> HIDE DEF t
  <2> QED BY <1>1, <2>1, <2>2, Slot DEF Effect, TrailInv
<1>4. CASE StoreDriver(q)
  <2>1. Continue(q, Idle) /\ Ends(s, Idle)
    BY <1>4 DEF StoreDriver, Ends
  <2> QED BY <1>1, <2>1, Slot DEF Effect, TrailInv
<1>5. ASSUME NEW d \in Drivers, PurgeGhost(q, d) PROVE Effect(sess[q], sess'[q])
  <2> DEFINE c == s.cand \ {d}
             pc == IF s.cand = {d} THEN "store" ELSE "purge"
             t == [s EXCEPT !.cand = c, !.pc = pc]
  <2>1. Continue(q, t) /\ s.pc = "purge"
    BY <1>5 DEF PurgeGhost
  <2>2. pc \in {"store", "purge"}
    OBVIOUS
  <2> HIDE DEF c, pc
  <2>3. Drives(s, t)
    BY <1>0, <2>1, <2>2 DEF Drives, Session
  <2> HIDE DEF t
  <2> QED BY <2>1, <2>3, Slot DEF Effect, TrailInv
<1> QED BY <1>1, <1>2, <1>3, <1>4, <1>5

\* Every await but the three that end an order handler.
LEMMA StepEffect ==
  ASSUME TrailInv, NEW q \in Procs, SerialOK(sess[q]), Step(q),
         ~ Commit(q), ~ Refresh(q), ~ Announce(q)
  PROVE  Unwritten /\ UNCHANGED timers /\ Effect(sess[q], sess'[q])
<1>1. \/ ReleaseDriver(q) \/ IndexDriver(q) \/ Unindex(q)
      \/ AssignFetchDriver(q) \/ AssignRefused(q) \/ AcceptFetchDriver(q)
      \/ Retrigger(q) \/ FetchExcluded(q) \/ Discover(q) \/ Score(q) \/ CheckAndUnlock(q)
      \/ \E d \in Drivers : AcquireLock(q, d) \/ LockFailed(q, d)
      \/ FetchAttempt(q) \/ NoAttempt(q)
      \/ ReloadDriver(q) \/ Reindex(q) \/ StoreDriver(q)
      \/ \E d \in Drivers : PurgeGhost(q, d)
  BY DEF Step
<1> QED BY <1>1, ChangeEffect, SearchEffect, AttemptEffect, DriverEffect

-----------------------------------------------------------------------------
(* Rows that follow on each other *)

\* A list of rows that starts from status a.
StartsAt(rows, a) == rows # <<>> => rows[1][1] = a

LEMMA LinkedConcat ==
  ASSUME NEW r \in Seq(Edge), NEW m \in Seq(Edge), NEW a, NEW b, r # <<>>,
         Linked(r), EndsIn(r, a),
         Linked(m), StartsAt(m, a), EndsIn(m, b), m = <<>> => b = a
  PROVE  Linked(r \o m) /\ EndsIn(r \o m, b)
<1> DEFINE c == r \o m
<1>1. /\ Len(r) \in Nat /\ Len(m) \in Nat /\ Len(r) >= 1
      /\ Len(c) = Len(r) + Len(m)
      /\ \A i \in 1 .. Len(r) : c[i] = r[i]
      /\ \A i \in 1 .. Len(m) : c[Len(r) + i] = m[i]
      /\ m = <<>> <=> Len(m) = 0
  OBVIOUS
<1> HIDE DEF c
<1>2. ASSUME NEW i \in 1 .. Len(c) - 1 PROVE c[i + 1][1] = c[i][2]
  <2>1. CASE i + 1 <= Len(r)
    <3>1. c[i] = r[i] /\ c[i + 1] = r[i + 1] /\ i \in 1 .. Len(r) - 1
      BY <1>1, <2>1
    <3> QED BY <3>1 DEF Linked
  <2>2. CASE i = Len(r)
    <3>1. c[i] = r[Len(r)] /\ c[i + 1] = m[1] /\ m # <<>>
      BY <1>1, <2>2
    <3> QED BY <3>1 DEF EndsIn, StartsAt
  <2>3. CASE i > Len(r)
    <3> DEFINE j == i - Len(r)
    <3>1. j \in 1 .. Len(m) - 1 /\ i = Len(r) + j /\ i + 1 = Len(r) + (j + 1)
      BY <1>1, <2>3
    <3> HIDE DEF j
    <3>2. c[i] = m[j] /\ c[i + 1] = m[j + 1]
      BY <1>1, <3>1
    <3> QED BY <3>1, <3>2 DEF Linked
  <2> QED BY <1>1, <2>1, <2>2, <2>3
<1>3. c[Len(c)][2] = b
  <2>1. CASE m = <<>>
    <3>1. c[Len(c)] = r[Len(r)]
      BY <1>1, <2>1
    <3> QED BY <2>1, <3>1 DEF EndsIn
  <2>2. CASE m # <<>>
    <3>1. c[Len(c)] = m[Len(m)]
      BY <1>1, <2>2
    <3> QED BY <2>2, <3>1 DEF EndsIn
  <2> QED BY <2>1, <2>2
<1> QED BY <1>2, <1>3 DEF Linked, EndsIn, c

LEMMA OneLink ==
  ASSUME NEW a, NEW b, NEW rows, rows = << <<a, b>> >>
  PROVE  Linked(rows) /\ StartsAt(rows, a) /\ EndsIn(rows, b) /\ rows # <<>>
BY DEF Linked, StartsAt, EndsIn

\* The rows of a change lead from the status it found to the status it leaves.
LEMMA PlanRows ==
  ASSUME NEW s, Plan(s)
  PROVE  /\ Linked(s.rows) /\ StartsAt(s.rows, s.was.status) /\ EndsIn(s.rows, s.now.status)
         /\ s.rows = <<>> => s.now = s.was
<1>1. CASE s.op = "Patch" /\ PlanPatch(s)
  <2>1. s.rows = PatchTrail(s.was.status, s.st)
    BY <1>1 DEF PlanPatch
  <2>2. s.now.status = IF s.st = "PICKED_UP" THEN "IN_TRANSIT" ELSE s.st
    BY <1>1 DEF PlanPatch, Patched
  <2>3. CASE s.st = "PICKED_UP"
    <3>1. s.rows = << <<s.was.status, "PICKED_UP">>, <<"PICKED_UP", "IN_TRANSIT">> >>
      BY <2>1, <2>3 DEF PatchTrail
    <3> QED BY <2>2, <2>3, <3>1 DEF Linked, StartsAt, EndsIn
  <2>4. CASE s.st # "PICKED_UP"
    <3>1. s.rows = << <<s.was.status, s.st>> >>
      BY <2>1, <2>4 DEF PatchTrail
    <3> QED BY <2>2, <2>4, <3>1, OneLink
  <2> QED BY <2>3, <2>4
<1>2. CASE s.op \in {"Assign", "Accept"} /\ PlanAssigned(s)
  BY <1>2, OneLink DEF PlanAssigned
<1>3. CASE s.op = "Trigger" /\ PlanSearch(s)
  <2>1. s.now.status = Outcome(s.pick)
    BY <1>3 DEF PlanSearch
  <2> QED BY <1>3, <2>1, OneLink DEF PlanSearch
<1>4. CASE s.now = s.was /\ s.rows = <<>>
  BY <1>4 DEF Linked, StartsAt, EndsIn
<1> QED BY <1>1, <1>2, <1>3, <1>4 DEF Plan

-----------------------------------------------------------------------------
(* The commit *)

LEMMA SerialFacts ==
  ASSUME NEW q \in Procs, SerialInv(q)
  PROVE  /\ TypeInv /\ sess[q] \in Session /\ SessionOK(sess[q]) /\ SerialOK(sess[q])
         /\ orders \in [Orders -> OrderRow] /\ attempts \in Seq(AttemptRow)
         /\ audit \in [Orders -> Seq(Edge)] /\ sess \in [Procs -> Session]
BY TrailFacts DEF SerialInv, CoverInv, TrailInv, TypeInv, TypeOK

\* With the loaded copy equal to the stored row, the columns that are written
\* and those that are left make up the session's row.
LEMMA CommitOrder ==
  ASSUME NEW q \in Procs, SerialInv(q), Commit(q)
  PROVE  /\ sess[q].pc = "commit" /\ Plan(sess[q])
         /\ sess[q].o \in Orders /\ orders[sess[q].o].status \in OrderStatus
         /\ sess[q].was = orders[sess[q].o]
         /\ orders' = [orders EXCEPT ![sess[q].o] = sess[q].now]
<1> DEFINE s == sess[q]
<1>1. /\ s.pc = "commit" /\ s \in Session /\ SessionOK(s) /\ Plan(s) /\ s.was = orders[s.o]
      /\ orders' = [orders EXCEPT ![s.o] = WriteOrder(s.was, s.now, @)]
      /\ orders \in [Orders -> OrderRow]
  BY SerialFacts DEF Commit, SerialOK, Changed
<1>2. s.o \in Orders /\ orders[s.o].status \in OrderStatus
  BY <1>1 DEF SessionOK, HasOrder, OrderPc
<1>3. s.was \in OrderRow /\ s.now \in OrderRow
  BY <1>1 DEF Session
<1> HIDE DEF s
<1>4. WriteOrder(s.was, s.now, s.was) = s.now
  BY <1>3 DEF WriteOrder, OrderRow
<1>5. orders' = [orders EXCEPT ![s.o] = s.now]
  BY <1>1, <1>2, <1>4
<1> QED BY <1>1, <1>2, <1>5 DEF s

LEMMA CommitSession ==
  ASSUME NEW q \in Procs, SerialInv(q), Commit(q)
  PROVE  LET s == sess[q]
             t == sess'[q]
         IN  /\ t.pc = IF s.op \in {"Reject", "Timeout"} THEN "order" ELSE "refresh"
             /\ t.att = IF s.op = "Trigger" /\ s.pick # NoDriver THEN Len(attempts) + 1 ELSE 0
             /\ t.mark = "OFFERED" /\ t.rows = <<>>
             /\ t.o = s.o /\ t.op = s.op /\ t.st = s.st /\ t.was = s.was /\ t.now = s.now
             /\ t.pick = s.pick /\ t.drv = NoDrivers /\ t.dnow = NoDrivers
<1> DEFINE s == sess[q]
           pc == IF s.op \in {"Reject", "Timeout"} THEN "order" ELSE "refresh"
           att == IF s.op = "Trigger" /\ s.pick # NoDriver THEN Len(attempts) + 1 ELSE 0
           t == [s EXCEPT !.pc = pc, !.att = att, !.mark = "OFFERED", !.rows = <<>>,
                          !.drv = NoDrivers, !.dnow = NoDrivers]
<1>1. Continue(q, t)
  BY DEF Commit
<1>2. sess'[q] = t
  BY <1>1, Slot, SerialFacts
<1>3. s \in Session
  BY SerialFacts
<1> HIDE DEF pc, att
<1>4. /\ t.pc = pc /\ t.att = att /\ t.mark = "OFFERED" /\ t.rows = <<>>
      /\ t.o = s.o /\ t.op = s.op /\ t.st = s.st /\ t.was = s.was /\ t.now = s.now
      /\ t.pick = s.pick /\ t.drv = NoDrivers /\ t.dnow = NoDrivers
  BY <1>3 DEF Session
<1> QED BY <1>2, <1>4 DEF pc, att

\* Rows of attempts keep their order and driver, and answers are final.
LEMMA CommitAttempts ==
  ASSUME NEW q \in Procs, SerialInv(q), Commit(q)
  PROVE  /\ \A i \in DOMAIN attempts :
              /\ i \in DOMAIN attempts'
              /\ attempts'[i].order = attempts[i].order
              /\ attempts'[i].driver = attempts[i].driver
              /\ attempts[i].status # "OFFERED" => attempts'[i] = attempts[i]
         /\ sess[q].op = "Trigger" /\ sess[q].pick # NoDriver =>
              /\ Len(attempts) + 1 \in DOMAIN attempts'
              /\ attempts'[Len(attempts) + 1].order = sess[q].o
              /\ attempts'[Len(attempts) + 1].driver = sess[q].pick
<1> DEFINE s == sess[q]
<1>1. attempts' = WriteAttempts(s) /\ attempts \in Seq(AttemptRow)
      /\ (s.att # 0 /\ s.mark # "OFFERED" => attempts[s.att].status = "OFFERED")
  BY SerialFacts DEF Commit, SerialOK
<1>2. CASE s.op = "Trigger" /\ s.pick # NoDriver
  <2> DEFINE row == [order |-> s.o, driver |-> s.pick, status |-> "OFFERED"]
  <2>1. attempts' = Append(attempts, row)
    BY <1>1, <1>2 DEF WriteAttempts
  <2>2. row.order = s.o /\ row.driver = s.pick
    OBVIOUS
  <2> HIDE DEF row
  <2>3. /\ \A i \in DOMAIN attempts : i \in DOMAIN attempts' /\ attempts'[i] = attempts[i]
        /\ Len(attempts) + 1 \in DOMAIN attempts' /\ attempts'[Len(attempts) + 1] = row
    BY <1>1, <2>1
  <2> QED BY <2>2, <2>3
<1>3. CASE ~ (s.op = "Trigger" /\ s.pick # NoDriver)
  <2>1. attempts' = Answered(s)
    BY <1>1, <1>3 DEF WriteAttempts
  <2>2. CASE s.att \in DOMAIN attempts /\ s.mark # "OFFERED"
    <3>1. attempts' = [attempts EXCEPT ![s.att].status = s.mark] /\ s.att # 0
      BY <1>1, <2>1, <2>2 DEF Answered
    <3>2. attempts[s.att].status = "OFFERED"
      BY <1>1, <2>2, <3>1
    <3>3. ASSUME NEW i \in DOMAIN attempts
          PROVE  /\ i \in DOMAIN attempts'
                 /\ attempts'[i].order = attempts[i].order
                 /\ attempts'[i].driver = attempts[i].driver
                 /\ attempts[i].status # "OFFERED" => attempts'[i] = attempts[i]
      <4>1. attempts[i] \in AttemptRow /\ i \in DOMAIN attempts'
        BY <1>1, <3>1
      <4>2. CASE i = s.att
        <5>1. attempts'[i] = [attempts[i] EXCEPT !.status = s.mark]
          BY <3>1, <4>2
        <5> QED BY <3>2, <4>1, <4>2, <5>1 DEF AttemptRow
      <4>3. CASE i # s.att
        BY <3>1, <4>1, <4>3
      <4> QED BY <4>2, <4>3
    <3> QED BY <1>3, <3>3
  <2>3. CASE ~ (s.att \in DOMAIN attempts /\ s.mark # "OFFERED")
    BY <1>3, <2>1, <2>3 DEF Answered
  <2> QED BY <2>2, <2>3
<1> QED BY <1>2, <1>3

\* The one attempt that a commit adds is the offer of a search.
LEMMA CommitGrows ==
  ASSUME NEW q \in Procs, SerialInv(q), Commit(q), NEW i \in DOMAIN attempts' \ DOMAIN attempts
  PROVE  /\ sess[q].op = "Trigger" /\ sess[q].pick # NoDriver
         /\ attempts'[i].order = sess[q].o /\ attempts'[i].driver = sess[q].pick
<1> DEFINE s == sess[q]
           row == [order |-> s.o, driver |-> s.pick, status |-> "OFFERED"]
<1>1. attempts' = WriteAttempts(s) /\ attempts \in Seq(AttemptRow)
  BY SerialFacts DEF Commit
<1>2. s.op = "Trigger" /\ s.pick # NoDriver
  BY <1>1 DEF WriteAttempts, Answered
<1>3. attempts' = Append(attempts, row)
  BY <1>1, <1>2 DEF WriteAttempts
<1>4. row.order = s.o /\ row.driver = s.pick
  OBVIOUS
<1> HIDE DEF row
<1>5. attempts'[i] = row
  BY <1>1, <1>3
<1> QED BY <1>2, <1>4, <1>5

\* A commit answers, or offers, no attempt of another order.
LEMMA CommitElsewhere ==
  ASSUME NEW q \in Procs, SerialInv(q), Commit(q),
         NEW i \in DOMAIN attempts, attempts[i].order # sess[q].o
  PROVE  attempts'[i] = attempts[i]
<1> DEFINE s == sess[q]
<1>1. /\ attempts' = WriteAttempts(s) /\ attempts \in Seq(AttemptRow)
      /\ s.att # 0 /\ s.mark # "OFFERED" => attempts[s.att].order = s.o
  BY SerialFacts DEF Commit, SerialOK
<1>2. CASE s.op = "Trigger" /\ s.pick # NoDriver
  BY <1>1, <1>2 DEF WriteAttempts
<1>3. CASE ~ (s.op = "Trigger" /\ s.pick # NoDriver)
  BY <1>1, <1>3 DEF WriteAttempts, Answered
<1> QED BY <1>2, <1>3

LEMMA CommitStored ==
  ASSUME NEW q \in Procs, SerialInv(q), Commit(q) PROVE SerialOK(sess[q])'
<1> DEFINE s == sess[q]
           t == sess'[q]
<1>1. /\ s.pc = "commit" /\ Plan(s) /\ s.o \in Orders /\ s.was = orders[s.o]
      /\ orders' = [orders EXCEPT ![s.o] = s.now] /\ orders \in [Orders -> OrderRow]
  BY CommitOrder, SerialFacts
<1>2. /\ t.pc = IF s.op \in {"Reject", "Timeout"} THEN "order" ELSE "refresh"
      /\ t.att = IF s.op = "Trigger" /\ s.pick # NoDriver THEN Len(attempts) + 1 ELSE 0
      /\ t.mark = "OFFERED" /\ t.rows = <<>>
      /\ t.o = s.o /\ t.op = s.op /\ t.st = s.st /\ t.was = s.was /\ t.now = s.now
      /\ t.pick = s.pick
  BY CommitSession
<1>3. s.op = "Trigger" /\ s.pick # NoDriver =>
        /\ Len(attempts) + 1 \in DOMAIN attempts'
        /\ attempts'[Len(attempts) + 1].order = s.o
        /\ attempts'[Len(attempts) + 1].driver = s.pick
  BY CommitAttempts
<1>4. orders'[t.o] = t.now
  BY <1>1, <1>2
<1> HIDE DEF s, t
<1>5. CASE s.op \in {"Reject", "Timeout"}
  <2>1. t.now = t.was
    BY <1>1, <1>2, <1>5 DEF Plan
  <2>2. t.pc = "order" /\ t.op \in {"Reject", "Timeout"}
    BY <1>2, <1>5
  <2> QED BY <1>2, <1>4, <2>1, <2>2 DEF SerialOK, Before, Changed, After, SearchPc, DriverPc, t
<1>6. CASE s.op \notin {"Reject", "Timeout"}
  <2>1. t.pc = "refresh"
    BY <1>2, <1>6
  <2>2. CASE s.op = "Patch" /\ PlanPatch(s)
    BY <1>2, <2>1, <2>2 DEF SerialOK, Before, Changed, After, SearchPc, DriverPc, Stored, t
  <2>3. CASE s.op \in {"Assign", "Accept"} /\ PlanAssigned(s)
    BY <1>2, <1>4, <2>1, <2>3
       DEF PlanAssigned, SerialOK, Before, Changed, After, SearchPc, DriverPc, Stored, t
  <2>4. CASE s.op = "Trigger" /\ PlanSearch(s)
    <3>1. orders'[t.o] = [status |-> Outcome(t.pick), driver |-> t.pick]
      BY <1>2, <1>4, <2>4 DEF PlanSearch
    <3>2. t.pick # NoDriver => /\ t.att \in DOMAIN attempts'
                               /\ attempts'[t.att].order = t.o
                               /\ attempts'[t.att].driver = t.pick
      BY <1>2, <1>3, <2>4
    <3> QED BY <1>2, <2>1, <2>4, <3>1, <3>2
            DEF SerialOK, Before, Changed, After, SearchPc, DriverPc, Stored, t
  <2> QED BY <1>1, <1>6, <2>2, <2>3, <2>4 DEF Plan
<1> QED BY <1>5, <1>6

LEMMA CommitChained ==
  ASSUME NEW q \in Procs, SerialInv(q), Commit(q), NEW o \in Orders PROVE Chained(o)'
<1> DEFINE s == sess[q]
<1>1. /\ Plan(s) /\ s.o \in Orders /\ s.was = orders[s.o]
      /\ orders[s.o].status \in OrderStatus
      /\ orders' = [orders EXCEPT ![s.o] = s.now] /\ orders \in [Orders -> OrderRow]
      /\ audit' = [audit EXCEPT ![s.o] = @ \o s.rows] /\ audit \in [Orders -> Seq(Edge)]
      /\ s.rows \in Seq(Edge)
  BY CommitOrder, SerialFacts DEF Commit, Session
<1>2. Chained(o)
  BY DEF SerialInv
<1>3. CASE o # s.o
  BY <1>1, <1>2, <1>3 DEF Chained
<1>4. CASE o = s.o
  <2>1. audit[o] # <<>>
    <3>1. OrderTrail(o) /\ orders[o].status # "ABSENT"
      BY <1>1, <1>4 DEF SerialInv, CoverInv, TrailInv, OrderStatus
    <3> QED BY <3>1 DEF OrderTrail, Records
  <2>2. /\ Linked(s.rows) /\ StartsAt(s.rows, s.was.status) /\ EndsIn(s.rows, s.now.status)
        /\ s.rows = <<>> => s.now = s.was
    BY <1>1, PlanRows
  <2>3. Linked(audit[o]) /\ EndsIn(audit[o], s.was.status) /\ audit[o] \in Seq(Edge)
    BY <1>1, <1>2, <1>4 DEF Chained
  <2> DEFINE a == audit[o]
             m == s.rows
  <2>4. m \in Seq(Edge) /\ (m = <<>> => s.now.status = s.was.status)
    BY <1>1, <2>2
  <2>5. audit'[o] = a \o m /\ orders'[o].status = s.now.status
    BY <1>1, <1>4
  <2> HIDE DEF s, a, m
  <2>6. Linked(a \o m) /\ EndsIn(a \o m, s.now.status)
    BY <2>1, <2>2, <2>3, <2>4, LinkedConcat DEF a, m
  <2> QED BY <2>5, <2>6 DEF Chained
<1> QED BY <1>3, <1>4

-----------------------------------------------------------------------------
(* The other steps *)

\* A step that leaves orders, attempts and the trail alone.
LEMMA UnwrittenSerial ==
  ASSUME NEW q \in Procs, SerialInv(q), CoverInv', UNCHANGED <<orders, attempts, audit>>,
         SerialOK(sess'[q])
  PROVE  SerialInv(q)'
<1>1. SerialOK(sess[q])'
  BY DEF SerialOK, Plan, Stored, Before, Changed, After, PlanPatch, PlanAssigned, PlanSearch
<1>2. \A o \in Orders : Chained(o)'
  BY DEF SerialInv, Chained, Linked, EndsIn
<1> QED BY <1>1, <1>2 DEF SerialInv

LEMMA CreateChained ==
  ASSUME TrailInv, \A x \in Orders : Chained(x), NEW o \in Orders, CreateDelivery(o)
  PROVE  \A x \in Orders : Chained(x)'
<1> DEFINE rows == << <<"CREATED", "CREATED">> >>
<1>1. /\ orders' = [orders EXCEPT ![o] = [status |-> "CREATED", driver |-> NoDriver]]
      /\ audit' = [audit EXCEPT ![o] = rows]
      /\ orders \in [Orders -> OrderRow] /\ audit \in [Orders -> Seq(Edge)]
  BY DEF CreateDelivery, TrailInv, TypeInv, TypeOK
<1> SUFFICES ASSUME NEW x \in Orders PROVE Chained(x)'
  OBVIOUS
<1>2. CASE x = o
  <2>1. audit'[x] = rows /\ orders'[x].status = "CREATED"
    BY <1>1, <1>2
  <2>2. Linked(rows) /\ EndsIn(rows, "CREATED")
    BY OneLink
  <2> HIDE DEF rows
  <2> QED BY <2>1, <2>2 DEF Chained
<1>3. CASE x # o
  BY <1>1, <1>3 DEF Chained
<1> QED BY <1>2, <1>3

LEMMA CreateSerial ==
  ASSUME NEW q \in Procs, SerialInv(q), CoverInv', NEW o \in Orders, CreateDelivery(o)
  PROVE  SerialInv(q)'
<1> DEFINE s == sess[q]
           row == [status |-> "CREATED", driver |-> NoDriver]
           rows == << <<"CREATED", "CREATED">> >>
<1>1. /\ orders[o] = Absent /\ orders' = [orders EXCEPT ![o] = row]
      /\ audit' = [audit EXCEPT ![o] = rows] /\ UNCHANGED <<attempts, sess>>
      /\ orders \in [Orders -> OrderRow] /\ audit \in [Orders -> Seq(Edge)]
      /\ SessionOK(s) /\ SerialOK(s)
  BY SerialFacts DEF CreateDelivery
<1>2. s.pc \in OrderPc => s.o \in Orders /\ s.o # o
  BY <1>1 DEF SessionOK, HasOrder, Absent, OrderStatus
<1>3. s.pc \in OrderPc => orders'[s.o] = orders[s.o]
  BY <1>1, <1>2
<1>4. SerialOK(sess[q])'
  <2>1. Before(s) \/ Changed(s) \/ After(s) => s.pc \in OrderPc
    BY DEF Before, Changed, After, SearchPc, OrderPc
  <2>2. Before(s)' = Before(s) /\ Changed(s)' = Changed(s) /\ After(s)' = After(s)
    BY <1>1 DEF Before, Changed, After
  <2>3. Before(s) => s.was = orders'[s.o] /\ s.now = s.was /\ s.rows = <<>>
    BY <1>1, <1>3, <2>1 DEF SerialOK
  <2>4. Changed(s) => s.was = orders'[s.o] /\ Plan(s)
    BY <1>1, <1>3, <2>1 DEF SerialOK
  <2>5. Plan(s)' = Plan(s)
    BY <1>1 DEF Plan, PlanPatch, PlanAssigned, PlanSearch
  <2>6. After(s) => Stored(s)'
    BY <1>1, <1>3, <2>1 DEF SerialOK, Stored
  <2>7. s.pc = "announce" => s.now = orders'[s.o]
    BY <1>1, <1>3 DEF SerialOK, OrderPc
  <2> QED BY <1>1, <2>2, <2>3, <2>4, <2>5, <2>6, <2>7 DEF SerialOK
<1>5. \A x \in Orders : Chained(x)'
  BY CreateChained DEF SerialInv, CoverInv
<1> QED BY <1>4, <1>5 DEF SerialInv

LEMMA RefreshSession ==
  ASSUME NEW q \in Procs, SerialInv(q), Refresh(q)
  PROVE  LET s == sess[q]
             t == sess'[q]
         IN  /\ s.pc = "refresh" /\ t.pc = "announce" /\ t.now = orders[s.o] /\ t.o = s.o
             /\ t.op = s.op /\ t.pick = s.pick /\ t.att = s.att /\ t.mark = s.mark
             /\ t.drv = s.drv /\ t.dnow = s.dnow
<1> DEFINE s == sess[q]
           row == orders[s.o]
           t == [s EXCEPT !.pc = "announce", !.now = row]
<1>1. Continue(q, t) /\ s.pc = "refresh" /\ s \in Session
  BY SerialFacts DEF Refresh
<1>2. sess'[q] = t
  BY <1>1, Slot, SerialFacts
<1> HIDE DEF row
<1>3. /\ t.pc = "announce" /\ t.now = row /\ t.o = s.o /\ t.op = s.op
      /\ t.pick = s.pick /\ t.att = s.att /\ t.mark = s.mark
      /\ t.drv = s.drv /\ t.dnow = s.dnow
  BY <1>1 DEF Session
<1> QED BY <1>1, <1>2, <1>3 DEF row

LEMMA RefreshSerial ==
  ASSUME NEW q \in Procs, SerialInv(q), CoverInv', Refresh(q) PROVE SerialInv(q)'
<1> DEFINE s == sess[q]
           t == sess'[q]
<1>1. /\ s.pc = "refresh" /\ t.pc = "announce" /\ t.now = orders[s.o] /\ t.o = s.o
      /\ t.op = s.op /\ t.pick = s.pick /\ t.att = s.att /\ t.mark = s.mark
  BY RefreshSession
<1>2. SerialOK(s) /\ UNCHANGED <<orders, attempts, audit>>
  BY SerialFacts DEF Refresh, tables
<1> HIDE DEF s, t
<1>3. Stored(t)
  BY <1>1, <1>2 DEF SerialOK, After, Stored
<1>4. SerialOK(t)
  BY <1>1, <1>2, <1>3 DEF SerialOK, Before, Changed, SearchPc, DriverPc
<1> QED BY <1>2, <1>4, UnwrittenSerial DEF t

LEMMA IdleSerial == SerialOK(Idle)
BY DEF SerialOK, Before, Changed, After, SearchPc, DriverPc, Idle

LEMMA EndSerial ==
  ASSUME NEW q \in Procs, SerialInv(q), CoverInv', Announce(q) \/ Abort(q)
  PROVE  SerialInv(q)'
<1>1. Continue(q, Idle) /\ UNCHANGED <<orders, attempts, audit>>
  BY DEF Announce, Abort, tables
<1>2. sess'[q] = Idle
  BY <1>1, Slot, SerialFacts
<1> QED BY <1>1, <1>2, IdleSerial, UnwrittenSerial

LEMMA EffectSerial ==
  ASSUME NEW q \in Procs, SerialInv(q), CoverInv', Unwritten, Effect(sess[q], sess'[q])
  PROVE  SerialInv(q)'
<1>1. SerialOK(sess'[q])
  BY SerialFacts, EffectKeeps
<1> QED BY <1>1, UnwrittenSerial DEF Unwritten

LEMMA SlotInv == ASSUME ApartInv, NEW q \in Procs PROVE SerialInv(q)
BY DEF ApartInv, SerialInv

\* The ways a slot goes on.
Handles(q) ==
  \/ Unwritten /\ UNCHANGED timers /\ Effect(sess[q], sess'[q]) /\ (Request(q) \/ Step(q))
  \/ \E i \in timers : TimeoutFires(q, i)
  \/ Sweep /\ SweepGhosts(q)
  \/ Commit(q) \/ Refresh(q) \/ Announce(q) \/ Abort(q)

LEMMA SerialCases ==
  ASSUME ApartInv, [Next]_vars
  PROVE  \/ \E o \in Orders : CreateDelivery(o)
         \/ \E q \in Procs : Handles(q)
         \/ \E i \in timers : TimeoutMoot(i) \/ LoseTimer(i)
         \/ \E d \in Drivers : GrowStale(d) \/ LockExpires(d)
         \/ UNCHANGED vars
<1>1. ASSUME NEW q \in Procs, Request(q) PROVE Handles(q)
  BY <1>1, RequestEffect DEF ApartInv, CoverInv, Handles
<1>2. ASSUME NEW q \in Procs, Step(q) PROVE Handles(q)
  BY <1>2, StepEffect DEF ApartInv, CoverInv, Handles
<1>3. ASSUME NEW q \in Procs, NEW i \in timers, TimeoutFires(q, i) PROVE Handles(q)
  BY <1>3 DEF Handles
<1>4. ASSUME NEW q \in Procs, Sweep, SweepGhosts(q) PROVE Handles(q)
  BY <1>4 DEF Handles
<1>5. ASSUME NEW q \in Procs, Abort(q) PROVE Handles(q)
  BY <1>5 DEF Handles
<1> QED BY <1>1, <1>2, <1>3, <1>4, <1>5, DispatchAssumption
    DEF Next, Timeout, Sweep, Clock, Failure

-----------------------------------------------------------------------------
(* The other slots *)

\* A step of one slot changes the session of that slot.
LEMMA OneSession ==
  ASSUME sess \in [Procs -> Session], NEW q \in Procs, NEW p \in Procs \ {q}, NEW t,
         Begin(q, t) \/ Continue(q, t)
  PROVE  sess'[p] = sess[p]
BY DEF Begin, Continue

LEMMA RequestAlone ==
  ASSUME sess \in [Procs -> Session], NEW q \in Procs, NEW p \in Procs \ {q}, Request(q)
  PROVE  sess'[p] = sess[p]
BY OneSession DEF Request, UpdateStatus, AssignFetchOrder, TriggerAssignment, AnswerOffer,
                  UpdateLocation, UpdateAvailability

LEMMA StepAlone ==
  ASSUME sess \in [Procs -> Session], NEW q \in Procs, NEW p \in Procs \ {q}, Step(q)
  PROVE  sess'[p] = sess[p]
<1>1. CASE ReleaseDriver(q) \/ IndexDriver(q) \/ AssignFetchDriver(q) \/ AssignRefused(q)
           \/ Unindex(q) \/ AcceptFetchDriver(q)
  BY <1>1, OneSession DEF ReleaseDriver, IndexDriver, AssignFetchDriver, AssignRefused,
                          Unindex, AcceptFetchDriver
<1>2. CASE Retrigger(q) \/ FetchExcluded(q) \/ Discover(q) \/ Score(q) \/ CheckAndUnlock(q)
  BY <1>2, OneSession DEF Retrigger, FetchExcluded, Discover, Score, CheckAndUnlock
<1>3. ASSUME NEW d \in Drivers, AcquireLock(q, d) \/ LockFailed(q, d) \/ PurgeGhost(q, d)
      PROVE  sess'[p] = sess[p]
  BY <1>3, OneSession DEF AcquireLock, LockFailed, PurgeGhost
<1>4. CASE FetchAttempt(q) \/ NoAttempt(q)
  BY <1>4, OneSession DEF FetchAttempt, NoAttempt
<1>5. CASE ReloadDriver(q) \/ Reindex(q) \/ StoreDriver(q)
  BY <1>5, OneSession DEF ReloadDriver, Reindex, StoreDriver
<1>6. CASE Commit(q) \/ Refresh(q) \/ Announce(q)
  BY <1>6, OneSession DEF Commit, Refresh, Announce
<1> QED BY <1>1, <1>2, <1>3, <1>4, <1>5, <1>6 DEF Step

LEMMA HandlesAlone ==
  ASSUME sess \in [Procs -> Session], NEW q \in Procs, NEW p \in Procs \ {q}, Handles(q)
  PROVE  sess'[p] = sess[p]
<1>1. CASE Request(q) \/ Step(q)
  BY <1>1, RequestAlone, StepAlone
<1>2. ASSUME NEW i \in timers, TimeoutFires(q, i) PROVE sess'[p] = sess[p]
  BY <1>2, OneSession DEF TimeoutFires
<1>3. CASE SweepGhosts(q) \/ Abort(q)
  BY <1>3, OneSession DEF SweepGhosts, Abort
<1>4. Commit(q) \/ Refresh(q) \/ Announce(q) => Step(q)
  BY DEF Step
<1> QED BY <1>1, <1>2, <1>3, <1>4 DEF Handles

\* Only a commit writes orders and attempts.
LEMMA HandlesWrites ==
  ASSUME CoverInv, NEW q \in Procs, Handles(q), ~ Commit(q)
  PROVE  UNCHANGED <<orders, attempts, audit>>
BY TimerEffect, SweepEffect
   DEF CoverInv, Handles, Unwritten, Refresh, Announce, Abort, tables

\* A session of another slot that works on an order works on another one.
LEMMA OtherOrder ==
  ASSUME ApartInv, NEW q \in Procs, NEW p \in Procs \ {q},
         sess[q].pc \in OrderPc, sess[p].pc # "idle"
  PROVE  sess[q].o \in Orders /\ sess[p].o # sess[q].o
<1>1. sess[q].o \in Orders
  BY SlotInv, SerialFacts DEF SessionOK, HasOrder
<1>2. sess[q].pc # "idle"
  BY DEF OrderPc
<1> QED BY <1>1, <1>2, StoreAssumption DEF ApartInv, Apart

\* What a session has loaded outlasts the commit of another slot.
LEMMA OtherCommit ==
  ASSUME ApartInv, NEW q \in Procs, NEW p \in Procs \ {q}, Commit(q)
  PROVE  SerialOK(sess[p])'
<1> DEFINE s == sess[p]
<1>1. SerialOK(s) /\ SessionOK(s) /\ s \in Session /\ SerialInv(q)
      /\ orders \in [Orders -> OrderRow] /\ attempts \in Seq(AttemptRow)
      /\ sess \in [Procs -> Session]
  BY SlotInv, SerialFacts
<1>2. sess'[p] = s
  BY <1>1, HandlesAlone DEF Handles
<1>3. sess[q].pc = "commit" /\ orders' = [orders EXCEPT ![sess[q].o] = sess[q].now]
  BY <1>1, CommitOrder
<1>4. s.pc # "idle" => sess[q].o \in Orders /\ s.o # sess[q].o
  BY <1>3, OtherOrder DEF OrderPc
<1>5. s.pc \in OrderPc => orders'[s.o] = orders[s.o]
  BY <1>1, <1>3, <1>4 DEF SessionOK, HasOrder, OrderPc
<1>6. \A i \in DOMAIN attempts :
        /\ i \in DOMAIN attempts'
        /\ attempts'[i].order = attempts[i].order /\ attempts'[i].driver = attempts[i].driver
  BY <1>1, CommitAttempts
<1>7. s.att # 0 => s.pc # "idle" /\ s.att \in DOMAIN attempts
  BY <1>1 DEF SerialOK, SessionOK
<1>8. s.att # 0 /\ s.mark # "OFFERED" =>
        attempts'[s.att].status = "OFFERED" /\ attempts'[s.att].order = s.o
  <2> SUFFICES ASSUME s.att # 0, s.mark # "OFFERED"
               PROVE  attempts'[s.att].status = "OFFERED" /\ attempts'[s.att].order = s.o
    OBVIOUS
  <2>1. attempts[s.att].status = "OFFERED" /\ attempts[s.att].order = s.o /\ s.o # sess[q].o
    BY <1>1, <1>4, <1>7 DEF SerialOK
  <2>2. attempts'[s.att] = attempts[s.att]
    BY <1>1, <1>7, <2>1, CommitElsewhere
  <2> QED BY <2>1, <2>2
<1> HIDE DEF s
<1>9. Before(s) \/ Changed(s) \/ After(s) => s.pc \in OrderPc
  BY DEF Before, Changed, After, SearchPc, OrderPc
<1>10. Before(s) => s.was = orders'[s.o] /\ s.now = s.was /\ s.rows = <<>>
  BY <1>1, <1>5, <1>9 DEF SerialOK
<1>11. Changed(s) => s.was = orders'[s.o] /\ Plan(s)
  BY <1>1, <1>5, <1>9 DEF SerialOK
<1>12. After(s) => Stored(sess[p])'
  BY <1>1, <1>2, <1>5, <1>6, <1>9 DEF SerialOK, Stored
<1>13. s.pc = "announce" => s.now = orders'[s.o]
  BY <1>1, <1>5 DEF SerialOK, OrderPc
<1>14. Plan(sess[p])' = Plan(s)
  BY <1>2 DEF Plan, PlanPatch, PlanAssigned, PlanSearch
<1> QED BY <1>1, <1>2, <1>8, <1>10, <1>11, <1>12, <1>13, <1>14 DEF SerialOK, Before, Changed, After

\* Steps that write neither orders nor attempts.
LEMMA OtherUnwritten ==
  ASSUME NEW p \in Procs, SerialOK(sess[p]), sess'[p] = sess[p], UNCHANGED <<orders, attempts>>
  PROVE  SerialOK(sess[p])'
BY DEF SerialOK, Plan, Stored, Before, Changed, After, PlanPatch, PlanAssigned, PlanSearch

LEMMA HandlesSerial ==
  ASSUME ApartInv, CoverInv', Apart', NEW q \in Procs, Handles(q) PROVE ApartInv'
<1>0. SerialInv(q) /\ sess \in [Procs -> Session] /\ CoverInv
  BY SlotInv, SerialFacts DEF SerialInv
<1>1. SerialInv(q)'
  <2>1. CASE Unwritten /\ Effect(sess[q], sess'[q])
    BY <1>0, <2>1, EffectSerial
  <2>2. ASSUME NEW i \in timers, TimeoutFires(q, i) PROVE SerialInv(q)'
    BY <1>0, <2>1, <2>2, TimerEffect DEF CoverInv
  <2>3. CASE SweepGhosts(q)
    BY <1>0, <2>1, <2>3, SweepEffect DEF CoverInv
  <2>4. CASE Commit(q)
    BY <1>0, <2>4, CommitStored, CommitChained DEF SerialInv
  <2>5. CASE Refresh(q)
    BY <1>0, <2>5, RefreshSerial
  <2>6. CASE Announce(q) \/ Abort(q)
    BY <1>0, <2>6, EndSerial
  <2> QED BY <2>1, <2>2, <2>3, <2>4, <2>5, <2>6 DEF Handles
<1>2. ASSUME NEW p \in Procs \ {q} PROVE SerialOK(sess[p])'
  <2>1. CASE Commit(q)
    BY <2>1, OtherCommit
  <2>2. CASE ~ Commit(q)
    <3>1. sess'[p] = sess[p] /\ UNCHANGED <<orders, attempts>> /\ SerialOK(sess[p])
      BY <1>0, <2>2, HandlesAlone, HandlesWrites DEF ApartInv
    <3> QED BY <3>1, OtherUnwritten
  <2> QED BY <2>1, <2>2
<1> QED BY <1>1, <1>2 DEF SerialInv, ApartInv

LEMMA ApartStep ==
  ASSUME ApartInv, [Next /\ Apart']_vars PROVE ApartInv'
<1>0. [Next]_vars
  OBVIOUS
<1> CoverInv'
  BY <1>0, CoverInvStep DEF ApartInv
<1>1. UNCHANGED vars => Apart'
  BY DEF vars, ApartInv, Apart, Writes
<1> Apart'
  BY <1>1
<1>2. ASSUME NEW o \in Orders, CreateDelivery(o) PROVE ApartInv'
  <2>1. \A p \in Procs : SerialOK(sess[p])'
    BY <1>2, SlotInv, CreateSerial DEF SerialInv
  <2>2. \A x \in Orders : Chained(x)'
    BY <1>2, CreateChained DEF ApartInv, CoverInv
  <2> QED BY <2>1, <2>2 DEF ApartInv
<1>3. ASSUME NEW q \in Procs, Handles(q) PROVE ApartInv'
  BY <1>3, HandlesSerial
<1>4. CASE UNCHANGED <<orders, attempts, audit, sess>>
  <2>1. \A p \in Procs : SerialOK(sess[p])'
    BY <1>4, OtherUnwritten DEF ApartInv
  <2>2. \A x \in Orders : Chained(x)'
    BY <1>4 DEF ApartInv, Chained, Linked, EndsIn
  <2> QED BY <2>1, <2>2 DEF ApartInv
<1>5. ASSUME NEW i \in timers, TimeoutMoot(i) \/ LoseTimer(i) PROVE ApartInv'
  BY <1>4, <1>5 DEF TimeoutMoot, LoseTimer, tables
<1>6. ASSUME NEW d \in Drivers, GrowStale(d) \/ LockExpires(d) PROVE ApartInv'
  BY <1>4, <1>6 DEF GrowStale, LockExpires, tables
<1>7. CASE UNCHANGED vars
  BY <1>4, <1>7 DEF vars, tables
<1> QED BY <1>0, <1>2, <1>3, <1>5, <1>6, <1>7, SerialCases

LEMMA ApartInit == Init => ApartInv
<1> SUFFICES ASSUME Init PROVE ApartInv
  OBVIOUS
<1>1. \A p \in Procs : SerialOK(sess[p]) /\ sess[p].pc = "idle"
  BY IdleSerial DEF Init, StoreInit, Idle
<1>2. \A o \in Orders : Chained(o)
  BY DEF Init, StoreInit, Chained, Linked, EndsIn
<1> QED BY <1>1, <1>2, CoverInit DEF ApartInv, Apart

LEMMA ApartInvariant == ApartSpec => []ApartInv
<1>1. ApartInv /\ [Next /\ Apart']_vars => ApartInv'
  BY ApartStep
<1> QED BY <1>1, ApartInit, PTL DEF ApartSpec

-----------------------------------------------------------------------------
(* The trail and the life cycle *)

\* While handlers that overlap are apart, also when handlers are cut off at any
\* await, the audit trail of every order is its history: each row starts where
\* the one before it ended, and the last one ends in the stored status.
THEOREM AuditChainedHolds == ApartSpec => []AuditChained
<1>1. ApartInv => AuditChained
  BY DEF ApartInv, Chained, Linked, EndsIn, AuditChained
<1> QED BY <1>1, ApartInvariant, PTL

\* Only creations and commits write orders.
LEMMA OrdersWritten ==
  ASSUME ApartInv, [Next]_vars
  PROVE  \/ UNCHANGED orders
         \/ \E q \in Procs : Commit(q)
         \/ \E o \in Orders : CreateDelivery(o)
<1>1. ASSUME NEW q \in Procs, Handles(q), ~ Commit(q) PROVE UNCHANGED orders
  BY <1>1, HandlesWrites DEF ApartInv
<1> QED BY <1>1, SerialCases DEF TimeoutMoot, LoseTimer, GrowStale, LockExpires, tables, vars

\* What a commit writes is one move of the life cycle, or nothing.
LEMMA CommitRefines ==
  ASSUME NEW q \in Procs, SerialInv(q), Commit(q)
  PROVE  Lifecycle!Next \/ UNCHANGED orders
<1> DEFINE s == sess[q]
           o == s.o
           was == orders[o]
<1>1. /\ Plan(s) /\ o \in Orders /\ was.status \in OrderStatus /\ s.was = was
      /\ orders' = [orders EXCEPT ![o] = s.now] /\ orders \in [Orders -> OrderRow]
      /\ s.now \in OrderRow
  BY CommitOrder, SerialFacts DEF Session
<1>2. was # Lifecycle!Unborn
  BY <1>1 DEF Lifecycle!Unborn, OrderStatus
<1>3. s.now = [status |-> s.now.status, driver |-> s.now.driver]
  BY <1>1 DEF OrderRow
<1> HIDE DEF s, o
\* A move to a status, by a handler that asked the state machine for st.
<1>4. ASSUME NEW st \in OrderStatus, ValidTransition(was.status, st),
             s.now.status = (IF st = "PICKED_UP" THEN "IN_TRANSIT" ELSE st),
             s.now.driver \in Drivers \cup {was.driver}
      PROVE  Lifecycle!Next
  <2>1. Lifecycle!Advance(o, st, s.now.driver)
    BY <1>1, <1>2, <1>3, <1>4 DEF Lifecycle!Advance, Lifecycle!May, Lifecycle!Become,
       Lifecycle!ValidTransition, Lifecycle!VALID_TRANSITIONS, ValidTransition, VALID_TRANSITIONS
  <2> QED BY <1>1, <1>4, <2>1 DEF Lifecycle!Next, Lifecycle!OrderStatus, OrderStatus
<1>5. CASE s.op = "Patch" /\ PlanPatch(s)
  <2>1. PICK d \in Named : s.now = Patched(was, s.st, d)
    BY <1>1, <1>5 DEF PlanPatch
  <2>2. /\ s.now.status = (IF s.st = "PICKED_UP" THEN "IN_TRANSIT" ELSE s.st)
        /\ s.now.driver \in Drivers \cup {was.driver}
    BY <2>1, DispatchAssumption DEF Patched
  <2>3. s.st \in OrderStatus /\ ValidTransition(was.status, s.st)
    BY <1>1, <1>5, DispatchAssumption DEF PlanPatch
  <2> QED BY <1>4, <2>2, <2>3
<1>6. CASE s.op \in {"Assign", "Accept"} /\ PlanAssigned(s)
  <2>1. /\ ValidTransition(was.status, "ASSIGNED") /\ s.now.status = "ASSIGNED"
        /\ s.now.driver \in Drivers \cup {was.driver} /\ "ASSIGNED" \in OrderStatus
    BY <1>1, <1>6 DEF PlanAssigned, OrderStatus
  <2> QED BY <1>4, <2>1
<1>7. CASE s.op = "Trigger" /\ PlanSearch(s)
  <2>1. /\ ValidTransition(was.status, "DRIVER_PENDING")
        /\ s.now = [status |-> Outcome(s.pick), driver |-> s.pick]
        /\ s.pick \in Drivers \cup {NoDriver}
    BY <1>1, <1>7 DEF PlanSearch, OrderRow
  <2>2. CASE s.pick = NoDriver
    <3>1. Lifecycle!Exhaust(o)
      BY <1>1, <1>2, <2>1, <2>2 DEF Outcome, Lifecycle!Exhaust, Lifecycle!Searched,
         Lifecycle!Become, ValidTransition, VALID_TRANSITIONS
    <3> QED BY <1>1, <3>1 DEF Lifecycle!Next
  <2>3. CASE s.pick # NoDriver
    <3>1. Lifecycle!Offer(o, s.pick)
      BY <1>1, <1>2, <2>1, <2>3 DEF Outcome, Lifecycle!Offer, Lifecycle!May, Lifecycle!Become,
         Lifecycle!ValidTransition, Lifecycle!VALID_TRANSITIONS, ValidTransition, VALID_TRANSITIONS
    <3> QED BY <1>1, <2>1, <2>3, <3>1 DEF Lifecycle!Next
  <2> QED BY <2>2, <2>3
<1>8. CASE s.now = s.was
  BY <1>1, <1>8
<1> QED BY <1>1, <1>5, <1>6, <1>7, <1>8 DEF Plan

\* While handlers that overlap are apart, every order goes through the life cycle
\* of OrderLifecycle: a creation is its Create, a commit is one of its moves, and
\* every other step of every handler leaves the order alone.
THEOREM ImplementsLifecycleHolds == ApartSpec => ImplementsLifecycle
<1>1. Init => Lifecycle!Init
  BY DEF Init, StoreInit, Lifecycle!Init, Lifecycle!Unborn, Absent
<1>2. ApartInv /\ [Next /\ Apart']_vars => [Lifecycle!Next]_orders
  <2> SUFFICES ASSUME ApartInv, [Next]_vars PROVE [Lifecycle!Next]_orders
    OBVIOUS
  <2>1. ASSUME NEW q \in Procs, Commit(q) PROVE [Lifecycle!Next]_orders
    BY <2>1, SlotInv, CommitRefines
  <2>2. ASSUME NEW o \in Orders, CreateDelivery(o) PROVE Lifecycle!Next
    <3>1. Lifecycle!Create(o)
      BY <2>2 DEF CreateDelivery, Absent, Lifecycle!Create, Lifecycle!Become, Lifecycle!Unborn
    <3> QED BY <3>1 DEF Lifecycle!Next
  <2> QED BY <2>1, <2>2, OrdersWritten
<1> QED BY <1>1, <1>2, ApartInvariant, PTL DEF ApartSpec, ImplementsLifecycle, Lifecycle!Spec

-----------------------------------------------------------------------------
(* The drivers that a search leaves out *)

Refused(o) == {attempts[i].driver : i \in {j \in DOMAIN attempts :
                 attempts[j].order = o /\ attempts[j].status \in {"REJECTED", "TIMEOUT"}}}

\* What the search in s may still choose, R being the drivers that refused.
Spares(s, R) ==
  /\ s.pc \in {"driver", "attempt", "index", "unindex"} => s.op # "Trigger"
  /\ s.pc = "search" => R \subseteq s.excl
  /\ s.pc \in {"score", "lock", "unlock"} => R \cap s.cand = {}
  /\ s.pc = "unlock" => s.pick \notin R
  /\ s.pc = "commit" /\ s.op = "Trigger" => s.pick = NoDriver \/ s.pick \notin R

SparesAll == \A p \in Procs : Spares(sess[p], Refused(sess[p].o))

LEMMA EffectSpares ==
  ASSUME NEW s, NEW t, NEW R, NEW Q, Spares(s, R), Effect(s, t),
         s.pc \notin SearchPc \cup {"order"}
  PROVE  Spares(t, Q)
<1> USE DEF Spares, SearchPc, DriverPc, DriverOp
<1>1. CASE Opens(s, t)
  BY <1>1 DEF Opens
<1>2. CASE OpensPatch(s, t)
  BY <1>2 DEF OpensPatch
<1>3. CASE Onward(s, t)
  BY <1>3 DEF Onward, Changed
<1>4. CASE Takes(s, t)
  BY <1>4 DEF Takes
<1>5. CASE Answers(s, t)
  BY <1>5 DEF Answers
<1>6. CASE Drives(s, t)
  BY <1>6 DEF Drives
<1>7. CASE Ends(s, t)
  BY <1>7 DEF Ends, Idle
<1> QED BY <1>1, <1>2, <1>3, <1>4, <1>5, <1>6, <1>7 DEF Effect, Searches, Finds

\* The search itself: it excludes who refused, and takes who it found.
LEMMA SearchSpares ==
  ASSUME NEW q \in Procs, SerialInv(q), NEW R, R = Refused(sess[q].o), Spares(sess[q], R),
         \/ Retrigger(q) \/ FetchExcluded(q) \/ Discover(q) \/ Score(q) \/ CheckAndUnlock(q)
         \/ \E d \in Drivers : AcquireLock(q, d) \/ LockFailed(q, d)
  PROVE  Spares(sess'[q], R) /\ sess'[q].o = sess[q].o
<1> DEFINE s == sess[q]
           Good(t) == Spares(t, R) /\ t.o = s.o
<1>0. s \in Session /\ TypeInv
  BY SerialFacts
<1> SUFFICES \E t : Continue(q, t) /\ Good(t)
  BY <1>0, Slot
<1>1. Good(GiveUp(s))
  BY <1>0 DEF GiveUp, Session, Spares
<1>2. ASSUME NEW d, d \notin R PROVE Good(OfferTo(s, d))
  BY <1>0, <1>2 DEF OfferTo, Session, Spares
<1>3. ASSUME NEW d, R \cap s.cand = {} PROVE Good(NextCandidate(s, d))
  <2> DEFINE c == s.cand \ {d}
             t == [s EXCEPT !.pc = "lock", !.pick = NoDriver, !.cand = c]
  <2>1. NextCandidate(s, d) = IF s.cand = {d} THEN GiveUp(s) ELSE t
    BY DEF NextCandidate
  <2>2. R \cap c = {}
    BY <1>3
  <2> HIDE DEF c
  <2>3. t.pc = "lock" /\ t.cand = c /\ t.o = s.o
    BY <1>0 DEF Session
  <2> HIDE DEF t
  <2>4. Good(t)
    BY <2>2, <2>3 DEF Spares
  <2> QED BY <1>1, <2>1, <2>4
<1>4. CASE Retrigger(q)
  <2> DEFINE t == [s EXCEPT !.pc = "excluded", !.op = "Trigger"]
  <2>1. Continue(q, t)
    BY <1>4 DEF Retrigger
  <2>2. t.pc = "excluded" /\ t.o = s.o
    BY <1>0 DEF Session
  <2> HIDE DEF t
  <2>3. Good(t)
    BY <2>2 DEF Spares
  <2> QED BY <2>1, <2>3
<1>5. CASE FetchExcluded(q)
  <2> DEFINE t == [s EXCEPT !.pc = "search", !.excl = R]
  <2>1. Continue(q, t)
    BY <1>5 DEF FetchExcluded, Refused
  <2> HIDE DEF t
  <2>2. t.pc = "search" /\ t.excl = R /\ t.o = s.o
    BY <1>0 DEF Session, t
  <2>3. Good(t)
    BY <2>2 DEF Spares
  <2> QED BY <2>1, <2>3
<1>6. CASE Discover(q)
  <2> DEFINE found == (geo \cap InRange[s.o]) \ s.excl
             t == [s EXCEPT !.pc = "score", !.cand = found, !.excl = {}]
  <2>1. Continue(q, IF found = {} THEN GiveUp(s) ELSE t) /\ s.pc = "search"
    BY <1>6 DEF Discover
  <2>2. R \cap found = {}
    BY <2>1 DEF Spares
  <2> HIDE DEF found
  <2>3. t.pc = "score" /\ t.cand = found /\ t.o = s.o
    BY <1>0 DEF Session
  <2> HIDE DEF t
  <2>4. Good(t)
    BY <2>2, <2>3 DEF Spares
  <2>5. CASE found = {}
    BY <1>1, <2>1, <2>5
  <2>6. CASE found # {}
    BY <2>1, <2>4, <2>6
  <2> QED BY <2>5, <2>6
<1>7. CASE Score(q)
  <2> DEFINE f == [d \in Drivers |-> IF d \in s.cand THEN drivers[d] ELSE NewDriver]
             t == [s EXCEPT !.pc = "lock", !.drv = f, !.dnow = f]
  <2>1. Continue(q, t) /\ s.pc = "score"
    BY <1>7 DEF Score
  <2> HIDE DEF f
  <2>2. t.pc = "lock" /\ t.cand = s.cand /\ t.o = s.o
    BY <1>0 DEF Session
  <2> HIDE DEF t
  <2>3. Good(t)
    BY <2>1, <2>2 DEF Spares
  <2> QED BY <2>1, <2>3
<1>8. ASSUME NEW d \in Drivers, AcquireLock(q, d) PROVE \E t : Continue(q, t) /\ Good(t)
  <2> DEFINE t == [s EXCEPT !.pc = "unlock", !.pick = d]
  <2>1. Continue(q, t) /\ s.pc = "lock" /\ d \in s.cand
    BY <1>8 DEF AcquireLock
  <2>2. t.pc = "unlock" /\ t.pick = d /\ t.cand = s.cand /\ t.o = s.o
    BY <1>0 DEF Session
  <2> HIDE DEF t
  <2>3. Good(t)
    BY <2>1, <2>2 DEF Spares
  <2> QED BY <2>1, <2>3
<1>9. ASSUME NEW d \in Drivers, LockFailed(q, d) PROVE \E t : Continue(q, t) /\ Good(t)
  <2>1. Continue(q, NextCandidate(s, d)) /\ R \cap s.cand = {}
    BY <1>9 DEF LockFailed, Spares
  <2> QED BY <1>3, <2>1
<1>10. CASE CheckAndUnlock(q)
  <2> DEFINE d == s.pick
             ok == s.drv[d].status = "ONLINE" /\ s.drv[d].available
  <2>1. Continue(q, IF ok THEN OfferTo(s, d) ELSE NextCandidate(s, d)) /\ s.pc = "unlock"
    BY <1>10 DEF CheckAndUnlock
  <2>2. d \notin R /\ R \cap s.cand = {}
    BY <2>1 DEF Spares
  <2> HIDE DEF ok, d
  <2> QED BY <1>2, <1>3, <2>1, <2>2
<1> QED BY <1>4, <1>5, <1>6, <1>7, <1>8, <1>9, <1>10

\* What a handler's step does to its own session.
LEMMA OwnSpares ==
  ASSUME NEW q \in Procs, SerialInv(q), Handles(q), Spares(sess[q], Refused(sess[q].o))
  PROVE  Spares(sess[q], Refused(sess[q].o))'
<1> DEFINE s == sess[q]
           t == sess'[q]
<1>0. TypeInv /\ TrailInv /\ s \in Session
  BY SerialFacts DEF SerialInv, CoverInv
<1>1. ASSUME UNCHANGED attempts, Spares(t, Refused(t.o)) PROVE Spares(sess[q], Refused(sess[q].o))'
  BY <1>1 DEF Spares, Refused
<1>2. ASSUME Effect(s, t), UNCHANGED attempts, s.pc \notin SearchPc \cup {"order"}
      PROVE  Spares(sess[q], Refused(sess[q].o))'
  BY <1>1, <1>2, EffectSpares
<1>3. CASE /\ Unwritten /\ Effect(s, t)
           /\ Request(q) \/ Step(q)
           /\ s.pc \in SearchPc \cup {"order"}
  <2>1. \/ Retrigger(q) \/ FetchExcluded(q) \/ Discover(q) \/ Score(q) \/ CheckAndUnlock(q)
        \/ \E d \in Drivers : AcquireLock(q, d) \/ LockFailed(q, d)
    <3>1. ~ Request(q)
      BY <1>3 DEF Request, UpdateStatus, AssignFetchOrder, TriggerAssignment, AnswerOffer,
         UpdateLocation, UpdateAvailability, Begin, SearchPc
    <3>2. /\ ~ ReleaseDriver(q) /\ ~ IndexDriver(q) /\ ~ AssignFetchDriver(q) /\ ~ AssignRefused(q)
          /\ ~ Unindex(q) /\ ~ AcceptFetchDriver(q) /\ ~ FetchAttempt(q) /\ ~ NoAttempt(q)
      BY <1>3 DEF ReleaseDriver, IndexDriver, AssignFetchDriver, AssignRefused, Unindex,
         AcceptFetchDriver, FetchAttempt, NoAttempt, SearchPc
    <3>3. /\ ~ ReloadDriver(q) /\ ~ Reindex(q) /\ ~ StoreDriver(q) /\ ~ Commit(q)
          /\ ~ Refresh(q) /\ ~ Announce(q) /\ \A d \in Drivers : ~ PurgeGhost(q, d)
      BY <1>3 DEF ReloadDriver, Reindex, StoreDriver, Commit, Refresh, Announce, PurgeGhost,
         SearchPc
    <3> QED BY <1>3, <3>1, <3>2, <3>3 DEF Step
  <2>2. PICK R : R = Refused(s.o)
    OBVIOUS
  <2>3. Spares(t, R) /\ t.o = s.o
    BY <2>1, <2>2, SearchSpares
  <2>4. UNCHANGED attempts
    BY <1>3 DEF Unwritten
  <2>5. Refused(t.o) = R
    BY <2>2, <2>3
  <2> QED BY <1>1, <2>3, <2>4, <2>5
<1>4. CASE Commit(q)
  <2>1. t.pc \in {"order", "refresh"}
    BY <1>4, CommitSession
  <2> QED BY <2>1 DEF Spares
<1>5. CASE Refresh(q)
  <2>1. t.pc = "announce"
    BY <1>5, RefreshSession
  <2> QED BY <2>1 DEF Spares
<1>6. CASE Announce(q) \/ Abort(q)
  <2>1. t = Idle
    BY <1>0, <1>6, Slot DEF Announce, Abort
  <2> QED BY <2>1 DEF Spares, Idle
<1>7. ASSUME NEW i \in timers, TimeoutFires(q, i) PROVE Spares(sess[q], Refused(sess[q].o))'
  BY <1>0, <1>2, <1>7, TimerEffect DEF Unwritten, TimeoutFires, SearchPc
<1>8. CASE SweepGhosts(q)
  BY <1>0, <1>2, <1>8, SweepEffect DEF Unwritten, SweepGhosts, SearchPc
<1> QED BY <1>2, <1>3, <1>4, <1>5, <1>6, <1>7, <1>8 DEF Handles, Unwritten

\* The commit of another slot answers no offer of the order that p works on.
LEMMA OtherSpares ==
  ASSUME ApartInv, NEW q \in Procs, NEW p \in Procs \ {q}, Handles(q),
         Spares(sess[p], Refused(sess[p].o))
  PROVE  Spares(sess[p], Refused(sess[p].o))'
<1> DEFINE s == sess[p]
<1>0. /\ SerialInv(q) /\ sess \in [Procs -> Session] /\ attempts \in Seq(AttemptRow)
      /\ sess'[p] = s
  BY SlotInv, SerialFacts, HandlesAlone
<1>1. CASE ~ Commit(q)
  <2>1. UNCHANGED attempts
    BY <1>1, HandlesWrites DEF ApartInv
  <2> QED BY <1>0, <2>1 DEF Spares, Refused
<1>2. CASE Commit(q) /\ s.pc = "idle"
  BY <1>0, <1>2 DEF Spares
<1>3. CASE Commit(q) /\ s.pc # "idle"
  <2>1. sess[q].pc = "commit" /\ s.o # sess[q].o
    BY <1>0, <1>3, OtherOrder, CommitOrder DEF OrderPc
  <2>2. Refused(s.o)' \subseteq Refused(s.o)
    <3> SUFFICES ASSUME NEW i \in DOMAIN attempts', attempts'[i].order = s.o,
                        attempts'[i].status \in {"REJECTED", "TIMEOUT"}
                 PROVE  attempts'[i].driver \in Refused(s.o)
      BY <1>0 DEF Refused
    <3>1. i \in DOMAIN attempts
      BY <1>0, <1>3, <2>1, CommitGrows
    <3>2. attempts'[i] = attempts[i]
      BY <1>0, <1>3, <2>1, <3>1, CommitAttempts, CommitElsewhere
    <3> QED BY <3>1, <3>2 DEF Refused
  <2>3. Refused(sess[p].o)' \subseteq Refused(s.o)
    BY <1>0, <2>2 DEF Refused
  <2> QED BY <1>0, <2>3 DEF Spares
<1> QED BY <1>1, <1>2, <1>3

LEMMA SparesStep ==
  ASSUME ApartInv, SparesAll, [Next]_vars PROVE SparesAll'
<1>1. ASSUME NEW q \in Procs, Handles(q) PROVE SparesAll'
  <2>1. ASSUME NEW p \in Procs \ {q} PROVE Spares(sess[p], Refused(sess[p].o))'
    BY <1>1, OtherSpares DEF SparesAll
  <2>2. Spares(sess[q], Refused(sess[q].o))'
    BY <1>1, SlotInv, OwnSpares DEF SparesAll
  <2> QED BY <2>1, <2>2 DEF SparesAll
<1>2. CASE UNCHANGED <<attempts, sess>>
  BY <1>2 DEF SparesAll, Spares, Refused
<1> QED BY <1>1, <1>2, SerialCases
        DEF CreateDelivery, TimeoutMoot, LoseTimer, GrowStale, LockExpires, tables, vars

\* While handlers that overlap are apart, also when handlers are cut off at any
\* await, no search offers an order to a driver that rejected it or let an offer
\* of it expire.
THEOREM NotOfferedAgainHolds == ApartSpec => NotOfferedAgain
<1> DEFINE A == \A i \in DOMAIN attempts' \ DOMAIN attempts : \A j \in DOMAIN attempts :
                  /\ attempts[j].order = attempts'[i].order
                  /\ attempts[j].driver = attempts'[i].driver
                  => attempts[j].status \notin {"REJECTED", "TIMEOUT"}
<1>1. Init => SparesAll
  BY DEF Init, StoreInit, SparesAll, Spares, Idle
<1>2. ApartInv /\ SparesAll /\ [Next /\ Apart']_vars => SparesAll'
  <2>1. [Next /\ Apart']_vars => [Next]_vars
    OBVIOUS
  <2> QED BY <2>1, SparesStep
<1>3. ApartInv /\ SparesAll /\ [Next /\ Apart']_vars => [A]_vars
  <2> SUFFICES ASSUME ApartInv, SparesAll, [Next]_vars,
                      NEW i \in DOMAIN attempts' \ DOMAIN attempts, NEW j \in DOMAIN attempts,
                      attempts[j].order = attempts'[i].order,
                      attempts[j].driver = attempts'[i].driver
               PROVE  attempts[j].status \notin {"REJECTED", "TIMEOUT"}
    OBVIOUS
  <2>1. PICK q \in Procs : Commit(q)
    <3>1. ASSUME NEW q \in Procs, Handles(q), ~ Commit(q) PROVE FALSE
      BY <3>1, HandlesWrites DEF ApartInv
    <3> QED BY <3>1, SerialCases
            DEF CreateDelivery, TimeoutMoot, LoseTimer, GrowStale, LockExpires, tables, vars
  <2> DEFINE s == sess[q]
  <2>2. SerialInv(q) /\ attempts \in Seq(AttemptRow) /\ Spares(s, Refused(s.o)) /\ s.pc = "commit"
    BY <2>1, SlotInv, SerialFacts, CommitOrder DEF SparesAll
  <2>3. /\ s.op = "Trigger" /\ s.pick # NoDriver
        /\ attempts'[i].order = s.o /\ attempts'[i].driver = s.pick
    BY <2>1, <2>2, CommitGrows
  <2>4. s.pick \notin Refused(s.o)
    BY <2>2, <2>3 DEF Spares
  <2> QED BY <2>3, <2>4 DEF Refused
<1> QED BY <1>1, <1>2, <1>3, ApartInvariant, PTL DEF ApartSpec, NotOfferedAgain

-----------------------------------------------------------------------------
(* Without failures: the channel *)

\* A step of these kinds neither follows nor starts an announcement.
LEMMA EffectNotAfter ==
  ASSUME NEW s, NEW t, Effect(s, t) PROVE ~ After(s) /\ ~ After(t)
BY DEF Effect, Opens, OpensPatch, Searches, Finds, Onward, Takes, Answers, Drives, Ends, Idle,
       After, Changed, SearchPc, DriverPc

\* What was last published of o is what is stored, or its announcement is due.
Due(o) == \E q \in Procs : After(sess[q]) /\ sess[q].o = o
Told(o) == orders[o].status \in {"ABSENT", "CREATED"} \/ channel[o] = orders[o] \/ Due(o)

ChannelInv == \A o \in Orders : Told(o)

\* The payload is the row, also where the search cleared the driver.
LEMMA PayloadIsRow ==
  ASSUME NEW s \in Session, SerialOK(s), s.pc = "announce" PROVE Payload(s) = orders[s.o]
<1>1. s.now = orders[s.o] /\ Stored(s)
  BY DEF SerialOK, After
<1>2. CASE s.op = "Trigger" /\ s.pick = NoDriver
  <2>1. s.now = [status |-> Outcome(NoDriver), driver |-> NoDriver]
    BY <1>1, <1>2 DEF Stored
  <2>2. [s.now EXCEPT !.driver = NoDriver] = s.now
    BY <2>1
  <2> QED BY <1>1, <1>2, <2>2 DEF Payload
<1> QED BY <1>1, <1>2 DEF Payload

\* A step of slot q, for an order that is not its own.
LEMMA ToldElsewhere ==
  ASSUME NEW o \in Orders, Told(o), NEW q \in Procs,
         \A p \in Procs \ {q} : sess'[p] = sess[p],
         After(sess[q]) /\ sess[q].o = o => After(sess'[q]) /\ sess'[q].o = o,
         orders'[o] = orders[o], channel'[o] = channel[o]
  PROVE  Told(o)'
<1>1. ASSUME Due(o) PROVE Due(o)'
  <2>1. PICK p \in Procs : After(sess[p]) /\ sess[p].o = o
    BY <1>1 DEF Due
  <2>2. After(sess'[p]) /\ sess'[p].o = o
    BY <2>1
  <2> QED BY <2>2 DEF Due, After
<1> QED BY <1>1 DEF Told

LEMMA ChannelHandles ==
  ASSUME ~ Faults, ApartInv, ApartInv', ChannelInv, NEW q \in Procs, Handles(q)
  PROVE  ChannelInv'
<1> DEFINE s == sess[q]
           t == sess'[q]
<1>0. /\ SerialInv(q) /\ s \in Session /\ SerialOK(s) /\ SessionOK(s)
      /\ orders \in [Orders -> OrderRow] /\ channel \in [Orders -> OrderRow]
      /\ \A p \in Procs \ {q} : sess'[p] = sess[p]
  BY SlotInv, SerialFacts, HandlesAlone DEF TypeInv, TypeOK
<1> SUFFICES ASSUME NEW o \in Orders PROVE Told(o)'
  BY DEF ChannelInv
<1>1. Told(o)
  BY DEF ChannelInv
<1>2. CASE Unwritten /\ Effect(s, t)
  <2>1. ~ After(s)
    BY <1>2, EffectNotAfter
  <2> HIDE DEF s, t
  <2> QED BY <1>0, <1>1, <1>2, <2>1, ToldElsewhere DEF Unwritten, s
<1>3. CASE Commit(q)
  <2>1. /\ s.pc = "commit" /\ Plan(s) /\ s.o \in Orders /\ s.was = orders[s.o]
        /\ orders' = [orders EXCEPT ![s.o] = s.now] /\ UNCHANGED channel
    BY <1>0, <1>3, CommitOrder DEF Commit, redis
  <2>2. t.pc = (IF s.op \in {"Reject", "Timeout"} THEN "order" ELSE "refresh") /\ t.o = s.o
    BY <1>0, <1>3, CommitSession
  <2>3. s.op \in {"Reject", "Timeout"} => s.now = s.was
    BY <2>1 DEF Plan
  <2> HIDE DEF s, t
  <2>4. ~ After(s)
    BY <2>1 DEF After
  <2>5. CASE o = s.o /\ s.op \notin {"Reject", "Timeout"}
    <3>1. After(t) /\ t.o = o
      BY <2>2, <2>5 DEF After
    <3> QED BY <3>1 DEF Told, Due, After, t
  <2>6. CASE o # s.o \/ s.op \in {"Reject", "Timeout"}
    <3>1. orders'[o] = orders[o] /\ channel'[o] = channel[o]
      BY <1>0, <2>1, <2>3, <2>6
    <3> QED BY <1>0, <1>1, <2>4, <3>1, ToldElsewhere DEF s
  <2> QED BY <2>5, <2>6
<1>4. CASE Refresh(q)
  <2>1. After(t) /\ t.o = s.o /\ UNCHANGED <<orders, channel>>
    BY <1>0, <1>4, RefreshSession DEF After, Refresh, tables, redis
  <2> QED BY <1>0, <1>1, <2>1, ToldElsewhere
<1>5. CASE Announce(q)
  <2>1. /\ s.pc = "announce" /\ channel' = [channel EXCEPT ![s.o] = Payload(s)]
        /\ UNCHANGED orders
    BY <1>5 DEF Announce, tables
  <2>2. Payload(s) = orders[s.o]
    BY <1>0, <2>1, PayloadIsRow
  <2>3. CASE o = s.o
    <3>1. channel'[o] = orders'[o]
      BY <1>0, <2>1, <2>2, <2>3
    <3> QED BY <3>1 DEF Told
  <2>4. CASE o # s.o
    <3>1. channel'[o] = channel[o]
      BY <1>0, <2>1, <2>4
    <3> QED BY <1>0, <1>1, <2>1, <2>4, <3>1, ToldElsewhere
  <2> QED BY <2>3, <2>4
<1>6. ASSUME NEW i \in timers, TimeoutFires(q, i) PROVE Told(o)'
  BY <1>2, <1>6, TimerEffect DEF ApartInv, CoverInv
<1>7. CASE SweepGhosts(q)
  BY <1>2, <1>7, SweepEffect DEF ApartInv, CoverInv
<1>8. ~ Abort(q)
  BY DEF Abort
<1> QED BY <1>2, <1>3, <1>4, <1>5, <1>6, <1>7, <1>8 DEF Handles

LEMMA ChannelStep ==
  ASSUME ~ Faults, ApartInv, ApartInv', ChannelInv, [Next]_vars PROVE ChannelInv'
<1>1. ASSUME NEW x \in Orders, CreateDelivery(x) PROVE ChannelInv'
  <2>1. /\ orders' = [orders EXCEPT ![x] = [status |-> "CREATED", driver |-> NoDriver]]
        /\ UNCHANGED <<channel, sess>> /\ orders \in [Orders -> OrderRow]
    BY <1>1 DEF CreateDelivery, redis, ApartInv, CoverInv, TrailInv, TypeInv, TypeOK
  <2> QED BY <2>1 DEF ChannelInv, Told, Due, After
<1>2. ASSUME NEW q \in Procs, Handles(q) PROVE ChannelInv'
  BY <1>2, ChannelHandles
<1>3. CASE UNCHANGED <<orders, channel, sess>>
  BY <1>3 DEF ChannelInv, Told, Due, After
<1>4. ASSUME NEW i \in timers, TimeoutMoot(i) PROVE ChannelInv'
  BY <1>3, <1>4 DEF TimeoutMoot, tables, redis
<1>5. ASSUME NEW d \in Drivers, GrowStale(d) PROVE ChannelInv'
  BY <1>3, <1>5 DEF GrowStale, redis
<1>6. CASE UNCHANGED vars
  BY <1>3, <1>6 DEF vars, tables, redis
<1>7. /\ \A i : ~ LoseTimer(i) /\ \A d : ~ LockExpires(d)
  BY DEF LoseTimer, LockExpires
<1> QED BY <1>1, <1>2, <1>4, <1>5, <1>6, <1>7, SerialCases

\* While handlers that overlap are apart and none is cut off, the last message on
\* the channel of an order that no handler works on is the order as it is stored,
\* whatever handler wrote it: every commit that changes an order is followed by
\* its announcement.
THEOREM ChannelAgreesHolds == ASSUME ~ Faults PROVE ApartSpec => []ChannelAgrees
<1>1. Init => ChannelInv
  BY DEF Init, StoreInit, Absent, ChannelInv, Told
<1>2. ApartInv /\ ApartInv' /\ ChannelInv /\ [Next /\ Apart']_vars => ChannelInv'
  BY ChannelStep
<1>3. ChannelInv => ChannelAgrees
  BY DEF ChannelInv, Told, Due, ChannelAgrees, AtRest, After
<1> QED BY <1>1, <1>2, <1>3, ApartInvariant, PTL DEF ApartSpec

-----------------------------------------------------------------------------
(* Without failures: the offer timers *)

\* The handlers that take a pending order from its timer, or find it a driver.
Searcher == {"Reject", "Timeout", "Trigger"}

HasTimer(o) == \E i \in timers : attempts[i].order = o /\ attempts[i].driver = orders[o].driver
InHand(s, o) == s.o = o /\ s.pc # "idle" /\ s.op \in Searcher

\* A PATCH made o pending: a move to DRIVER_PENDING has no attempt.
Unoffered(o) == Cardinality(Mine(o)) < Cardinality(Moves(audit[o], "DRIVER_PENDING"))

TimerInv ==
  \A o \in Orders : orders[o].status = "DRIVER_PENDING" =>
    HasTimer(o) \/ Unoffered(o) \/ \E q \in Procs : InHand(sess[q], o)

\* A handler that has a pending order in hand keeps it until its announcement.
LEMMA EffectKeepsInHand ==
  ASSUME NEW s, NEW t, SerialOK(s), Effect(s, t), NEW o, InHand(s, o) PROVE InHand(t, o)
<1> USE DEF InHand, Searcher, DriverOp, DriverPc, SearchPc, Same
<1>1. s.pc # "idle" /\ s.o = o /\ s.op \in Searcher
  OBVIOUS
<1>2. s.pc \notin DriverPc
  BY <1>1 DEF SerialOK
<1>3. CASE Searches(s, t)
  BY <1>1, <1>3 DEF Searches
<1>4. CASE Finds(s, t)
  BY <1>1, <1>4 DEF Finds
<1>5. CASE Onward(s, t)
  BY <1>1, <1>5 DEF Onward
<1>6. CASE Answers(s, t)
  BY <1>1, <1>6 DEF Answers
<1>7. CASE Opens(s, t) \/ OpensPatch(s, t) \/ Takes(s, t) \/ Drives(s, t) \/ Ends(s, t)
  BY <1>1, <1>2, <1>7 DEF Opens, OpensPatch, Takes, Drives, Ends
<1> QED BY <1>3, <1>4, <1>5, <1>6, <1>7 DEF Effect

\* A step of slot q that leaves the order o and its attempts alone.
LEMMA TimerElsewhere ==
  ASSUME NEW o \in Orders, TimerInv, NEW q \in Procs, TypeInv,
         \A p \in Procs \ {q} : sess'[p] = sess[p],
         InHand(sess[q], o) => InHand(sess'[q], o),
         orders'[o] = orders[o], orders'[o].status = "DRIVER_PENDING", audit'[o] = audit[o],
         Mine(o)' = Mine(o),
         \A i \in timers : attempts[i].order = o /\ attempts[i].driver = orders[o].driver =>
           \/ /\ i \in timers'
              /\ attempts'[i].order = attempts[i].order
              /\ attempts'[i].driver = attempts[i].driver
           \/ InHand(sess'[q], o)
  PROVE  HasTimer(o)' \/ Unoffered(o)' \/ \E p \in Procs : InHand(sess'[p], o)
<1>1. HasTimer(o) \/ Unoffered(o) \/ \E p \in Procs : InHand(sess[p], o)
  BY DEF TimerInv
<1>2. CASE HasTimer(o)
  BY <1>2 DEF HasTimer
<1>3. CASE Unoffered(o)
  <2>1. Cardinality(Mine(o))' = Cardinality(Mine(o))
    OBVIOUS
  <2>2. Moves(audit[o], "DRIVER_PENDING")' = Moves(audit[o], "DRIVER_PENDING")
    BY DEF Moves
  <2> QED BY <1>3, <2>1, <2>2 DEF Unoffered
<1>4. ASSUME NEW p \in Procs, InHand(sess[p], o) PROVE \E r \in Procs : InHand(sess'[r], o)
  BY <1>4
<1> QED BY <1>1, <1>2, <1>3, <1>4

LEMMA EffectTimers ==
  ASSUME ApartInv, TimerInv, NEW q \in Procs, Handles(q), Unwritten, UNCHANGED timers,
         Effect(sess[q], sess'[q])
  PROVE  TimerInv'
<1> SUFFICES ASSUME NEW o \in Orders, orders'[o].status = "DRIVER_PENDING"
             PROVE  HasTimer(o)' \/ Unoffered(o)' \/ \E p \in Procs : InHand(sess'[p], o)
  BY DEF TimerInv, InHand
<1>1. /\ \A p \in Procs \ {q} : sess'[p] = sess[p]
      /\ SerialOK(sess[q]) /\ TypeInv
  BY SlotInv, SerialFacts, HandlesAlone
<1>2. InHand(sess[q], o) => InHand(sess'[q], o)
  BY <1>1, EffectKeepsInHand
<1>3. UNCHANGED <<orders, attempts, audit>> /\ Mine(o)' = Mine(o)
  BY DEF Unwritten, Mine
<1> QED BY <1>1, <1>2, <1>3, TimerElsewhere

LEMMA TimeoutTimers ==
  ASSUME ApartInv, TimerInv, NEW q \in Procs, NEW i \in timers, TimeoutFires(q, i)
  PROVE  TimerInv'
<1> SUFFICES ASSUME NEW o \in Orders, orders'[o].status = "DRIVER_PENDING"
             PROVE  HasTimer(o)' \/ Unoffered(o)' \/ \E p \in Procs : InHand(sess'[p], o)
  BY DEF TimerInv, InHand
<1> DEFINE a == attempts[i]
           row == orders[a.order]
           t == [Idle EXCEPT !.pc = "attempt", !.op = "Timeout", !.o = a.order,
                             !.ask = a.driver, !.was = row, !.now = row]
<1>1. /\ Continue(q, t) /\ sess[q].pc = "idle" /\ timers' = timers \ {i}
      /\ UNCHANGED <<orders, attempts, audit>> /\ Mine(o)' = Mine(o)
  BY DEF TimeoutFires, tables, Mine
<1>2. t.pc = "attempt" /\ t.op = "Timeout" /\ t.o = a.order
  BY DEF Idle
<1> HIDE DEF t
<1>3. sess'[q] = t /\ TypeInv /\ \A p \in Procs \ {q} : sess'[p] = sess[p]
  BY <1>1, Slot, SlotInv, SerialFacts, OneSession
<1>4. ASSUME NEW j \in timers, attempts[j].order = o, j = i PROVE InHand(sess'[q], o)
  BY <1>2, <1>3, <1>4 DEF InHand, Searcher
<1>5. ~ InHand(sess[q], o)
  BY <1>1 DEF InHand
<1> QED BY <1>1, <1>3, <1>4, <1>5, TimerElsewhere

\* A timer that finds its offer answered was not the one an order waits for.
LEMMA MootTimers ==
  ASSUME TimerInv, NEW i \in timers, TimeoutMoot(i) PROVE TimerInv'
<1> SUFFICES ASSUME NEW o \in Orders, orders'[o].status = "DRIVER_PENDING"
             PROVE  HasTimer(o)' \/ Unoffered(o)' \/ \E p \in Procs : InHand(sess[p], o)
  BY DEF TimerInv, InHand, TimeoutMoot
<1>1. /\ timers' = timers \ {i} /\ UNCHANGED <<orders, attempts, audit>>
      /\ ~ (/\ orders[attempts[i].order].status = "DRIVER_PENDING"
            /\ orders[attempts[i].order].driver = attempts[i].driver)
  BY DEF TimeoutMoot, tables
<1>2. CASE HasTimer(o)
  <2>1. PICK j \in timers : attempts[j].order = o /\ attempts[j].driver = orders[o].driver
    BY <1>2 DEF HasTimer
  <2>2. j # i
    BY <1>1, <2>1
  <2> QED BY <1>1, <2>1, <2>2 DEF HasTimer
<1>3. CASE Unoffered(o)
  BY <1>1, <1>3 DEF Unoffered, Mine, Moves
<1> QED BY <1>1, <1>2, <1>3 DEF TimerInv

\* A PATCH to DRIVER_PENDING adds a move and no attempt.
LEMMA PatchUnoffered ==
  ASSUME CoverInv, NEW q \in Procs, Commit(q), sess[q].op = "Patch",
         NEW o \in Orders, o = sess[q].o,
         NEW rows \in Seq(Edge), rows = sess[q].rows, Records(rows, "DRIVER_PENDING")
  PROVE  Unoffered(o)'
<1> DEFINE before == Moves(audit[o], "DRIVER_PENDING")
           after == Moves(audit[o] \o rows, "DRIVER_PENDING")
<1>1. Mine(o)' \subseteq Mine(o)
  BY CommitMine
<1>2. audit[o] \in Seq(Edge) /\ audit'[o] = audit[o] \o rows
  BY DEF Commit, CoverInv, TrailInv, TypeInv, TypeOK
<1>3. /\ IsFiniteSet(Mine(o)) /\ Cardinality(Mine(o)) \in Nat
      /\ Cardinality(Mine(o)) <= Cardinality(before)
  BY MineFinite DEF CoverInv, TrailInv, Covered
<1>4. Cardinality(before) \in Nat /\ Cardinality(before) + 1 <= Cardinality(after)
  BY <1>2, MovesFinite, MovesAppended
<1>5. Cardinality(after) \in Nat
  <2>1. audit[o] \o rows \in Seq(Edge)
    BY <1>2
  <2> QED BY <2>1, MovesFinite
<1>6. Cardinality(Moves(audit[o], "DRIVER_PENDING"))' = Cardinality(after)
  BY <1>2 DEF Moves
<1> HIDE DEF before, after
<1>7. IsFiniteSet(Mine(o)') /\ Cardinality(Mine(o)') <= Cardinality(Mine(o))
  BY <1>1, <1>3, FS_Subset
<1>8. Cardinality(Mine(o)') \in Nat
  BY <1>7, FS_CardinalityType
<1>9. Cardinality(Mine(o)') < Cardinality(after)
  BY <1>3, <1>4, <1>5, <1>7, <1>8
<1> QED BY <1>6, <1>9 DEF Unoffered

LEMMA CommitTimers ==
  ASSUME ApartInv, TimerInv, NEW q \in Procs, Commit(q) PROVE TimerInv'
<1> DEFINE s == sess[q]
           t == sess'[q]
<1>0. /\ SerialInv(q) /\ TypeInv /\ s \in Session /\ attempts \in Seq(AttemptRow)
      /\ audit \in [Orders -> Seq(Edge)]
      /\ \A p \in Procs \ {q} : sess'[p] = sess[p]
  BY SlotInv, SerialFacts, HandlesAlone DEF Handles
<1>1. /\ s.pc = "commit" /\ Plan(s) /\ s.o \in Orders /\ s.was = orders[s.o]
      /\ orders' = [orders EXCEPT ![s.o] = s.now] /\ orders \in [Orders -> OrderRow]
      /\ audit' = [audit EXCEPT ![s.o] = @ \o s.rows] /\ s.rows \in Seq(Edge)
      /\ UNCHANGED timers /\ timers \subseteq DOMAIN attempts
  BY <1>0, CommitOrder DEF Commit, tasks, TypeInv, TypeOK, Session
<1>2. /\ t.pc = (IF s.op \in {"Reject", "Timeout"} THEN "order" ELSE "refresh")
      /\ t.o = s.o /\ t.op = s.op
  BY <1>0, CommitSession
<1>3. \A i \in timers : /\ attempts'[i].order = attempts[i].order
                        /\ attempts'[i].driver = attempts[i].driver
  BY <1>0, <1>1, CommitAttempts
<1> SUFFICES ASSUME NEW o \in Orders, orders'[o].status = "DRIVER_PENDING"
             PROVE  HasTimer(o)' \/ Unoffered(o)' \/ \E p \in Procs : InHand(sess'[p], o)
  BY DEF TimerInv, InHand
<1>4. CASE o = s.o
  <2>1. CASE s.op \in Searcher
    BY <1>2, <1>4, <2>1 DEF InHand
  <2>2. CASE s.op = "Patch" /\ PlanPatch(s)
    <3>1. s.now.status = "DRIVER_PENDING"
      BY <1>1, <1>4
    <3>2. s.st = "DRIVER_PENDING"
      BY <2>2, <3>1 DEF PlanPatch, Patched
    <3>3. s.rows = << <<s.was.status, "DRIVER_PENDING">> >>
      BY <2>2, <3>2 DEF PlanPatch, PatchTrail
    <3>4. Records(s.rows, "DRIVER_PENDING")
      BY <3>3 DEF Records
    <3>5. CoverInv
      BY DEF ApartInv
    <3> QED BY <1>1, <1>4, <2>2, <3>4, <3>5, PatchUnoffered
  <2>3. CASE s.op \in {"Assign", "Accept"} /\ PlanAssigned(s)
    BY <1>1, <1>4, <2>3 DEF PlanAssigned
  <2> QED BY <1>1, <2>1, <2>2, <2>3 DEF Plan, Searcher
<1>5. CASE o # s.o
  <2>1. orders'[o] = orders[o] /\ audit'[o] = audit[o] /\ ~ InHand(s, o)
    BY <1>0, <1>1, <1>5 DEF InHand
  <2>2. Mine(o)' = Mine(o)
    <3>1. Mine(o)' \subseteq Mine(o)
      BY <1>5, CommitMine DEF ApartInv
    <3>2. Mine(o) \subseteq Mine(o)'
      BY <1>0, CommitAttempts DEF Mine
    <3> QED BY <3>1, <3>2
  <2> QED BY <1>0, <1>1, <1>3, <2>1, <2>2, TimerElsewhere
<1> QED BY <1>4, <1>5

\* The announcement of an offer arms its timer.
LEMMA AnnounceTimers ==
  ASSUME ApartInv, TimerInv, NEW q \in Procs, Announce(q) PROVE TimerInv'
<1> DEFINE s == sess[q]
<1>1. /\ s.pc = "announce" /\ timers' = Armed(s) /\ UNCHANGED <<orders, attempts, audit>>
      /\ SerialOK(s) /\ attempts \in Seq(AttemptRow) /\ TypeInv
      /\ \A p \in Procs \ {q} : sess'[p] = sess[p]
  BY SlotInv, SerialFacts, HandlesAlone DEF Announce, Handles, tables
<1>2. Stored(s) /\ timers \subseteq timers'
  BY <1>1 DEF SerialOK, After, Armed
<1> HIDE DEF s
<1> SUFFICES ASSUME NEW o \in Orders, orders'[o].status = "DRIVER_PENDING"
             PROVE  HasTimer(o)' \/ Unoffered(o)' \/ \E p \in Procs : InHand(sess'[p], o)
  BY DEF TimerInv, InHand
<1>3. CASE ~ InHand(s, o)
  <2>1. Mine(o)' = Mine(o)
    BY <1>1 DEF Mine
  <2> QED BY <1>1, <1>2, <1>3, <2>1, TimerElsewhere DEF s
<1>4. CASE InHand(s, o)
  <2>1. s.op = "Trigger" /\ orders[o] = [status |-> Outcome(s.pick), driver |-> s.pick]
    BY <1>1, <1>2, <1>4 DEF InHand, Stored, Searcher
  <2>2. s.pick # NoDriver /\ orders[o].driver = s.pick
    BY <1>1, <2>1 DEF Outcome
  <2>3. s.att \in DOMAIN attempts /\ attempts[s.att].order = o /\ attempts[s.att].driver = s.pick
    BY <1>2, <1>4, <2>1, <2>2 DEF Stored, InHand
  <2>4. s.att \in timers'
    BY <1>1, <2>3 DEF Armed
  <2> QED BY <1>1, <2>2, <2>3, <2>4 DEF HasTimer
<1> QED BY <1>3, <1>4

LEMMA RefreshTimers ==
  ASSUME ApartInv, TimerInv, NEW q \in Procs, Refresh(q) PROVE TimerInv'
<1>1. /\ sess'[q].pc = "announce" /\ sess'[q].o = sess[q].o /\ sess'[q].op = sess[q].op
      /\ sess[q].pc = "refresh" /\ UNCHANGED <<orders, attempts, audit, timers>> /\ TypeInv
      /\ \A p \in Procs \ {q} : sess'[p] = sess[p]
  BY SlotInv, SerialFacts, RefreshSession, HandlesAlone DEF Refresh, Handles, tables, tasks
<1> SUFFICES ASSUME NEW o \in Orders, orders'[o].status = "DRIVER_PENDING"
             PROVE  HasTimer(o)' \/ Unoffered(o)' \/ \E p \in Procs : InHand(sess'[p], o)
  BY DEF TimerInv, InHand
<1>2. Mine(o)' = Mine(o) /\ (InHand(sess[q], o) => InHand(sess'[q], o))
  BY <1>1 DEF Mine, InHand
<1> QED BY <1>1, <1>2, TimerElsewhere

LEMMA TimerStepOne ==
  ASSUME ~ Faults, ApartInv, TimerInv, [Next]_vars PROVE TimerInv'
<1>1. ASSUME NEW x \in Orders, CreateDelivery(x) PROVE TimerInv'
  <2>1. /\ orders' = [orders EXCEPT ![x] = [status |-> "CREATED", driver |-> NoDriver]]
        /\ \A o \in Orders \ {x} : audit'[o] = audit[o]
        /\ UNCHANGED <<attempts, timers, sess>> /\ orders \in [Orders -> OrderRow]
    BY <1>1 DEF CreateDelivery, tasks, ApartInv, CoverInv, TrailInv, TypeInv, TypeOK
  <2> SUFFICES ASSUME NEW o \in Orders, orders'[o].status = "DRIVER_PENDING"
               PROVE  HasTimer(o)' \/ Unoffered(o)' \/ \E p \in Procs : InHand(sess[p], o)
    BY <2>1 DEF TimerInv, InHand
  <2>2. o # x /\ orders'[o] = orders[o]
    BY <2>1
  <2>3. HasTimer(o) => HasTimer(o)'
    BY <2>1, <2>2 DEF HasTimer
  <2>4. Unoffered(o) => Unoffered(o)'
    BY <2>1, <2>2 DEF Unoffered, Mine, Moves
  <2> QED BY <2>2, <2>3, <2>4 DEF TimerInv
<1>2. ASSUME NEW q \in Procs, Handles(q) PROVE TimerInv'
  <2>1. CASE Unwritten /\ UNCHANGED timers /\ Effect(sess[q], sess'[q])
    BY <1>2, <2>1, EffectTimers
  <2>2. ASSUME NEW i \in timers, TimeoutFires(q, i) PROVE TimerInv'
    BY <2>2, TimeoutTimers
  <2>3. CASE SweepGhosts(q)
    BY <1>2, <2>1, <2>3, SweepEffect DEF ApartInv, CoverInv
  <2>4. ~ Abort(q)
    BY DEF Abort
  <2> QED BY <1>2, <2>1, <2>2, <2>3, <2>4, CommitTimers, RefreshTimers, AnnounceTimers
             DEF Handles
<1>3. ASSUME NEW i \in timers, TimeoutMoot(i) PROVE TimerInv'
  BY <1>3, MootTimers
<1>4. CASE UNCHANGED <<orders, attempts, audit, timers, sess>>
  BY <1>4 DEF TimerInv, HasTimer, Unoffered, Mine, Moves, InHand
<1>5. ASSUME NEW d \in Drivers, GrowStale(d) PROVE TimerInv'
  BY <1>4, <1>5 DEF GrowStale, tasks
<1>6. CASE UNCHANGED vars
  BY <1>4, <1>6 DEF vars, tables, tasks
<1>7. /\ \A i : ~ LoseTimer(i) /\ \A d : ~ LockExpires(d)
  BY DEF LoseTimer, LockExpires
<1> QED BY <1>1, <1>2, <1>3, <1>5, <1>6, <1>7, SerialCases

\* While handlers that overlap are apart and none is cut off, every order that
\* waits for a driver has a timer armed for that very offer, or a handler working
\* on it: rejections, expired offers and new searches hand the order from one
\* timer to the next.  The exception is an order that a PATCH made
\* DRIVER_PENDING, and the trail then has a move more than there are attempts.
THEOREM PendingHasTimerHolds == ASSUME ~ Faults PROVE ApartSpec => []PendingHasTimer
<1>1. Init => TimerInv
  BY DEF Init, StoreInit, Absent, TimerInv
<1>2. ApartInv /\ TimerInv /\ [Next /\ Apart']_vars => TimerInv'
  BY TimerStepOne
<1>3. TimerInv => PendingHasTimer
  BY DEF TimerInv, HasTimer, Unoffered, Mine, Moves, InHand, PendingHasTimer, AtRest
<1> QED BY <1>1, <1>2, <1>3, ApartInvariant, PTL DEF ApartSpec

-----------------------------------------------------------------------------
(* Without failures: the geo index *)

\* The awaits at which the session holds changed driver rows.
Ahead(s) == s.pc \in {"index", "unindex", "reindex", "purge", "commit", "store"}

\* The drivers whose entry in the index it has still to write.
Behind(s) ==
  IF s.pc \in {"index", "unindex"} THEN {s.now.driver}
  ELSE IF s.pc = "reindex" THEN {s.ask}
  ELSE IF s.pc = "purge" THEN s.cand ELSE {}

\* The columns that decide whether a driver is listed.
Alike(a, b) == a.status = b.status /\ a.available = b.available /\ a.located = b.located

\* The row of d as it will be after the commit.
Expected(s, d) == IF Ahead(s) /\ s.dnow[d] # s.drv[d] THEN s.dnow[d] ELSE drivers[d]

\* The entries of the drivers in D are right, or will be.
Listed(s, D) == \A d \in D \ Behind(s) : d \in geo <=> Dispatchable(Expected(s, d))

CopiesOK(s) ==
  /\ ~ Ahead(s) => s.drv = s.dnow
  /\ Ahead(s) => \A d \in Drivers : d \in Behind(s) \/ s.dnow[d] # s.drv[d] =>
                   Alike(s.drv[d], drivers[d])
  /\ s.pc = "index" => Dispatchable(s.dnow[s.now.driver])
  /\ s.pc = "unindex" => s.dnow[s.now.driver].status = "BUSY"
  /\ s.pc = "purge" => \A d \in s.cand : s.dnow[d].status = "OFFLINE"
  /\ s.op = "Accept" /\ Before(s) => s.ask = s.was.driver
  /\ s.pc = "idle" => s.op = "none"
  /\ s.pc = "reload" => s.op = "Ping"
  /\ Behind(s) \subseteq Writes(s)

GeoInv(q, D) == Listed(sess[q], D) /\ CopiesOK(sess[q])

\* The drivers that no other slot writes.
Own(q) == {d \in Drivers : \A p \in Procs \ {q} : d \notin Writes(sess[p])}

LEMMA AlikeListed ==
  ASSUME NEW a, NEW b, Alike(a, b) PROVE Dispatchable(a) <=> Dispatchable(b)
BY DEF Alike, Dispatchable

\* A commit makes the row the one the session holds, freshness aside.
LEMMA WriteAlike ==
  ASSUME NEW was, NEW now, NEW row, was = now \/ Alike(was, row)
  PROVE  Alike(WriteDriver(was, now, row), IF now = was THEN row ELSE now)
<1>1. CASE now = was
  BY <1>1 DEF WriteDriver, Alike
<1>2. CASE now # was
  <2> DEFINE w == WriteDriver(was, now, row)
  <2>1. /\ w.status = IF now.status # was.status THEN now.status ELSE row.status
        /\ w.available = IF now.available # was.available THEN now.available ELSE row.available
        /\ w.located = IF now.located # was.located THEN now.located ELSE row.located
    BY <1>2 DEF WriteDriver
  <2>2. Alike(was, row)
    BY <1>2
  <2> HIDE DEF w
  <2>3. w.status = now.status
    BY <2>1, <2>2 DEF Alike
  <2>4. w.available = now.available
    BY <2>1, <2>2 DEF Alike
  <2>5. w.located = now.located
    BY <2>1, <2>2 DEF Alike
  <2> QED BY <1>2, <2>3, <2>4, <2>5 DEF Alike, w
<1> QED BY <1>1, <1>2

\* The listing that was to be expected is the listing that the commit makes true.
LEMMA WrittenListed ==
  ASSUME NEW q \in Procs, NEW D \in SUBSET Drivers, SerialInv(q), GeoInv(q, D),
         sess[q].pc \in {"commit", "store"},
         drivers' = WriteDrivers(sess[q]), UNCHANGED geo
  PROVE  \A d \in D : d \in geo' <=> Dispatchable(drivers'[d])
<1> DEFINE s == sess[q]
<1>1. Ahead(s) /\ Behind(s) = {}
  BY DEF Ahead, Behind
<1> SUFFICES ASSUME NEW d \in D PROVE d \in geo <=> Dispatchable(drivers'[d])
  OBVIOUS
<1>2. drivers'[d] = WriteDriver(s.drv[d], s.dnow[d], drivers[d])
  BY DEF WriteDrivers
<1>3. s.drv[d] = s.dnow[d] \/ Alike(s.drv[d], drivers[d])
  BY <1>1 DEF GeoInv, CopiesOK
<1>4. Alike(drivers'[d], IF s.dnow[d] = s.drv[d] THEN drivers[d] ELSE s.dnow[d])
  BY <1>2, <1>3, WriteAlike
<1>5. Expected(s, d) = IF s.dnow[d] = s.drv[d] THEN drivers[d] ELSE s.dnow[d]
  BY <1>1 DEF Expected
<1>6. d \in geo <=> Dispatchable(Expected(s, d))
  BY <1>1 DEF GeoInv, Listed
<1>7. Dispatchable(drivers'[d]) <=> Dispatchable(Expected(s, d))
  BY <1>4, <1>5, AlikeListed
<1> QED BY <1>6, <1>7

\* Steps of a session that holds no changed driver row, before and after.
Passive(s, t) ==
  /\ ~ Ahead(s) /\ t.drv = t.dnow /\ t.pc \notin {"index", "unindex", "reindex", "purge"}
  /\ t.op = "Accept" /\ Before(t) => t.ask = t.was.driver
  /\ t.pc = "idle" => t.op = "none"
  /\ t.pc = "reload" => t.op = "Ping"

LEMMA PassiveGeo ==
  ASSUME NEW q \in Procs, NEW D \in SUBSET Drivers, GeoInv(q, D),
         Passive(sess[q], sess'[q]), UNCHANGED <<drivers, geo>>
  PROVE  GeoInv(q, D)'
<1> DEFINE s == sess[q]
           t == sess'[q]
<1>1. /\ Behind(s) = {} /\ Behind(t) = {}
      /\ \A d : Expected(s, d) = drivers[d] /\ Expected(t, d) = drivers[d]
  BY DEF Passive, Behind, Ahead, Expected
<1>2. Listed(t, D)
  BY <1>1 DEF GeoInv, Listed
<1>3. CopiesOK(t)
  BY <1>1 DEF Passive, CopiesOK
<1>4. Listed(sess[q], D)'
  BY <1>2 DEF Listed, Expected, Behind, Ahead
<1>5. CopiesOK(sess[q])'
  BY <1>3 DEF CopiesOK, Behind, Ahead, Before, Writes
<1> QED BY <1>4, <1>5 DEF GeoInv

LEMMA PassiveRequest ==
  ASSUME NEW q \in Procs, NEW D \in SUBSET Drivers, SerialInv(q), GeoInv(q, D), Request(q),
         \A d \in Drivers, flag \in BOOLEAN : ~ UpdateAvailability(q, d, flag)
  PROVE  GeoInv(q, D)'
<1> USE DEF Passive, Ahead, Before, SearchPc
<1>0. TypeInv /\ Idle.drv = Idle.dnow
  BY SerialFacts DEF Idle
<1>1. ASSUME NEW o \in Orders, NEW st \in Patches, NEW d \in Named, UpdateStatus(q, o, st, d)
      PROVE  GeoInv(q, D)'
  <2> DEFINE row == orders[o]
             now == Patched(row, st, d)
             pc == IF Releases(st, now.driver) THEN "driver" ELSE "commit"
             rows == PatchTrail(row.status, st)
             t == [Idle EXCEPT !.pc = pc, !.op = "Patch", !.o = o, !.st = st, !.was = row,
                               !.now = now, !.rows = rows]
  <2>1. Begin(q, t) /\ sess[q].pc = "idle" /\ UNCHANGED <<drivers, geo>>
    BY <1>1 DEF UpdateStatus, Begin, tables, redis
  <2>2. pc \in {"driver", "commit"}
    OBVIOUS
  <2> HIDE DEF row, now, pc, rows
  <2>3. t.pc = pc /\ t.op = "Patch" /\ t.drv = t.dnow
    BY DEF Idle
  <2> HIDE DEF t
  <2>4. Passive(sess[q], t)
    BY <2>1, <2>2, <2>3
  <2> QED BY <1>0, <2>1, <2>4, Slot, PassiveGeo
<1>2. ASSUME NEW o \in Orders, NEW d \in Drivers, AssignFetchOrder(q, o, d) PROVE GeoInv(q, D)'
  <2> DEFINE t == [Idle EXCEPT !.pc = "driver", !.op = "Assign", !.o = o, !.ask = d,
                               !.was = orders[o], !.now = orders[o]]
  <2>1. Begin(q, t) /\ sess[q].pc = "idle" /\ UNCHANGED <<drivers, geo>>
    BY <1>2 DEF AssignFetchOrder, Begin, tables, redis
  <2>2. Passive(sess[q], t)
    BY <2>1 DEF Idle
  <2> HIDE DEF t
  <2> QED BY <1>0, <2>1, <2>2, Slot, PassiveGeo
<1>3. ASSUME NEW o \in Orders, TriggerAssignment(q, o) PROVE GeoInv(q, D)'
  <2> DEFINE t == [Idle EXCEPT !.pc = "excluded", !.op = "Trigger", !.o = o,
                               !.was = orders[o], !.now = orders[o]]
  <2>1. Begin(q, t) /\ sess[q].pc = "idle" /\ UNCHANGED <<drivers, geo>>
    BY <1>3 DEF TriggerAssignment, Begin, tables, redis
  <2>2. Passive(sess[q], t)
    BY <2>1 DEF Idle
  <2> HIDE DEF t
  <2> QED BY <1>0, <2>1, <2>2, Slot, PassiveGeo
<1>4. ASSUME NEW op \in {"Accept", "Reject"}, NEW o \in Orders, AnswerOffer(q, op, o)
      PROVE  GeoInv(q, D)'
  <2> DEFINE t == [Idle EXCEPT !.pc = "attempt", !.op = op, !.o = o, !.ask = orders[o].driver,
                               !.was = orders[o], !.now = orders[o]]
  <2>1. Begin(q, t) /\ sess[q].pc = "idle" /\ UNCHANGED <<drivers, geo>>
    BY <1>4 DEF AnswerOffer, Begin, tables, redis
  <2>2. Passive(sess[q], t)
    BY <2>1 DEF Idle
  <2> HIDE DEF t
  <2> QED BY <1>0, <2>1, <2>2, Slot, PassiveGeo
<1>5. ASSUME NEW d \in Drivers, UpdateLocation(q, d) PROVE GeoInv(q, D)'
  <2> DEFINE t == [Idle EXCEPT !.pc = "reload", !.op = "Ping", !.ask = d]
  <2>1. Begin(q, t) /\ sess[q].pc = "idle" /\ UNCHANGED <<drivers, geo>>
    BY <1>5 DEF UpdateLocation, Begin, tables, redis
  <2>2. Passive(sess[q], t)
    BY <2>1 DEF Idle
  <2> HIDE DEF t
  <2> QED BY <1>0, <2>1, <2>2, Slot, PassiveGeo
<1> QED BY <1>1, <1>2, <1>3, <1>4, <1>5 DEF Request

LEMMA PassiveTimeout ==
  ASSUME NEW q \in Procs, NEW D \in SUBSET Drivers, SerialInv(q), GeoInv(q, D),
         NEW i \in timers, TimeoutFires(q, i)
  PROVE  GeoInv(q, D)'
<1> DEFINE a == attempts[i]
           row == orders[a.order]
           t == [Idle EXCEPT !.pc = "attempt", !.op = "Timeout", !.o = a.order,
                             !.ask = a.driver, !.was = row, !.now = row]
<1>1. Continue(q, t) /\ sess[q].pc = "idle" /\ UNCHANGED <<drivers, geo>>
  BY DEF TimeoutFires, tables, redis
<1>2. Passive(sess[q], t)
  BY <1>1 DEF Idle, Passive, Ahead
<1> HIDE DEF t
<1> QED BY <1>1, <1>2, Slot, SerialFacts, PassiveGeo

\* The session ends and takes no unwritten driver row with it.
LEMMA PassiveEnd ==
  ASSUME NEW q \in Procs, NEW D \in SUBSET Drivers, SerialInv(q), GeoInv(q, D),
         AssignRefused(q) \/ Announce(q)
  PROVE  GeoInv(q, D)'
<1>1. Continue(q, Idle) /\ UNCHANGED <<drivers, geo>> /\ ~ Ahead(sess[q])
  BY DEF AssignRefused, Announce, tables, redis, Ahead
<1>2. Passive(sess[q], Idle)
  BY <1>1 DEF Passive, Idle
<1> QED BY <1>1, <1>2, Slot, SerialFacts, PassiveGeo

\* What a search may leave holds no driver row that it means to write.
LEMMA PassiveSearch ==
  ASSUME NEW q \in Procs, NEW D \in SUBSET Drivers, SerialInv(q), GeoInv(q, D),
         \/ Retrigger(q) \/ FetchExcluded(q) \/ Discover(q) \/ Score(q) \/ CheckAndUnlock(q)
         \/ \E d \in Drivers : AcquireLock(q, d) \/ LockFailed(q, d)
  PROVE  GeoInv(q, D)'
<1> DEFINE s == sess[q]
<1>1. /\ s \in Session /\ UNCHANGED <<drivers, geo>> /\ s.drv = s.dnow /\ ~ Ahead(s)
      /\ s.pc \in SearchPc \cup {"order"} /\ TypeInv
      /\ s.op = "Trigger" \/ s.pc = "order"
  BY SerialFacts DEF Retrigger, FetchExcluded, Discover, Score, CheckAndUnlock, AcquireLock,
     LockFailed, tables, redis, GeoInv, CopiesOK, Ahead, SearchPc, SerialOK
<1> USE DEF SearchPc
<1> SUFFICES \E t : /\ Continue(q, t) /\ t.drv = t.dnow /\ t.op = "Trigger"
                    /\ t.pc \in SearchPc \cup {"commit"}
  <2>1. PICK t : /\ Continue(q, t) /\ t.drv = t.dnow /\ t.op = "Trigger"
                 /\ t.pc \in SearchPc \cup {"commit"}
    OBVIOUS
  <2>2. Passive(s, t)
    BY <1>1, <2>1 DEF Passive
  <2> QED BY <1>1, <2>1, <2>2, Slot, PassiveGeo
<1>2. s.op = "Trigger" => /\ GiveUp(s).drv = GiveUp(s).dnow /\ GiveUp(s).op = "Trigger"
                          /\ GiveUp(s).pc = "commit"
  BY <1>1 DEF GiveUp, Session
<1>3. ASSUME NEW d, s.op = "Trigger"
      PROVE  /\ OfferTo(s, d).drv = OfferTo(s, d).dnow /\ OfferTo(s, d).op = "Trigger"
             /\ OfferTo(s, d).pc = "commit"
  BY <1>1, <1>3 DEF OfferTo, Session
<1>4. ASSUME NEW d, s.op = "Trigger"
      PROVE  /\ NextCandidate(s, d).drv = NextCandidate(s, d).dnow
             /\ NextCandidate(s, d).op = "Trigger"
             /\ NextCandidate(s, d).pc \in {"commit", "lock"}
  <2> DEFINE c == s.cand \ {d}
             t == [s EXCEPT !.pc = "lock", !.pick = NoDriver, !.cand = c]
  <2>1. NextCandidate(s, d) = IF s.cand = {d} THEN GiveUp(s) ELSE t
    BY DEF NextCandidate
  <2> HIDE DEF c
  <2>2. t.drv = t.dnow /\ t.op = "Trigger" /\ t.pc = "lock"
    BY <1>1, <1>4 DEF Session
  <2> HIDE DEF t
  <2> QED BY <1>2, <1>4, <2>1, <2>2
<1>5. CASE Retrigger(q)
  <2> DEFINE t == [s EXCEPT !.pc = "excluded", !.op = "Trigger"]
  <2>1. Continue(q, t)
    BY <1>5 DEF Retrigger
  <2>2. t.drv = t.dnow /\ t.op = "Trigger" /\ t.pc = "excluded"
    BY <1>1 DEF Session
  <2> QED BY <2>1, <2>2
<1>6. CASE FetchExcluded(q)
  <2>1. PICK e : Continue(q, [s EXCEPT !.pc = "search", !.excl = e]) /\ s.pc = "excluded"
    BY <1>6 DEF FetchExcluded
  <2> DEFINE t == [s EXCEPT !.pc = "search", !.excl = e]
  <2>2. t.drv = t.dnow /\ t.op = "Trigger" /\ t.pc = "search"
    BY <1>1, <2>1 DEF Session
  <2> QED BY <2>1, <2>2
<1>7. CASE Discover(q)
  <2> DEFINE found == (geo \cap InRange[s.o]) \ s.excl
             t == [s EXCEPT !.pc = "score", !.cand = found, !.excl = {}]
  <2>1. Continue(q, IF found = {} THEN GiveUp(s) ELSE t) /\ s.pc = "search"
    BY <1>7 DEF Discover
  <2> HIDE DEF found
  <2>2. t.drv = t.dnow /\ t.op = "Trigger" /\ t.pc = "score"
    BY <1>1, <2>1 DEF Session
  <2> HIDE DEF t
  <2>3. s.op = "Trigger"
    BY <1>1, <2>1
  <2>4. CASE found = {}
    BY <1>2, <2>1, <2>3, <2>4
  <2>5. CASE found # {}
    BY <2>1, <2>2, <2>5
  <2> QED BY <2>4, <2>5
<1>8. CASE Score(q)
  <2> DEFINE f == [d \in Drivers |-> IF d \in s.cand THEN drivers[d] ELSE NewDriver]
             t == [s EXCEPT !.pc = "lock", !.drv = f, !.dnow = f]
  <2>1. Continue(q, t) /\ s.pc = "score"
    BY <1>8 DEF Score
  <2> HIDE DEF f
  <2>2. t.drv = t.dnow /\ t.op = "Trigger" /\ t.pc = "lock"
    BY <1>1, <2>1 DEF Session
  <2> QED BY <2>1, <2>2
<1>9. ASSUME NEW d \in Drivers, AcquireLock(q, d)
      PROVE  \E t : /\ Continue(q, t) /\ t.drv = t.dnow /\ t.op = "Trigger"
                    /\ t.pc \in SearchPc \cup {"commit"}
  <2> DEFINE t == [s EXCEPT !.pc = "unlock", !.pick = d]
  <2>1. Continue(q, t) /\ s.pc = "lock"
    BY <1>9 DEF AcquireLock
  <2>2. t.drv = t.dnow /\ t.op = "Trigger" /\ t.pc = "unlock"
    BY <1>1, <2>1 DEF Session
  <2> QED BY <2>1, <2>2
<1>10. ASSUME NEW d \in Drivers, LockFailed(q, d)
       PROVE  \E t : /\ Continue(q, t) /\ t.drv = t.dnow /\ t.op = "Trigger"
                     /\ t.pc \in SearchPc \cup {"commit"}
  <2>1. Continue(q, NextCandidate(s, d)) /\ s.op = "Trigger"
    BY <1>1, <1>10 DEF LockFailed
  <2> QED BY <1>4, <2>1
<1>11. CASE CheckAndUnlock(q)
  <2> DEFINE d == s.pick
             ok == s.drv[d].status = "ONLINE" /\ s.drv[d].available
  <2>1. /\ Continue(q, IF ok THEN OfferTo(s, d) ELSE NextCandidate(s, d))
        /\ s.op = "Trigger"
    BY <1>1, <1>11 DEF CheckAndUnlock
  <2> HIDE DEF ok, d
  <2>2. CASE ok
    BY <1>3, <2>1, <2>2
  <2>3. CASE ~ ok
    BY <1>4, <2>1, <2>3
  <2> QED BY <2>2, <2>3
<1> QED BY <1>5, <1>6, <1>7, <1>8, <1>9, <1>10, <1>11

LEMMA PassiveAttempt ==
  ASSUME NEW q \in Procs, NEW D \in SUBSET Drivers, SerialInv(q), GeoInv(q, D),
         FetchAttempt(q) \/ NoAttempt(q)
  PROVE  GeoInv(q, D)'
<1> DEFINE s == sess[q]
<1>1. /\ s \in Session /\ s.pc = "attempt" /\ UNCHANGED <<drivers, geo>> /\ TypeInv
      /\ s.drv = s.dnow /\ (s.op = "Accept" => s.ask = s.was.driver)
  BY SerialFacts
     DEF FetchAttempt, NoAttempt, tables, redis, GeoInv, CopiesOK, Ahead, Before
<1>2. PICK i : Continue(q, WithAttempt(s, i))
  BY DEF FetchAttempt, NoAttempt
<1> DEFINE pc == IF s.op = "Accept" THEN "driver" ELSE "commit"
           t == [s EXCEPT !.att = i, !.mark = AnswerOf(s.op), !.pc = pc]
<1>3. t = WithAttempt(s, i)
  BY DEF WithAttempt
<1>4. pc \in {"driver", "commit"}
  OBVIOUS
<1> HIDE DEF pc
<1>5. t.pc = pc /\ t.drv = t.dnow /\ t.op = s.op /\ t.ask = s.ask /\ t.was = s.was
  BY <1>1 DEF Session
<1> HIDE DEF t
<1>6. Passive(s, t)
  BY <1>1, <1>4, <1>5 DEF Passive, Ahead
<1> QED BY <1>1, <1>2, <1>3, <1>6, Slot, PassiveGeo

LEMMA PassiveRefresh ==
  ASSUME NEW q \in Procs, NEW D \in SUBSET Drivers, SerialInv(q), GeoInv(q, D),
         Refresh(q)
  PROVE  GeoInv(q, D)'
<1>1. /\ sess[q].pc = "refresh" /\ sess'[q].pc = "announce"
      /\ sess'[q].drv = sess[q].drv /\ sess'[q].dnow = sess[q].dnow
      /\ UNCHANGED <<drivers, geo>>
  BY RefreshSession DEF Refresh, tables, redis
<1>2. sess[q].drv = sess[q].dnow
  BY <1>1 DEF GeoInv, CopiesOK, Ahead
<1>3. Passive(sess[q], sess'[q])
  BY <1>1, <1>2 DEF Passive, Ahead, Before, SearchPc
<1> QED BY <1>1, <1>3, PassiveGeo

-----------------------------------------------------------------------------
(* The steps that load, list and write driver rows *)

\* The invariant of the session t that a step leaves behind.
LEMMA GeoFrom ==
  ASSUME NEW q \in Procs, NEW D \in SUBSET Drivers,
         NEW t, sess'[q] = t, Listed(t, D)', CopiesOK(t)'
  PROVE  GeoInv(q, D)'
BY DEF GeoInv, Listed, CopiesOK, Expected, Behind, Ahead, Before, Writes

\* A handler loads and changes the row of one driver, whose entry it will write
\* next, or whose entry is right already.
LEMMA LoadGeo ==
  ASSUME NEW q \in Procs, NEW D \in SUBSET Drivers, GeoInv(q, D),
         ~ Ahead(sess[q]), UNCHANGED <<drivers, geo>>,
         NEW t, sess'[q] = t, NEW d \in Drivers, d \in Writes(t),
         \A e \in Drivers \ {d} : t.dnow[e] = t.drv[e],
         Alike(t.drv[d], drivers[d]),
         \/ t.pc = "index" /\ t.now.driver = d /\ Dispatchable(t.dnow[d])
         \/ t.pc = "unindex" /\ t.now.driver = d /\ t.dnow[d].status = "BUSY"
         \/ t.pc = "reindex" /\ t.ask = d
         \/ t.pc = "commit" /\ (Dispatchable(t.dnow[d]) <=> Dispatchable(drivers[d]))
  PROVE  GeoInv(q, D)'
<1>1. \A e \in D : e \in geo <=> Dispatchable(drivers[e])
  BY DEF GeoInv, Listed, Expected, Ahead, Behind
<1>2. Ahead(t) /\ ~ Before(t) /\ t.pc # "purge" /\ (t.pc # "commit" => Behind(t) = {d})
      /\ (t.pc = "commit" => Behind(t) = {})
  BY DEF Ahead, Before, SearchPc, Behind
<1>3. \A e \in Drivers \ {d} : Expected(t, e) = drivers[e]
  BY <1>2 DEF Expected
<1>4. Listed(t, D)
  <2>1. CASE t.pc # "commit"
    BY <1>1, <1>2, <1>3, <2>1 DEF Listed
  <2>2. CASE t.pc = "commit"
    <3>1. d \in D => (d \in geo <=> Dispatchable(Expected(t, d)))
      BY <1>1, <2>2 DEF Expected
    <3> QED BY <1>1, <1>3, <3>1 DEF Listed
  <2> QED BY <2>1, <2>2
<1>5. CopiesOK(t)
  BY <1>2 DEF CopiesOK
<1>6. Listed(t, D)'
  BY <1>4 DEF Listed, Expected, Behind, Ahead
<1>7. CopiesOK(t)'
  BY <1>5 DEF CopiesOK, Behind, Ahead, Before, Writes
<1> QED BY <1>6, <1>7, GeoFrom

LEMMA AlikeSelf == ASSUME NEW a PROVE Alike(a, a)
BY DEF Alike

LEMMA AvailabilityGeo ==
  ASSUME NEW q \in Procs, NEW D \in SUBSET Drivers, SerialInv(q), GeoInv(q, D),
         NEW d \in Drivers, NEW flag \in BOOLEAN,
         UpdateAvailability(q, d, flag)
  PROVE  GeoInv(q, D)'
<1> DEFINE row == drivers[d]
           now == [row EXCEPT !.available = flag]
           f == [Idle.drv EXCEPT ![d] = row]
           g == [Idle.dnow EXCEPT ![d] = now]
           t == [Idle EXCEPT !.pc = "reindex", !.op = "Availability", !.ask = d,
                             !.drv = f, !.dnow = g]
<1>1. Begin(q, t) /\ sess[q].pc = "idle" /\ UNCHANGED <<drivers, geo>>
  BY DEF UpdateAvailability, Begin, tables, redis
<1>2. Idle.drv = Idle.dnow /\ Idle.drv \in [Drivers -> DriverRow]
  BY IdleType DEF Idle, Session
<1>3. f[d] = row /\ \A e \in Drivers \ {d} : g[e] = f[e]
  BY <1>2
<1> HIDE DEF f, g
<1>4. /\ t.pc = "reindex" /\ t.ask = d /\ t.drv = f /\ t.dnow = g
      /\ t.op = "Availability" /\ d \in Writes(t)
  BY DEF Idle, Writes
<1>5. sess'[q] = t
  BY <1>1, Slot, SerialFacts
<1> HIDE DEF t
<1>6. ~ Ahead(sess[q]) /\ Alike(f[d], drivers[d])
  BY <1>1, <1>3, AlikeSelf DEF Ahead
<1> QED BY <1>1, <1>3, <1>4, <1>5, <1>6, LoadGeo

LEMMA ReleaseGeo ==
  ASSUME NEW q \in Procs, NEW D \in SUBSET Drivers, SerialInv(q), GeoInv(q, D),
         ReleaseDriver(q)
  PROVE  GeoInv(q, D)'
<1> DEFINE s == sess[q]
           d == s.now.driver
           row == drivers[d]
           now == [row EXCEPT !.status = "ONLINE", !.available = TRUE]
           pc == IF row.located THEN "index" ELSE "commit"
           f == [s.drv EXCEPT ![d] = row]
           g == [s.dnow EXCEPT ![d] = now]
           t == [s EXCEPT !.pc = pc, !.drv = f, !.dnow = g]
<1>1. s.pc = "driver" /\ s.op = "Patch" /\ Continue(q, t) /\ UNCHANGED <<drivers, geo>>
  BY DEF ReleaseDriver, tables, redis
<1>2. s \in Session /\ d \in Drivers /\ row \in DriverRow
  BY <1>1, SerialFacts DEF SessionOK, HasDriver, TypeInv, TypeOK
<1>3. s.drv = s.dnow /\ s.drv \in [Drivers -> DriverRow]
  BY <1>1, <1>2 DEF GeoInv, CopiesOK, Ahead, Session
<1>4. f[d] = row /\ g[d] = now /\ \A e \in Drivers \ {d} : g[e] = f[e]
  BY <1>2, <1>3
<1>5. Dispatchable(now) <=> row.located
  BY <1>2 DEF Dispatchable, DriverRow
<1>6. ~ row.located => ~ Dispatchable(row)
  BY DEF Dispatchable
<1>7. sess'[q] = t
  BY <1>1, Slot, SerialFacts
<1> HIDE DEF f, g, now, row, pc, d
<1>8. t.pc = pc /\ t.now = s.now /\ t.drv = f /\ t.dnow = g /\ t.op = s.op
  BY <1>2 DEF Session
<1> HIDE DEF t
<1> d \in Writes(t)
  BY <1>1, <1>2, <1>8 DEF Writes, d
<1>9. ~ Ahead(s) /\ Alike(f[d], drivers[d])
  BY <1>1, <1>4, AlikeSelf DEF Ahead, row
<1>10. CASE row.located
  <2>1. t.pc = "index" /\ t.now.driver = d /\ Dispatchable(t.dnow[d])
    BY <1>4, <1>5, <1>8, <1>10 DEF pc, d
  <2> QED BY <1>1, <1>2, <1>4, <1>7, <1>8, <1>9, <2>1, LoadGeo
<1>11. CASE ~ row.located
  <2>1. t.pc = "commit" /\ ~ Dispatchable(t.dnow[d]) /\ ~ Dispatchable(drivers[d])
    BY <1>4, <1>5, <1>6, <1>8, <1>11 DEF pc, row
  <2> QED BY <1>1, <1>2, <1>4, <1>7, <1>8, <1>9, <2>1, LoadGeo
<1> QED BY <1>10, <1>11

LEMMA BusyGeo ==
  ASSUME NEW q \in Procs, NEW D \in SUBSET Drivers, SerialInv(q), GeoInv(q, D),
         AssignFetchDriver(q) \/ AcceptFetchDriver(q)
  PROVE  GeoInv(q, D)'
<1> DEFINE s == sess[q]
           d == s.ask
           row == drivers[d]
           busy == [row EXCEPT !.status = "BUSY"]
           now == IF s.op = "Assign" THEN [status |-> "ASSIGNED", driver |-> d]
                                     ELSE [s.now EXCEPT !.status = "ASSIGNED"]
           f == [s.drv EXCEPT ![d] = row]
           g == [s.dnow EXCEPT ![d] = busy]
           rows == << <<s.was.status, "ASSIGNED">> >>
           t == [s EXCEPT !.pc = "unindex", !.st = "ASSIGNED", !.now = now,
                          !.drv = f, !.dnow = g, !.rows = rows]
<1>1. /\ s.pc = "driver" /\ s.op \in {"Assign", "Accept"} /\ UNCHANGED <<drivers, geo>>
  BY DEF AssignFetchDriver, AcceptFetchDriver, tables, redis
<1>2. Continue(q, t)
  <2>1. CASE AssignFetchDriver(q)
    BY <2>1 DEF AssignFetchDriver
  <2>2. CASE AcceptFetchDriver(q)
    BY <2>2 DEF AcceptFetchDriver
  <2> QED BY <2>1, <2>2
<1>3. s \in Session /\ d \in Drivers /\ row \in DriverRow /\ SerialOK(s)
  BY <1>1, SerialFacts DEF SessionOK, HasDriver, TypeInv, TypeOK
<1>4. s.drv = s.dnow /\ s.drv \in [Drivers -> DriverRow]
  BY <1>1, <1>3 DEF GeoInv, CopiesOK, Ahead, Session
<1>5. f[d] = row /\ g[d] = busy /\ \A e \in Drivers \ {d} : g[e] = f[e]
  BY <1>3, <1>4
<1>6. busy.status = "BUSY"
  BY <1>3 DEF DriverRow
<1>7. now.driver = d
  <2>1. CASE s.op = "Assign"
    BY <2>1
  <2>2. CASE s.op = "Accept"
    <3>1. s.now = s.was /\ s.ask = s.was.driver /\ s.was \in OrderRow
      BY <1>1, <1>3, <2>2 DEF SerialOK, Before, GeoInv, CopiesOK, Session
    <3> QED BY <2>2, <3>1 DEF OrderRow
  <2> QED BY <1>1, <2>1, <2>2
<1>8. sess'[q] = t
  BY <1>2, Slot, SerialFacts
<1> HIDE DEF f, g, now, busy, row, rows, d
<1>9. /\ t.pc = "unindex" /\ t.now = now /\ t.drv = f /\ t.dnow = g
      /\ t.op = s.op /\ t.ask = s.ask
  BY <1>3 DEF Session
<1> HIDE DEF t
<1> d \in Writes(t)
  BY <1>1, <1>3, <1>9 DEF Writes, d
<1>10. ~ Ahead(s) /\ Alike(f[d], drivers[d])
  BY <1>1, <1>5, AlikeSelf DEF Ahead, row
<1> QED BY <1>1, <1>3, <1>5, <1>6, <1>7, <1>8, <1>9, <1>10, LoadGeo

LEMMA ReloadGeo ==
  ASSUME NEW q \in Procs, NEW D \in SUBSET Drivers, SerialInv(q), GeoInv(q, D),
         ReloadDriver(q)
  PROVE  GeoInv(q, D)'
<1> DEFINE s == sess[q]
           d == s.ask
           row == drivers[d]
<1>1. s.pc = "reload" /\ s.op = "Ping" /\ UNCHANGED <<drivers, geo>>
  BY DEF ReloadDriver, tables, redis, GeoInv, CopiesOK
<1>2. s \in Session /\ d \in Drivers /\ row \in DriverRow
  BY <1>1, SerialFacts DEF SessionOK, HasDriver, TypeInv, TypeOK
<1>3. s.drv = s.dnow /\ s.drv \in [Drivers -> DriverRow] /\ ~ Ahead(s)
  BY <1>1, <1>2 DEF GeoInv, CopiesOK, Ahead, Session
<1>4. PICK a, b : /\ Continue(q, [s EXCEPT !.pc = "reindex", !.drv = [@ EXCEPT ![d] = a],
                                           !.dnow = [@ EXCEPT ![d] = b]])
                  /\ a = row \/ a = [row EXCEPT !.fresh = FALSE]
  <2> DEFINE Go(a, b) == Continue(q, [s EXCEPT !.pc = "reindex", !.drv = [@ EXCEPT ![d] = a],
                                               !.dnow = [@ EXCEPT ![d] = b]])
             old == [row EXCEPT !.fresh = FALSE]
  <2>1. Go(old, Pinged(row)) \/ Go(row, row)
    BY DEF ReloadDriver
  <2> HIDE DEF Go
  <2>2. \E a, b : Go(a, b) /\ (a = row \/ a = old)
    BY <2>1
  <2> QED BY <2>2 DEF Go
<1> DEFINE f == [s.drv EXCEPT ![d] = a]
           g == [s.dnow EXCEPT ![d] = b]
           t == [s EXCEPT !.pc = "reindex", !.drv = f, !.dnow = g]
<1>5. sess'[q] = t
  BY <1>4, Slot, SerialFacts
<1>6. f[d] = a /\ \A e \in Drivers \ {d} : g[e] = f[e]
  BY <1>2, <1>3
<1>7. Alike(a, row)
  BY <1>2, <1>4 DEF Alike, DriverRow
<1> HIDE DEF f, g
<1>8. t.pc = "reindex" /\ t.ask = d /\ t.drv = f /\ t.dnow = g /\ t.op = s.op
  BY <1>2 DEF Session
<1> HIDE DEF t
<1> d \in Writes(t)
  BY <1>1, <1>2, <1>8 DEF Writes
<1> QED BY <1>1, <1>2, <1>3, <1>5, <1>6, <1>7, <1>8, LoadGeo

\* An entry of the index is written: it is the one that the session's row asks
\* for, so it will be right after the commit.
LEMMA EntryGeo ==
  ASSUME NEW q \in Procs, NEW D \in SUBSET Drivers, GeoInv(q, D), Ahead(sess[q]), UNCHANGED drivers,
         NEW t, sess'[q] = t, t.drv = sess[q].drv, t.dnow = sess[q].dnow, Ahead(t),
         Behind(t) \subseteq Behind(sess[q]), Behind(t) \subseteq Writes(t),
         t.pc \notin {"index", "unindex"},
         t.pc = "purge" => sess[q].pc = "purge" /\ t.cand \subseteq sess[q].cand,
         \A d \in Drivers :
           d \in geo' <=> IF d \in Behind(sess[q]) \ Behind(t) THEN Dispatchable(t.dnow[d])
                                                               ELSE d \in geo
  PROVE  GeoInv(q, D)'
<1> DEFINE s == sess[q]
<1>1. \A d \in Drivers : d \in Behind(s) \/ s.dnow[d] # s.drv[d] => Alike(s.drv[d], drivers[d])
  BY DEF GeoInv, CopiesOK
<1>2. \A d : Expected(t, d) = Expected(s, d)
  BY DEF Expected
<1>3. \A d \in D \ Behind(s) : d \in geo <=> Dispatchable(Expected(s, d))
  BY DEF GeoInv, Listed
<1>4. ASSUME NEW d \in D \ Behind(t) PROVE d \in geo' <=> Dispatchable(Expected(t, d))
  <2>1. CASE d \in Behind(s) /\ s.dnow[d] # s.drv[d]
    <3>1. Expected(t, d) = t.dnow[d]
      BY <2>1 DEF Expected
    <3> QED BY <1>4, <2>1, <3>1
  <2>2. CASE d \in Behind(s) /\ s.dnow[d] = s.drv[d]
    <3>1. Expected(t, d) = drivers[d]
      BY <2>2 DEF Expected
    <3>2. Alike(t.dnow[d], drivers[d])
      BY <1>1, <1>4, <2>2
    <3>3. Dispatchable(t.dnow[d]) <=> Dispatchable(drivers[d])
      BY <3>2, AlikeListed
    <3> QED BY <1>4, <2>2, <3>1, <3>3
  <2>3. CASE d \notin Behind(s)
    BY <1>2, <1>3, <1>4, <2>3
  <2> QED BY <2>1, <2>2, <2>3
<1>5. Listed(t, D)'
  BY <1>4 DEF Listed, Expected, Behind, Ahead
<1>6. ~ Before(t)
  BY DEF Ahead, Before, SearchPc
<1>7. \A d \in Drivers : d \in Behind(t) \/ t.dnow[d] # t.drv[d] => Alike(t.drv[d], drivers[d])
  BY <1>1
<1>8. t.pc = "purge" => \A d \in t.cand : t.dnow[d].status = "OFFLINE"
  BY DEF GeoInv, CopiesOK
<1>9. CopiesOK(t)'
  BY <1>6, <1>7, <1>8 DEF CopiesOK, Behind, Ahead, Before, Writes
<1> QED BY <1>5, <1>9, GeoFrom

LEMMA IndexGeo ==
  ASSUME NEW q \in Procs, NEW D \in SUBSET Drivers, SerialInv(q), GeoInv(q, D),
         IndexDriver(q) \/ Unindex(q)
  PROVE  GeoInv(q, D)'
<1> DEFINE s == sess[q]
           d == s.now.driver
           t == [s EXCEPT !.pc = "commit"]
<1>1. /\ s.pc \in {"index", "unindex"} /\ Continue(q, t) /\ UNCHANGED drivers
      /\ geo' = IF s.pc = "index" THEN geo \cup {d} ELSE geo \ {d}
  BY DEF IndexDriver, Unindex, tables
<1>2. s \in Session /\ geo \subseteq Drivers
  BY SerialFacts DEF TypeInv, TypeOK
<1>3. IF s.pc = "index" THEN Dispatchable(s.dnow[d]) ELSE s.dnow[d].status = "BUSY"
  BY <1>1 DEF GeoInv, CopiesOK
<1>4. Dispatchable(s.dnow[d]) <=> s.pc = "index"
  BY <1>1, <1>3 DEF Dispatchable
<1>5. Behind(s) = {d} /\ Ahead(s)
  BY <1>1 DEF Behind, Ahead
<1>6. sess'[q] = t
  BY <1>1, Slot, SerialFacts
<1>7. t.pc = "commit" /\ t.drv = s.drv /\ t.dnow = s.dnow
  BY <1>2 DEF Session
<1> HIDE DEF t, s
<1>8. Behind(t) = {} /\ Ahead(t)
  BY <1>7 DEF Behind, Ahead
<1>9. \A e \in Drivers : e \in geo' <=> IF e \in Behind(s) \ Behind(t)
                                        THEN Dispatchable(t.dnow[e]) ELSE e \in geo
  BY <1>1, <1>4, <1>5, <1>7, <1>8
<1> QED BY <1>1, <1>5, <1>6, <1>7, <1>8, <1>9, EntryGeo DEF s

LEMMA ReindexGeo ==
  ASSUME NEW q \in Procs, NEW D \in SUBSET Drivers, SerialInv(q), GeoInv(q, D),
         Reindex(q)
  PROVE  GeoInv(q, D)'
<1> DEFINE s == sess[q]
           d == s.ask
           t == [s EXCEPT !.pc = "store"]
<1>1. /\ s.pc = "reindex" /\ Continue(q, t) /\ UNCHANGED drivers
      /\ geo' = IF Dispatchable(s.dnow[d]) THEN geo \cup {d} ELSE geo \ {d}
  BY DEF Reindex, tables
<1>2. s \in Session
  BY SerialFacts
<1>3. Behind(s) = {d} /\ Ahead(s)
  BY <1>1 DEF Behind, Ahead
<1>4. sess'[q] = t
  BY <1>1, Slot, SerialFacts
<1>5. t.pc = "store" /\ t.drv = s.drv /\ t.dnow = s.dnow
  BY <1>2 DEF Session
<1> HIDE DEF t, s
<1>6. Behind(t) = {} /\ Ahead(t)
  BY <1>5 DEF Behind, Ahead
<1>7. \A e \in Drivers : e \in geo' <=> IF e \in Behind(s) \ Behind(t)
                                        THEN Dispatchable(t.dnow[e]) ELSE e \in geo
  BY <1>1, <1>3, <1>5, <1>6
<1> QED BY <1>1, <1>3, <1>4, <1>5, <1>6, <1>7, EntryGeo DEF s

LEMMA PurgeGeo ==
  ASSUME NEW q \in Procs, NEW D \in SUBSET Drivers, SerialInv(q), GeoInv(q, D),
         NEW d \in Drivers, PurgeGhost(q, d)
  PROVE  GeoInv(q, D)'
<1> DEFINE s == sess[q]
           c == s.cand \ {d}
           pc == IF s.cand = {d} THEN "store" ELSE "purge"
           t == [s EXCEPT !.cand = c, !.pc = pc]
<1>1. /\ s.pc = "purge" /\ Continue(q, t) /\ UNCHANGED drivers
      /\ d \in s.cand /\ geo' = geo \ {d}
  BY DEF PurgeGhost, tables
<1>2. s \in Session
  BY SerialFacts
<1>3. ~ Dispatchable(s.dnow[d])
  BY <1>1 DEF GeoInv, CopiesOK, Dispatchable
<1>4. Behind(s) = s.cand /\ Ahead(s)
  BY <1>1 DEF Behind, Ahead
<1>5. sess'[q] = t
  BY <1>1, Slot, SerialFacts
<1> HIDE DEF c, pc
<1>6. /\ t.pc = pc /\ t.cand = c /\ t.drv = s.drv /\ t.dnow = s.dnow
      /\ t.op = s.op /\ t.ask = s.ask /\ t.now = s.now
  BY <1>2 DEF Session
<1>11. Writes(t) = Writes(s)
  BY <1>6 DEF Writes
<1>12. Behind(s) \subseteq Writes(s)
  BY DEF GeoInv, CopiesOK
<1> HIDE DEF t, s
<1>7. pc \in {"store", "purge"} /\ (pc = "store" => c = {})
  BY <1>1 DEF pc, c
<1>8. Behind(t) = c /\ Ahead(t)
  BY <1>6, <1>7 DEF Behind, Ahead
<1>9. \A e \in Drivers : e \in geo' <=> IF e \in Behind(s) \ Behind(t)
                                        THEN Dispatchable(t.dnow[e]) ELSE e \in geo
  BY <1>1, <1>3, <1>4, <1>6, <1>8 DEF c
<1>10. Behind(t) \subseteq Behind(s) /\ c \subseteq s.cand
  BY <1>4, <1>8 DEF c
<1> QED BY <1>1, <1>4, <1>5, <1>6, <1>7, <1>8, <1>9, <1>10, <1>11, <1>12, EntryGeo DEF s

LEMMA SweepGeo ==
  ASSUME NEW q \in Procs, NEW D \in SUBSET Drivers, SerialInv(q), GeoInv(q, D),
         SweepGhosts(q)
  PROVE  GeoInv(q, D)'
<1> DEFINE f == [d \in Drivers |-> IF d \in Ghosts THEN drivers[d] ELSE NewDriver]
           g == [d \in Drivers |->
                   IF d \in Ghosts
                   THEN [drivers[d] EXCEPT !.status = "OFFLINE", !.available = FALSE]
                   ELSE NewDriver]
           t == [Idle EXCEPT !.pc = "purge", !.op = "Sweep", !.cand = Ghosts,
                             !.drv = f, !.dnow = g]
<1>1. sess[q].pc = "idle" /\ Continue(q, t) /\ UNCHANGED <<drivers, geo>>
  BY DEF SweepGhosts, tables, redis
<1>2. Ghosts \subseteq Drivers /\ drivers \in [Drivers -> DriverRow]
  BY SerialFacts DEF TypeInv, TypeOK, Ghosts
<1>3. \A d \in Ghosts : f[d] = drivers[d] /\ g[d].status = "OFFLINE"
  BY <1>2 DEF DriverRow
<1>4. \A d \in Drivers \ Ghosts : f[d] = g[d]
  OBVIOUS
<1>5. PICK u : u = t /\ sess'[q] = u
  BY <1>1, Slot, SerialFacts
<1> HIDE DEF f, g
<1>6. u.pc = "purge" /\ u.cand = Ghosts /\ u.drv = f /\ u.dnow = g
  BY <1>5 DEF Idle
<1> HIDE DEF t
<1>7. Ahead(u) /\ ~ Before(u) /\ Behind(u) = Ghosts
  BY <1>6 DEF Ahead, Before, SearchPc, Behind
<1>8. \A d \in D : d \in geo <=> Dispatchable(drivers[d])
  BY <1>1 DEF GeoInv, Listed, Expected, Ahead, Behind
<1>9. \A d \in Drivers \ Ghosts : Expected(u, d) = drivers[d]
  BY <1>4, <1>6 DEF Expected
<1>10. Listed(u, D)
  BY <1>7, <1>8, <1>9 DEF Listed
<1>11. \A d \in Drivers : d \in Ghosts \/ g[d] # f[d] => Alike(f[d], drivers[d])
  BY <1>3, <1>4, AlikeSelf
<1>12. CopiesOK(u)
  <2>1. \A d \in Ghosts : d \in Drivers /\ f[d] # g[d]
    BY <1>2, <1>3 DEF Ghosts
  <2>2. Behind(u) \subseteq Writes(u)
    BY <1>6, <1>7, <2>1 DEF Writes
  <2> QED BY <1>3, <1>6, <1>7, <1>11, <2>2 DEF CopiesOK
<1>13. Listed(u, D)'
  BY <1>1, <1>10 DEF Listed, Expected, Behind, Ahead
<1>14. CopiesOK(u)'
  BY <1>1, <1>12 DEF CopiesOK, Behind, Ahead, Before, Writes
<1> QED BY <1>5, <1>13, <1>14, GeoFrom

\* A commit writes the rows whose entries are in the index already.
LEMMA WriteGeo ==
  ASSUME NEW q \in Procs, NEW D \in SUBSET Drivers, SerialInv(q), GeoInv(q, D),
         Commit(q) \/ StoreDriver(q)
  PROVE  GeoInv(q, D)'
<1> DEFINE s == sess[q]
<1>1. /\ s.pc \in {"commit", "store"} /\ drivers' = WriteDrivers(s) /\ UNCHANGED geo
  BY DEF Commit, StoreDriver, redis
<1>2. \A d \in D : d \in geo' <=> Dispatchable(drivers'[d])
  BY <1>1, WrittenListed
<1>3. PICK t : /\ sess'[q] = t /\ t.drv = t.dnow /\ t.pc \in {"order", "refresh", "idle"}
               /\ t.pc = "order" => t.op # "Accept"
               /\ t.pc = "idle" => t.op = "none"
  <2>1. CASE Commit(q)
    BY <2>1, CommitSession
  <2>2. CASE StoreDriver(q)
    <3>1. sess'[q] = Idle
      BY <2>2, Slot, SerialFacts DEF StoreDriver
    <3> QED BY <3>1 DEF Idle
  <2> QED BY <2>1, <2>2
<1>4. /\ ~ Ahead(t) /\ Behind(t) = {} /\ t.pc \notin {"index", "unindex", "purge"}
      /\ ~ (t.op = "Accept" /\ Before(t))
  BY <1>3 DEF Ahead, Behind, Before, SearchPc
<1>5. Listed(t, D)'
  BY <1>2, <1>4 DEF Listed, Expected, Behind, Ahead
<1>6. CopiesOK(t)'
  BY <1>3, <1>4 DEF CopiesOK, Behind, Ahead, Before, Writes
<1> QED BY <1>3, <1>5, <1>6, GeoFrom

\* A last_seen_at that grows old is no column of the listing.
LEMMA GrowGeo ==
  ASSUME NEW q \in Procs, NEW D \in SUBSET Drivers, SerialInv(q), GeoInv(q, D),
         NEW d \in Drivers, GrowStale(d)
  PROVE  GeoInv(q, D)'
<1> DEFINE s == sess[q]
<1>1. /\ drivers' = [drivers EXCEPT ![d].fresh = FALSE] /\ UNCHANGED <<geo, sess>>
      /\ drivers \in [Drivers -> DriverRow]
  BY SerialFacts DEF GrowStale, redis, TypeInv, TypeOK
<1>2. \A e \in Drivers : Alike(drivers[e], drivers'[e])
  BY <1>1 DEF Alike, DriverRow
<1>3. \A e \in Drivers : Dispatchable(drivers[e]) <=> Dispatchable(drivers'[e])
  BY <1>2, AlikeListed
<1>4. \A e \in Drivers : \A a : Alike(a, drivers[e]) => Alike(a, drivers'[e])
  BY <1>2 DEF Alike
<1>5. ASSUME NEW e \in D \ Behind(s)
      PROVE  e \in geo <=> Dispatchable(IF Ahead(s) /\ s.dnow[e] # s.drv[e] THEN s.dnow[e]
                                                                            ELSE drivers'[e])
  <2>1. e \in geo <=> Dispatchable(IF Ahead(s) /\ s.dnow[e] # s.drv[e] THEN s.dnow[e]
                                                                       ELSE drivers[e])
    BY <1>5 DEF GeoInv, Listed, Expected
  <2> QED BY <1>3, <2>1
<1>6. Listed(s, D)'
  BY <1>1, <1>5 DEF Listed, Expected, Behind, Ahead
<1>7. CopiesOK(s)'
  BY <1>1, <1>4 DEF GeoInv, CopiesOK, Behind, Ahead, Before
<1> QED BY <1>6, <1>7 DEF GeoInv

LEMMA StillGeo ==
  ASSUME NEW q \in Procs, NEW D \in SUBSET Drivers, GeoInv(q, D), UNCHANGED <<drivers, geo, sess>>
  PROVE  GeoInv(q, D)'
BY DEF GeoInv, Listed, CopiesOK, Expected, Behind, Ahead, Before, Writes

LEMMA StepGeo ==
  ASSUME NEW q \in Procs, NEW D \in SUBSET Drivers, SerialInv(q), GeoInv(q, D),
         Request(q) \/ Step(q)
  PROVE  GeoInv(q, D)'
<1>1. CASE Request(q)
  <2>1. CASE \E d \in Drivers, flag \in BOOLEAN : UpdateAvailability(q, d, flag)
    BY <2>1, AvailabilityGeo
  <2> QED BY <1>1, <2>1, PassiveRequest
<1>2. CASE Step(q)
  <2>1. ASSUME NEW d \in Drivers, PurgeGhost(q, d) PROVE GeoInv(q, D)'
    BY <2>1, PurgeGeo
  <2> QED BY <1>2, <2>1, ReleaseGeo, IndexGeo, BusyGeo, PassiveEnd, PassiveSearch, PassiveAttempt,
             PassiveRefresh, ReloadGeo, ReindexGeo, WriteGeo DEF Step
<1> QED BY <1>1, <1>2

\* What a handler writes in this step is its own.
LEMMA Within ==
  ASSUME NEW q \in Procs, NEW D \in SUBSET Drivers, SerialInv(q), GeoInv(q, D),
         Request(q) \/ Step(q) \/ SweepGhosts(q) \/ \E i \in timers : TimeoutFires(q, i),
         NEW d \in Drivers \ Writes(sess[q])
  PROVE  drivers'[d] = drivers[d] /\ (d \in geo' <=> d \in geo)
<1> DEFINE s == sess[q]
           Goal == drivers'[d] = drivers[d] /\ (d \in geo' <=> d \in geo)
<1>1. CASE Request(q) \/ SweepGhosts(q) \/ \E i \in timers : TimeoutFires(q, i)
  BY <1>1 DEF Request, UpdateStatus, AssignFetchOrder, TriggerAssignment, AnswerOffer,
     UpdateLocation, UpdateAvailability, Begin, SweepGhosts, TimeoutFires, tables, redis
<1>2. s.drv[d] = s.dnow[d] /\ d \notin Behind(s)
  BY DEF GeoInv, CopiesOK, Writes
<1>3. CASE Commit(q) \/ StoreDriver(q)
  <2>1. drivers'[d] = WriteDriver(s.drv[d], s.dnow[d], drivers[d]) /\ UNCHANGED geo
    BY <1>3 DEF Commit, StoreDriver, WriteDrivers, redis
  <2>2. drivers[d] \in DriverRow
    BY SerialFacts DEF TypeInv, TypeOK
  <2> QED BY <1>2, <2>1, <2>2 DEF WriteDriver, DriverRow
<1>4. CASE IndexDriver(q) \/ Unindex(q) \/ Reindex(q)
  BY <1>2, <1>4 DEF IndexDriver, Unindex, Reindex, Behind, tables
<1>5. ASSUME NEW e \in Drivers, PurgeGhost(q, e) PROVE Goal
  BY <1>2, <1>5 DEF PurgeGhost, Behind, tables
<1>6. CASE ReleaseDriver(q) \/ AssignFetchDriver(q) \/ AssignRefused(q) \/ AcceptFetchDriver(q)
           \/ ReloadDriver(q)
  BY <1>6 DEF ReleaseDriver, AssignFetchDriver, AssignRefused, AcceptFetchDriver, ReloadDriver,
              tables, redis
<1>7. CASE Retrigger(q) \/ FetchExcluded(q) \/ Discover(q) \/ Score(q) \/ CheckAndUnlock(q)
           \/ \E e \in Drivers : AcquireLock(q, e) \/ LockFailed(q, e)
  BY <1>7 DEF Retrigger, FetchExcluded, Discover, Score, CheckAndUnlock, AcquireLock,
              LockFailed, tables, redis
<1>8. CASE FetchAttempt(q) \/ NoAttempt(q) \/ Refresh(q) \/ Announce(q)
  BY <1>8 DEF FetchAttempt, NoAttempt, Refresh, Announce, tables, redis
<1> QED BY <1>1, <1>3, <1>4, <1>5, <1>6, <1>7, <1>8 DEF Step

\* The whole: every slot answers for the drivers that no other one writes.
GeoAll == \A q \in Procs : GeoInv(q, Own(q))

LEMMA WritesApart ==
  ASSUME Apart, NEW p \in Procs, NEW q \in Procs, p # q,
         CopiesOK(sess[p]), CopiesOK(sess[q])
  PROVE  Writes(sess[p]) \cap Writes(sess[q]) = {}
<1>1. ASSUME NEW r \in Procs, CopiesOK(sess[r]), sess[r].pc = "idle"
      PROVE  Writes(sess[r]) = {}
  BY <1>1 DEF CopiesOK, Ahead, Writes
<1> QED BY <1>1 DEF Apart

\* The copies that another slot holds stay good ...
LEMMA OtherCopies ==
  ASSUME NEW p \in Procs, CopiesOK(sess[p]), sess'[p] = sess[p],
         \A d \in Writes(sess[p]) : drivers'[d] = drivers[d]
  PROVE  CopiesOK(sess[p])'
<1> DEFINE s == sess[p]
<1>1. \A d \in Drivers : d \in Behind(s) \/ s.dnow[d] # s.drv[d] => d \in Writes(s)
  BY DEF CopiesOK, Writes
<1>2. Ahead(s) => \A d \in Drivers : d \in Behind(s) \/ s.dnow[d] # s.drv[d] =>
                                       Alike(s.drv[d], drivers'[d])
  BY <1>1 DEF CopiesOK
<1> QED BY <1>2 DEF CopiesOK, Behind, Ahead, Before, Writes

\* ... and so do the entries for which it answers: a driver that slot q has let
\* go of is listed as its row demands.
LEMMA OtherGeo ==
  ASSUME Apart, GeoAll, NEW q \in Procs, NEW p \in Procs \ {q},
         \A r \in Procs \ {q} : sess'[r] = sess[r],
         \A d \in Drivers \ Writes(sess[q]) : /\ drivers'[d] = drivers[d]
                                              /\ d \in geo' <=> d \in geo,
         NEW D \in SUBSET Drivers, D = Own(q), GeoInv(q, D)',
         NEW E \in SUBSET Drivers, E = Own(p)'
  PROVE  GeoInv(p, E)'
<1> DEFINE s == sess[p]
           t == sess'[q]
<1>1. \A r \in Procs : CopiesOK(sess[r])
  BY DEF GeoAll, GeoInv
<1>2. \A r \in Procs \ {q} : Writes(sess[q]) \cap Writes(sess[r]) = {}
  BY <1>1, WritesApart
<1>3. Writes(s) \subseteq Drivers /\ Writes(sess[q]) \subseteq Drivers
  BY DEF Writes
<1>4. CopiesOK(s)'
  <2>1. \A d \in Writes(s) : drivers'[d] = drivers[d]
    BY <1>2, <1>3
  <2> QED BY <1>1, <2>1, OtherCopies
<1>5. ASSUME NEW d \in E \ Behind(s)
      PROVE  d \in geo' <=> Dispatchable(IF Ahead(s) /\ s.dnow[d] # s.drv[d] THEN s.dnow[d]
                                                                            ELSE drivers'[d])
  <2>1. d \in Drivers /\ d \notin Writes(t)
    BY <1>5 DEF Own
  <2>2. CASE d \notin Writes(sess[q])
    <3>1. d \in Own(p)
      <4>1. ASSUME NEW r \in Procs \ {p}, r # q PROVE d \notin Writes(sess[r])
        <5>1. d \notin Writes(sess'[r]) /\ sess'[r] = sess[r]
          BY <1>5, <4>1 DEF Own
        <5> QED BY <5>1
      <4> QED BY <2>1, <2>2, <4>1 DEF Own
    <3>2. d \in geo <=> Dispatchable(Expected(s, d))
      BY <1>5, <3>1 DEF GeoAll, GeoInv, Listed
    <3> QED BY <2>1, <2>2, <3>2 DEF Expected
  <2>3. CASE d \in Writes(sess[q])
    <3>1. d \in D /\ d \notin Writes(s)
      BY <1>2, <2>1, <2>3 DEF Own
    <3>2. d \notin Behind(t) /\ t.drv[d] = t.dnow[d]
      <4>1. Behind(t) \subseteq Writes(t)
        BY DEF GeoInv, CopiesOK, Behind, Writes
      <4> QED BY <2>1, <4>1 DEF Writes
    <3>3. d \in geo' <=> Dispatchable(drivers'[d])
      <4>1. Listed(sess[q], D)'
        BY DEF GeoInv
      <4> QED BY <3>1, <3>2, <4>1 DEF Listed, Expected, Behind, Ahead
    <3>4. s.drv[d] = s.dnow[d]
      BY <2>1, <3>1 DEF Writes
    <3> QED BY <3>3, <3>4
  <2> QED BY <2>2, <2>3
<1>6. Listed(sess[p], E)'
  BY <1>5 DEF Listed, Expected, Behind, Ahead
<1> QED BY <1>4, <1>6 DEF GeoInv

LEMMA HandlerGeo ==
  ASSUME ApartInv, GeoAll, NEW q \in Procs,
         Request(q) \/ Step(q) \/ SweepGhosts(q) \/ \E i \in timers : TimeoutFires(q, i)
  PROVE  GeoAll'
<1>0. SerialInv(q) /\ sess \in [Procs -> Session] /\ Apart
  BY SlotInv, SerialFacts DEF ApartInv
<1>1. \A r \in Procs \ {q} : sess'[r] = sess[r]
  BY <1>0, RequestAlone, StepAlone, OneSession DEF SweepGhosts, TimeoutFires
<1>2. PICK D \in SUBSET Drivers : D = Own(q)
  BY DEF Own
<1>3. GeoInv(q, D)
  BY <1>2 DEF GeoAll
<1>4. GeoInv(q, D)'
  BY <1>0, <1>3, StepGeo, SweepGeo, PassiveTimeout
<1>5. \A d \in Drivers \ Writes(sess[q]) : drivers'[d] = drivers[d] /\ (d \in geo' <=> d \in geo)
  BY <1>0, <1>3, Within
<1>6. Own(q)' = D
  BY <1>1, <1>2 DEF Own, Writes
<1>7. GeoInv(q, Own(q))'
  BY <1>4, <1>6 DEF GeoInv, Listed
<1>8. ASSUME NEW p \in Procs \ {q} PROVE GeoInv(p, Own(p))'
  <2>1. PICK E \in SUBSET Drivers : E = Own(p)'
    BY DEF Own
  <2>2. GeoInv(p, E)'
    BY <1>0, <1>1, <1>2, <1>4, <1>5, <2>1, OtherGeo
  <2> QED BY <2>1, <2>2 DEF GeoInv, Listed
<1> QED BY <1>7, <1>8 DEF GeoAll

\* A step that no slot makes.
LEMMA NobodyGeo ==
  ASSUME ApartInv, GeoAll, UNCHANGED <<geo, sess>>,
         UNCHANGED drivers \/ \E d \in Drivers : GrowStale(d)
  PROVE  GeoAll'
<1> SUFFICES ASSUME NEW q \in Procs PROVE GeoInv(q, Own(q))'
  BY DEF GeoAll
<1>1. PICK D \in SUBSET Drivers : D = Own(q)
  BY DEF Own
<1>2. GeoInv(q, D) /\ SerialInv(q)
  BY <1>1, SlotInv DEF GeoAll
<1>3. GeoInv(q, D)'
  BY <1>2, StillGeo, GrowGeo
<1>4. Own(q)' = D
  BY <1>1 DEF Own, Writes
<1> QED BY <1>3, <1>4 DEF GeoInv, Listed

LEMMA GeoStep ==
  ASSUME ~ Faults, ApartInv, GeoAll, [Next]_vars PROVE GeoAll'
<1>1. ASSUME NEW q \in Procs,
             Request(q) \/ Step(q) \/ SweepGhosts(q) \/ \E i \in timers : TimeoutFires(q, i)
      PROVE  GeoAll'
  BY <1>1, HandlerGeo
<1>2. ASSUME NEW o \in Orders, CreateDelivery(o) PROVE GeoAll'
  BY <1>2, NobodyGeo DEF CreateDelivery, redis
<1>3. ASSUME NEW i \in timers, TimeoutMoot(i) PROVE GeoAll'
  BY <1>3, NobodyGeo DEF TimeoutMoot, tables, redis
<1>4. ASSUME NEW d \in Drivers, GrowStale(d) PROVE GeoAll'
  BY <1>4, NobodyGeo DEF GrowStale, redis
<1>5. CASE UNCHANGED vars
  BY <1>5, NobodyGeo DEF vars, tables, redis
<1>6. /\ \A q : ~ Abort(q)
      /\ \A i : ~ LoseTimer(i)
      /\ \A d : ~ LockExpires(d)
  BY DEF Abort, LoseTimer, LockExpires
<1> QED BY <1>1, <1>2, <1>3, <1>4, <1>5, <1>6, DispatchAssumption
    DEF Next, Timeout, Sweep, Clock, Failure

LEMMA GeoInit == Init => GeoAll
<1> SUFFICES ASSUME Init, NEW q \in Procs PROVE GeoInv(q, Own(q))
  BY DEF GeoAll
<1>1. /\ sess[q] = Idle /\ geo = OnlineAtStart
      /\ drivers = [d \in Drivers |-> IF d \in OnlineAtStart THEN OnlineDriver ELSE NewDriver]
  BY DEF Init, StoreInit
<1>2. Dispatchable(OnlineDriver) /\ ~ Dispatchable(NewDriver)
  BY DEF Dispatchable, OnlineDriver, NewDriver
<1>3. Idle.pc = "idle" /\ Idle.drv = Idle.dnow /\ Idle.op = "none"
  BY DEF Idle
<1>4. Listed(Idle, Own(q))
  BY <1>1, <1>2, <1>3 DEF Listed, Expected, Ahead, Behind, Own
<1>5. CopiesOK(Idle)
  BY <1>3 DEF CopiesOK, Ahead, Behind, Before
<1> QED BY <1>1, <1>4, <1>5 DEF GeoInv

\* While handlers that overlap are apart and none is cut off between its ZADD or
\* ZREM and its commit, drivers:active lists, whenever no handler runs, exactly
\* the drivers that are ONLINE, available and at a known position.
THEOREM GeoIndexAgreesHolds ==
  ASSUME ~ Faults, Procs # {} PROVE ApartSpec => []GeoIndexAgrees
<1>1. Init => GeoAll
  BY GeoInit
<1>2. ApartInv /\ GeoAll /\ [Next /\ Apart']_vars => GeoAll'
  <2>1. [Next /\ Apart']_vars => [Next]_vars
    OBVIOUS
  <2> QED BY <2>1, GeoStep
<1>3. ApartInv /\ GeoAll => GeoIndexAgrees
  <2> SUFFICES ASSUME ApartInv, GeoAll, Quiet
               PROVE  geo = {d \in Drivers : Dispatchable(drivers[d])}
    BY DEF GeoIndexAgrees
  <2>1. PICK q \in Procs : TRUE
    OBVIOUS
  <2>2. ASSUME NEW p \in Procs PROVE Writes(sess[p]) = {} /\ ~ Ahead(sess[p])
    <3>1. sess[p].pc = "idle" /\ CopiesOK(sess[p])
      BY DEF Quiet, GeoAll, GeoInv
    <3> QED BY <3>1 DEF CopiesOK, Ahead, Writes
  <2>3. Own(q) = Drivers /\ Behind(sess[q]) = {}
    BY <2>2 DEF Own, Quiet, Behind
  <2>4. \A d \in Drivers : d \in geo <=> Dispatchable(drivers[d])
    BY <2>2, <2>3 DEF GeoAll, GeoInv, Listed, Expected
  <2>5. geo \subseteq Drivers
    BY SlotInv, SerialFacts DEF TypeInv, TypeOK
  <2> QED BY <2>4, <2>5
<1> QED BY <1>1, <1>2, <1>3, ApartInvariant, PTL DEF ApartSpec
=============================================================================
