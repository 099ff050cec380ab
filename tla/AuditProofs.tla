---------------------------- MODULE AuditProofs ----------------------------
(***************************************************************************)
(* What the audit trail is worth, for every interleaving and every value   *)
(* of the constants of Dispatch.                                           *)
(***************************************************************************)
EXTENDS DispatchProofs, FiniteSetTheorems

-----------------------------------------------------------------------------
(* The inductive invariant *)

\* Some row records a move to st.
Records(rows, st) == \E i \in DOMAIN rows : rows[i][2] = st

\* The moves an audit row records.
Recordable(e) == ValidTransition(e[1], e[2]) \/ e \in Bypasses

\* Each row is such a move, and PICKED_UP is left at once.
RowsOK(rows) ==
  \A i \in DOMAIN rows :
    /\ Recordable(rows[i])
    /\ rows[i][2] = "PICKED_UP" =>
         i + 1 \in DOMAIN rows /\ rows[i + 1] = <<"PICKED_UP", "IN_TRANSIT">>

\* The check a session has made on the order it loaded still backs the row it
\* is going to add.
Entitled(s) ==
  /\ s.pc = "attempt" \/ (s.pc = "driver" /\ s.op = "Accept") =>
       s.was.status = "DRIVER_PENDING"
  /\ s.pc \in {"excluded", "search", "score", "lock", "unlock"} =>
       ValidTransition(s.was.status, "DRIVER_PENDING")

\* A status that the session is going to write, or to announce, is the target of
\* a row that is committed with it.
WritesRecorded(s) ==
  s.pc \in {"attempt", "driver", "index", "unindex", "commit"} =>
    \/ s.now.status = s.was.status
    \/ s.now.status # "PICKED_UP" /\ Records(s.rows, s.now.status)

AnnouncesRecorded(s) ==
  /\ \/ s.pc \in {"index", "unindex"}
     \/ s.pc = "driver" /\ s.op = "Patch"
     \/ s.pc = "commit" /\ s.op \notin {"Reject", "Timeout"}
     => Records(s.rows, s.st)
  /\ s.pc \in {"refresh", "announce"} => Records(audit[s.o], s.st)
  /\ s.pc = "announce" => Records(audit[s.o], s.now.status)

TrailOK(s) ==
  RowsOK(s.rows) /\ Entitled(s) /\ WritesRecorded(s) /\ AnnouncesRecorded(s)

\* The stored trail and status of order o.
OrderTrail(o) ==
  /\ RowsOK(audit[o])
  /\ orders[o].status = "ABSENT" => audit[o] = <<>>
  /\ orders[o].status # "ABSENT" => Records(audit[o], orders[o].status)
  /\ orders[o].status # "PICKED_UP"
  /\ \A e \in events[o] : Records(audit[o], e)

TrailInv ==
  /\ TypeInv
  /\ \A o \in Orders : OrderTrail(o)
  /\ \A p \in Procs : TrailOK(sess[p])

-----------------------------------------------------------------------------
(* Rows *)

LEMMA EmptyRows == RowsOK(<<>>)
  BY DEF RowsOK

LEMMA OneRow ==
  ASSUME NEW a, NEW b, Recordable(<<a, b>>), b # "PICKED_UP"
  PROVE  RowsOK(<< <<a, b>> >>) /\ Records(<< <<a, b>> >>, b)
<1> DEFINE r == << <<a, b>> >>
<1>1. DOMAIN r = {1} /\ r[1] = <<a, b>> /\ r[1][2] = b
  OBVIOUS
<1> HIDE DEF r
<1>2. RowsOK(r) /\ Records(r, b)
  BY <1>1 DEF RowsOK, Records
<1> QED BY <1>2 DEF r

LEMMA MoreRows ==
  ASSUME NEW a \in Seq(Edge), NEW b \in Seq(Edge), RowsOK(a), RowsOK(b)
  PROVE  /\ RowsOK(a \o b)
         /\ \A st : Records(a, st) \/ Records(b, st) => Records(a \o b, st)
<1> DEFINE c == a \o b
<1>1. /\ Len(a) \in Nat /\ Len(b) \in Nat /\ DOMAIN a = 1 .. Len(a) /\ DOMAIN b = 1 .. Len(b)
      /\ DOMAIN c = 1 .. Len(a) + Len(b)
      /\ \A i \in 1 .. Len(a) : c[i] = a[i]
      /\ \A i \in 1 .. Len(b) : c[Len(a) + i] = b[i]
  OBVIOUS
<1> HIDE DEF c
<1>2. ASSUME NEW i \in DOMAIN c
      PROVE  /\ Recordable(c[i])
             /\ c[i][2] = "PICKED_UP" =>
                  i + 1 \in DOMAIN c /\ c[i + 1] = <<"PICKED_UP", "IN_TRANSIT">>
  <2>1. CASE i \in 1 .. Len(a)
    <3>1. c[i] = a[i] /\ i \in DOMAIN a
      BY <1>1, <2>1
    <3>2. i + 1 \in DOMAIN a => i + 1 \in DOMAIN c /\ c[i + 1] = a[i + 1]
      BY <1>1
    <3> QED BY <3>1, <3>2 DEF RowsOK
  <2>2. CASE i \notin 1 .. Len(a)
    <3> DEFINE j == i - Len(a)
    <3>1. j \in DOMAIN b /\ c[i] = b[j]
      <4>1. j \in 1 .. Len(b) /\ i = Len(a) + j
        BY <1>1, <2>2
      <4> QED BY <1>1, <4>1
    <3>2. j + 1 \in DOMAIN b => i + 1 \in DOMAIN c /\ c[i + 1] = b[j + 1]
      <4>1. i + 1 = Len(a) + (j + 1)
        BY <1>1
      <4> HIDE DEF j
      <4> QED BY <1>1, <4>1
    <3> HIDE DEF j
    <3> QED BY <3>1, <3>2 DEF RowsOK
  <2> QED BY <2>1, <2>2
<1>3. RowsOK(c)
  BY <1>2 DEF RowsOK
<1>4. ASSUME NEW st, Records(a, st) \/ Records(b, st) PROVE Records(c, st)
  <2>1. CASE Records(a, st)
    BY <1>1, <2>1 DEF Records
  <2>2. CASE Records(b, st)
    <3>1. PICK j \in 1 .. Len(b) : b[j][2] = st
      BY <1>1, <2>2 DEF Records
    <3>2. Len(a) + j \in DOMAIN c /\ c[Len(a) + j] = b[j]
      BY <1>1
    <3> QED BY <3>1, <3>2 DEF Records
  <2> QED BY <1>4, <2>1, <2>2
<1> QED BY <1>3, <1>4 DEF c

-----------------------------------------------------------------------------
(* Steps that write no table *)

LEMMA TrailFacts ==
  ASSUME TrailInv, NEW p \in Procs
  PROVE  sess[p] \in Session /\ SessionOK(sess[p]) /\ TrailOK(sess[p])
  BY SessionFacts DEF TrailInv

\* A step of one session leaves the trail and the other sessions as they are.
LEMMA TrailStep ==
  ASSUME TrailInv, TypeInv', NEW p \in Procs, NEW s, TrailOK(s),
         sess' = [sess EXCEPT ![p] = s],
         UNCHANGED <<orders, audit, events>>
  PROVE  TrailInv'
<1>1. sess'[p] = s /\ \A q \in Procs \ {p} : sess'[q] = sess[q]
  BY DEF TrailInv, TypeInv, TypeOK
<1>2. \A q \in Procs : TrailOK(sess'[q])
  BY <1>1 DEF TrailInv
<1>3. \A q \in Procs : TrailOK(sess[q])'
  BY <1>2 DEF TrailOK, AnnouncesRecorded, RowsOK, Entitled, WritesRecorded
<1>4. \A o \in Orders : OrderTrail(o)'
  BY DEF TrailInv, OrderTrail
<1> QED BY <1>3, <1>4 DEF TrailInv

LEMMA TrailBegin ==
  ASSUME TrailInv, TypeInv', NEW p \in Procs, NEW s, TrailOK(s), Begin(p, s),
         UNCHANGED <<tables, redis, tasks>>
  PROVE  TrailInv'
  BY TrailStep DEF Begin, tables, tasks

LEMMA TrailContinue ==
  ASSUME TrailInv, TypeInv', NEW p \in Procs, NEW s, TrailOK(s), Continue(p, s),
         UNCHANGED <<orders, audit, events>>
  PROVE  TrailInv'
  BY TrailStep DEF Continue

LEMMA IdleTrail == TrailOK(Idle)
  BY EmptyRows DEF TrailOK, Entitled, WritesRecorded, AnnouncesRecorded, Idle

\* A session that has changed nothing yet and is entitled to go on.
LEMMA UnchangedTrail ==
  ASSUME NEW s, s.rows = <<>>, Entitled(s), s.now.status = s.was.status,
         s.pc \notin {"index", "unindex", "refresh", "announce"},
         s.pc = "driver" => s.op # "Patch",
         s.pc = "commit" => s.op \in {"Reject", "Timeout"}
  PROVE  TrailOK(s)
  BY EmptyRows DEF TrailOK, WritesRecorded, AnnouncesRecorded

\* A session whose rows back what it writes and announces.
LEMMA ChangedTrail ==
  ASSUME NEW s, RowsOK(s.rows), Records(s.rows, s.now.status), s.now.status # "PICKED_UP",
         Records(s.rows, s.st),
         s.pc \in {"driver", "index", "unindex", "commit"},
         s.pc = "driver" => s.op = "Patch"
  PROVE  TrailOK(s)
  BY DEF TrailOK, Entitled, WritesRecorded, AnnouncesRecorded

LEMMA UpdateStatusTrail ==
  ASSUME TrailInv, TypeInv', NEW p \in Procs, NEW o \in Orders, NEW new \in OrderStatus,
         NEW d, UpdateStatus(p, o, new, d)
  PROVE  TrailInv'
<1> DEFINE row == orders[o]
           now == Patched(row, new, d)
           rows == PatchTrail(row.status, new)
           t == [Idle EXCEPT
                  !.pc = IF Releases(new, now.driver) THEN "driver" ELSE "commit",
                  !.op = "Patch", !.o = o, !.st = new, !.was = row, !.now = now,
                  !.rows = rows]
<1>1. Recordable(<<row.status, new>>)
  BY DEF UpdateStatus, Recordable
<1>2. RowsOK(rows) /\ Records(rows, new) /\ Records(rows, now.status)
      /\ now.status # "PICKED_UP"
  <2>1. CASE new # "PICKED_UP"
    BY <1>1, <2>1, OneRow DEF PatchTrail, Patched
  <2>2. CASE new = "PICKED_UP"
    <3>1. now.status = "IN_TRANSIT" /\ rows = << <<row.status, new>>, <<new, "IN_TRANSIT">> >>
      BY <2>2 DEF PatchTrail, Patched
    <3>2. DOMAIN rows = {1, 2} /\ rows[1] = <<row.status, new>> /\ rows[2] = <<new, "IN_TRANSIT">>
      BY <3>1
    <3>3. Recordable(<<new, "IN_TRANSIT">>)
      BY <2>2 DEF Recordable, ValidTransition, VALID_TRANSITIONS
    <3> HIDE DEF rows, now
    <3> QED BY <1>1, <2>2, <3>1, <3>2, <3>3 DEF RowsOK, Records
  <2> QED BY <2>1, <2>2
<1>3. Begin(p, t) /\ UNCHANGED <<tables, redis, tasks>>
  BY DEF UpdateStatus
<1>4. /\ t.rows = rows /\ t.now = now /\ t.st = new /\ t.op = "Patch"
      /\ t.pc \in {"driver", "commit"}
  BY DEF Idle
<1> HIDE DEF t, rows, now
<1>5. TrailOK(t)
  BY <1>2, <1>4, ChangedTrail
<1> QED BY <1>3, <1>5, TrailBegin

\* A step that moves a session on and keeps what it has recorded.
LEMMA OnwardTrail ==
  ASSUME TrailInv, NEW p \in Procs, NEW t,
         sess[p].pc \in {"driver", "index", "unindex"},
         sess[p].pc = "driver" => sess[p].op = "Patch",
         t.pc \in {"index", "commit"},
         t.rows = sess[p].rows, t.was = sess[p].was, t.now = sess[p].now,
         t.st = sess[p].st, t.op = sess[p].op
  PROVE  TrailOK(t)
  BY TrailFacts DEF TrailOK, Entitled, WritesRecorded, AnnouncesRecorded

LEMMA ReleaseDriverTrail ==
  ASSUME TrailInv, TypeInv', NEW p \in Procs, ReleaseDriver(p) PROVE TrailInv'
<1> DEFINE s == sess[p]
           d == s.now.driver
           row == drivers[d]
           pc == IF row.located THEN "index" ELSE "commit"
           f == [s.drv EXCEPT ![d] = row]
           g == [s.dnow EXCEPT ![d] = [row EXCEPT !.status = "ONLINE", !.available = TRUE]]
           t == [s EXCEPT !.pc = pc, !.drv = f, !.dnow = g]
<1>1. Continue(p, t) /\ UNCHANGED <<orders, audit, events>>
      /\ s.pc = "driver" /\ s.op = "Patch" /\ s \in Session
  BY TrailFacts DEF ReleaseDriver, tables, tasks
<1>2. pc \in {"index", "commit"}
  OBVIOUS
<1> HIDE DEF f, g, pc, row, d
<1>3. /\ t.pc = pc /\ t.rows = s.rows /\ t.was = s.was /\ t.now = s.now
      /\ t.st = s.st /\ t.op = s.op
  BY <1>1 DEF Session
<1> HIDE DEF t
<1>4. TrailOK(t)
  BY <1>1, <1>2, <1>3, OnwardTrail
<1> QED BY <1>1, <1>4, TrailContinue

LEMMA ToCommitTrail ==
  ASSUME TrailInv, TypeInv', NEW p \in Procs, IndexDriver(p) \/ Unindex(p) PROVE TrailInv'
<1> DEFINE s == sess[p]
           t == [s EXCEPT !.pc = "commit"]
<1>1. Continue(p, t) /\ UNCHANGED <<orders, audit, events>>
      /\ s.pc \in {"index", "unindex"} /\ s \in Session
  BY TrailFacts DEF IndexDriver, Unindex, tables, tasks
<1>2. /\ t.pc = "commit" /\ t.rows = s.rows /\ t.was = s.was /\ t.now = s.now
      /\ t.st = s.st /\ t.op = s.op
  BY <1>1 DEF Session
<1> HIDE DEF t
<1>3. TrailOK(t)
  BY <1>1, <1>2, OnwardTrail
<1> QED BY <1>1, <1>3, TrailContinue

LEMMA AssignFetchOrderTrail ==
  ASSUME TrailInv, TypeInv', NEW p \in Procs, NEW o \in Orders, NEW d \in Drivers,
         AssignFetchOrder(p, o, d)
  PROVE  TrailInv'
<1> DEFINE row == orders[o]
           t == [Idle EXCEPT !.pc = "driver", !.op = "Assign", !.o = o, !.ask = d,
                             !.was = row, !.now = row]
<1>1. Begin(p, t) /\ UNCHANGED <<tables, redis, tasks>>
  BY DEF AssignFetchOrder
<1>2. TrailOK(t)
  BY UnchangedTrail DEF Idle, Entitled
<1> HIDE DEF t
<1> QED BY <1>1, <1>2, TrailBegin

LEMMA TriggerAssignmentTrail ==
  ASSUME TrailInv, TypeInv', NEW p \in Procs, NEW o \in Orders, TriggerAssignment(p, o)
  PROVE  TrailInv'
<1> DEFINE row == orders[o]
           t == [Idle EXCEPT !.pc = "excluded", !.op = "Trigger", !.o = o,
                             !.was = row, !.now = row]
<1>1. Begin(p, t) /\ ValidTransition(row.status, "DRIVER_PENDING")
      /\ UNCHANGED <<tables, redis, tasks>>
  BY DEF TriggerAssignment
<1>2. TrailOK(t)
  BY <1>1, UnchangedTrail DEF Idle, Entitled
<1> HIDE DEF t
<1> QED BY <1>1, <1>2, TrailBegin

LEMMA AnswerOfferTrail ==
  ASSUME TrailInv, TypeInv', NEW p \in Procs, NEW op \in {"Accept", "Reject"},
         NEW o \in Orders, AnswerOffer(p, op, o)
  PROVE  TrailInv'
<1> DEFINE row == orders[o]
           t == [Idle EXCEPT !.pc = "attempt", !.op = op, !.o = o, !.ask = row.driver,
                             !.was = row, !.now = row]
<1>1. Begin(p, t) /\ row.status = "DRIVER_PENDING" /\ UNCHANGED <<tables, redis, tasks>>
  BY DEF AnswerOffer
<1>2. TrailOK(t)
  BY <1>1, UnchangedTrail DEF Idle, Entitled
<1> HIDE DEF t
<1> QED BY <1>1, <1>2, TrailBegin

LEMMA TimeoutFiresTrail ==
  ASSUME TrailInv, TypeInv', NEW p \in Procs, NEW i \in timers, TimeoutFires(p, i)
  PROVE  TrailInv'
<1> DEFINE a == attempts[i]
           row == orders[a.order]
           t == [Idle EXCEPT !.pc = "attempt", !.op = "Timeout", !.o = a.order,
                             !.ask = a.driver, !.was = row, !.now = row]
<1>1. Continue(p, t) /\ row.status = "DRIVER_PENDING" /\ UNCHANGED <<orders, audit, events>>
  BY DEF TimeoutFires, tables
<1>2. TrailOK(t)
  BY <1>1, UnchangedTrail DEF Idle, Entitled
<1> HIDE DEF t
<1> QED BY <1>1, <1>2, TrailContinue

\* The two handlers that look up a driver and make the order ASSIGNED.
LEMMA AssignedTrail ==
  ASSUME TrailInv, NEW p \in Procs, NEW t,
         ValidTransition(sess[p].was.status, "ASSIGNED"),
         t.pc = "unindex", t.st = "ASSIGNED", t.now.status = "ASSIGNED",
         t.rows = << <<sess[p].was.status, "ASSIGNED">> >>
  PROVE  TrailOK(t)
<1>1. Recordable(<<sess[p].was.status, "ASSIGNED">>)
  BY DEF Recordable
<1>2. RowsOK(t.rows) /\ Records(t.rows, "ASSIGNED")
  BY <1>1, OneRow
<1> QED BY <1>2, ChangedTrail

LEMMA AssignFetchDriverTrail ==
  ASSUME TrailInv, TypeInv', NEW p \in Procs, AssignFetchDriver(p) PROVE TrailInv'
<1> DEFINE s == sess[p]
           d == s.ask
           row == drivers[d]
           now == [status |-> "ASSIGNED", driver |-> d]
           f == [s.drv EXCEPT ![d] = row]
           g == [s.dnow EXCEPT ![d] = [row EXCEPT !.status = "BUSY"]]
           rows == << <<s.was.status, "ASSIGNED">> >>
           t == [s EXCEPT !.pc = "unindex", !.st = "ASSIGNED", !.now = now,
                          !.drv = f, !.dnow = g, !.rows = rows]
<1>1. Continue(p, t) /\ UNCHANGED <<orders, audit, events>>
      /\ ValidTransition(s.was.status, "ASSIGNED") /\ s \in Session
  BY TrailFacts DEF AssignFetchDriver, tables, tasks
<1>2. now.status = "ASSIGNED"
  OBVIOUS
<1> HIDE DEF f, g, row, now, rows
<1>3. t.pc = "unindex" /\ t.st = "ASSIGNED" /\ t.now = now /\ t.rows = rows
  BY <1>1 DEF Session
<1> HIDE DEF t
<1>4. TrailOK(t)
  BY <1>1, <1>2, <1>3, AssignedTrail DEF rows
<1> QED BY <1>1, <1>4, TrailContinue

LEMMA AcceptFetchDriverTrail ==
  ASSUME TrailInv, TypeInv', NEW p \in Procs, AcceptFetchDriver(p) PROVE TrailInv'
<1> DEFINE s == sess[p]
           d == s.ask
           row == drivers[d]
           now == [s.now EXCEPT !.status = "ASSIGNED"]
           f == [s.drv EXCEPT ![d] = row]
           g == [s.dnow EXCEPT ![d] = [row EXCEPT !.status = "BUSY"]]
           rows == << <<s.was.status, "ASSIGNED">> >>
           t == [s EXCEPT !.pc = "unindex", !.st = "ASSIGNED", !.now = now,
                          !.drv = f, !.dnow = g, !.rows = rows]
<1>1. Continue(p, t) /\ UNCHANGED <<orders, audit, events>>
      /\ s.pc = "driver" /\ s.op = "Accept" /\ s \in Session
  BY TrailFacts DEF AcceptFetchDriver, tables, tasks
<1>2. ValidTransition(s.was.status, "ASSIGNED")
  BY <1>1, TrailFacts DEF TrailOK, Entitled, ValidTransition, VALID_TRANSITIONS
<1>3. now.status = "ASSIGNED"
  BY <1>1 DEF Session, OrderRow
<1> HIDE DEF f, g, row, now, rows
<1>4. t.pc = "unindex" /\ t.st = "ASSIGNED" /\ t.now = now /\ t.rows = rows
  BY <1>1 DEF Session
<1> HIDE DEF t
<1>5. TrailOK(t)
  BY <1>2, <1>3, <1>4, AssignedTrail DEF rows
<1> QED BY <1>1, <1>5, TrailContinue

\* A handler that searches keeps its right to offer the order.
LEMMA SearchTrail ==
  ASSUME TrailInv, TypeInv', NEW p \in Procs, NEW t, Continue(p, t),
         UNCHANGED <<orders, audit, events>>,
         t.pc \in {"excluded", "search", "score", "lock", "unlock"},
         ValidTransition(sess[p].was.status, "DRIVER_PENDING"),
         t.was = sess[p].was, t.rows = sess[p].rows
  PROVE  TrailInv'
<1>1. RowsOK(t.rows)
  BY TrailFacts DEF TrailOK
<1>2. TrailOK(t)
  BY <1>1 DEF TrailOK, Entitled, WritesRecorded, AnnouncesRecorded
<1> QED BY <1>2, TrailContinue

\* The two ways it ends.
LEMMA FoundTrail ==
  ASSUME NEW s \in Session, ValidTransition(s.was.status, "DRIVER_PENDING")
  PROVE  TrailOK(GiveUp(s)) /\ \A d : TrailOK(OfferTo(s, d))
<1>1. ASSUME NEW st \in {"NO_DRIVER_AVAILABLE", "DRIVER_PENDING"}, NEW t,
             t.pc = "commit", t.st = st, t.now.status = st,
             t.rows = << <<s.was.status, st>> >>
      PROVE  TrailOK(t)
  <2>1. Recordable(<<s.was.status, st>>)
    BY DEF Recordable, Bypasses, ValidTransition, VALID_TRANSITIONS
  <2>2. RowsOK(t.rows) /\ Records(t.rows, st)
    BY <1>1, <2>1, OneRow
  <2> QED BY <1>1, <2>2, ChangedTrail
<1>2. LET t == GiveUp(s) IN
      t.pc = "commit" /\ t.st = "NO_DRIVER_AVAILABLE" /\ t.now.status = "NO_DRIVER_AVAILABLE"
      /\ t.rows = << <<s.was.status, "NO_DRIVER_AVAILABLE">> >>
  BY DEF GiveUp, Session
<1>3. ASSUME NEW d
      PROVE  LET t == OfferTo(s, d) IN
             t.pc = "commit" /\ t.st = "DRIVER_PENDING" /\ t.now.status = "DRIVER_PENDING"
             /\ t.rows = << <<s.was.status, "DRIVER_PENDING">> >>
  BY DEF OfferTo, Session
<1> QED BY <1>1, <1>2, <1>3

LEMMA SearchFacts ==
  ASSUME TrailInv, NEW p \in Procs,
         sess[p].pc \in {"excluded", "search", "score", "lock", "unlock"}
  PROVE  ValidTransition(sess[p].was.status, "DRIVER_PENDING")
  BY TrailFacts DEF TrailOK, Entitled

LEMMA RetriggerTrail ==
  ASSUME TrailInv, TypeInv', NEW p \in Procs, Retrigger(p) PROVE TrailInv'
<1> DEFINE t == [sess[p] EXCEPT !.pc = "excluded", !.op = "Trigger"]
<1>1. Continue(p, t) /\ UNCHANGED <<orders, audit, events>>
      /\ ValidTransition(sess[p].was.status, "DRIVER_PENDING")
  BY DEF Retrigger, tables, tasks
<1>2. t.pc = "excluded" /\ t.was = sess[p].was /\ t.rows = sess[p].rows
  BY TrailFacts DEF Session
<1> HIDE DEF t
<1> QED BY <1>1, <1>2, SearchTrail

LEMMA FetchExcludedTrail ==
  ASSUME TrailInv, TypeInv', NEW p \in Procs, FetchExcluded(p) PROVE TrailInv'
<1>1. PICK e : /\ Continue(p, [sess[p] EXCEPT !.pc = "search", !.excl = e])
               /\ sess[p].pc = "excluded" /\ UNCHANGED <<orders, audit, events>>
  BY DEF FetchExcluded, tables, tasks
<1> DEFINE t == [sess[p] EXCEPT !.pc = "search", !.excl = e]
<1>2. t.pc = "search" /\ t.was = sess[p].was /\ t.rows = sess[p].rows
  BY TrailFacts DEF Session
<1>3. Continue(p, t)
  BY <1>1
<1> HIDE DEF t
<1> QED BY <1>1, <1>2, <1>3, SearchTrail, SearchFacts

LEMMA DiscoverTrail ==
  ASSUME TrailInv, TypeInv', NEW p \in Procs, Discover(p) PROVE TrailInv'
<1> DEFINE s == sess[p]
           found == (geo \cap InRange[s.o]) \ s.excl
           t == [s EXCEPT !.pc = "score", !.cand = found, !.excl = {}]
<1>1. s.pc = "search" /\ Continue(p, IF found = {} THEN GiveUp(s) ELSE t)
      /\ UNCHANGED <<orders, audit, events>> /\ s \in Session
  BY TrailFacts DEF Discover, tables, tasks
<1>2. ValidTransition(s.was.status, "DRIVER_PENDING")
  BY <1>1, SearchFacts
<1> HIDE DEF found
<1>3. t.pc = "score" /\ t.was = s.was /\ t.rows = s.rows
  BY <1>1 DEF Session
<1> HIDE DEF t
<1>4. CASE found = {}
  BY <1>1, <1>2, <1>4, FoundTrail, TrailContinue
<1>5. CASE found # {}
  BY <1>1, <1>2, <1>3, <1>5, SearchTrail
<1> QED BY <1>4, <1>5

LEMMA ScoreTrail ==
  ASSUME TrailInv, TypeInv', NEW p \in Procs, Score(p) PROVE TrailInv'
<1> DEFINE s == sess[p]
           f == [d \in Drivers |-> IF d \in s.cand THEN drivers[d] ELSE NewDriver]
           t == [s EXCEPT !.pc = "lock", !.drv = f, !.dnow = f]
<1>1. s.pc = "score" /\ Continue(p, t) /\ UNCHANGED <<orders, audit, events>> /\ s \in Session
  BY TrailFacts DEF Score, tables, tasks
<1> HIDE DEF f
<1>2. t.pc = "lock" /\ t.was = s.was /\ t.rows = s.rows
  BY <1>1 DEF Session
<1> HIDE DEF t
<1> QED BY <1>1, <1>2, SearchTrail, SearchFacts

LEMMA AcquireLockTrail ==
  ASSUME TrailInv, TypeInv', NEW p \in Procs, NEW d, AcquireLock(p, d) PROVE TrailInv'
<1> DEFINE t == [sess[p] EXCEPT !.pc = "unlock", !.pick = d]
<1>1. sess[p].pc = "lock" /\ Continue(p, t) /\ UNCHANGED <<orders, audit, events>>
  BY DEF AcquireLock, tables, tasks
<1>2. t.pc = "unlock" /\ t.was = sess[p].was /\ t.rows = sess[p].rows
  BY TrailFacts DEF Session
<1> HIDE DEF t
<1> QED BY <1>1, <1>2, SearchTrail, SearchFacts

LEMMA NextCandidateTrail ==
  ASSUME TrailInv, TypeInv', NEW p \in Procs, NEW d,
         sess[p].pc \in {"lock", "unlock"}, Continue(p, NextCandidate(sess[p], d)),
         UNCHANGED <<orders, audit, events>>
  PROVE  TrailInv'
<1> DEFINE s == sess[p]
           t == [s EXCEPT !.pc = "lock", !.pick = NoDriver, !.cand = @ \ {d}]
<1>1. ValidTransition(s.was.status, "DRIVER_PENDING") /\ s \in Session
  BY SearchFacts, TrailFacts
<1>2. t.pc = "lock" /\ t.was = s.was /\ t.rows = s.rows
  BY <1>1 DEF Session
<1>3. NextCandidate(s, d) = IF s.cand = {d} THEN GiveUp(s) ELSE t
  BY DEF NextCandidate
<1> HIDE DEF t
<1>4. CASE s.cand = {d}
  BY <1>1, <1>3, <1>4, FoundTrail, TrailContinue
<1>5. CASE s.cand # {d}
  BY <1>1, <1>2, <1>3, <1>5, SearchTrail
<1> QED BY <1>4, <1>5

LEMMA LockFailedTrail ==
  ASSUME TrailInv, TypeInv', NEW p \in Procs, NEW d, LockFailed(p, d) PROVE TrailInv'
  BY NextCandidateTrail DEF LockFailed, tables, tasks

LEMMA CheckAndUnlockTrail ==
  ASSUME TrailInv, TypeInv', NEW p \in Procs, CheckAndUnlock(p) PROVE TrailInv'
<1> DEFINE s == sess[p]
           d == s.pick
<1>1. s.pc = "unlock" /\ s \in Session /\ UNCHANGED <<orders, audit, events>>
      /\ (Continue(p, OfferTo(s, d)) \/ Continue(p, NextCandidate(s, d)))
  BY TrailFacts DEF CheckAndUnlock, tables, tasks
<1>2. TrailOK(OfferTo(s, d))
  BY <1>1, SearchFacts, FoundTrail
<1>3. CASE Continue(p, OfferTo(s, d))
  BY <1>1, <1>2, <1>3, TrailContinue
<1>4. CASE Continue(p, NextCandidate(s, d))
  BY <1>1, <1>4, NextCandidateTrail
<1> QED BY <1>1, <1>3, <1>4

LEMMA WithAttemptTrail ==
  ASSUME TrailInv, TypeInv', NEW p \in Procs, FetchAttempt(p) \/ NoAttempt(p) PROVE TrailInv'
<1> DEFINE s == sess[p]
<1>1. PICK i : Continue(p, WithAttempt(s, i))
  BY DEF FetchAttempt, NoAttempt
<1>2. s.pc = "attempt" /\ s \in Session /\ SessionOK(s) /\ TrailOK(s)
      /\ UNCHANGED <<orders, audit, events>>
  BY TrailFacts DEF FetchAttempt, NoAttempt, tables, tasks
<1> DEFINE t == WithAttempt(s, i)
<1>3. s.op \in {"Accept", "Reject", "Timeout"}
  BY <1>2 DEF SessionOK, HasDriver
<1>4. /\ t.rows = s.rows /\ t.was = s.was /\ t.now = s.now /\ t.op = s.op
      /\ \/ t.pc = "driver" /\ t.op = "Accept"
         \/ t.pc = "commit" /\ t.op \in {"Reject", "Timeout"}
  <2> DEFINE pc == IF s.op = "Accept" THEN "driver" ELSE "commit"
             mark == AnswerOf(s.op)
  <2>1. t = [s EXCEPT !.att = i, !.mark = mark, !.pc = pc]
    BY DEF WithAttempt
  <2> HIDE DEF pc, mark, t
  <2>2. t.rows = s.rows /\ t.was = s.was /\ t.now = s.now /\ t.op = s.op /\ t.pc = pc
    BY <1>2, <2>1 DEF Session
  <2>3. CASE s.op = "Accept"
    BY <2>2, <2>3 DEF pc
  <2>4. CASE s.op \in {"Reject", "Timeout"}
    BY <2>2, <2>4 DEF pc
  <2> QED BY <1>3, <2>3, <2>4
<1> HIDE DEF t
<1>5. TrailOK(t)
  BY <1>2, <1>4 DEF TrailOK, Entitled, WritesRecorded, AnnouncesRecorded
<1> QED BY <1>1, <1>2, <1>5, TrailContinue DEF t

\* Sessions that work on drivers only.
LEMMA DriverTrail ==
  ASSUME TrailInv, TypeInv', NEW p \in Procs, NEW t,
         sess' = [sess EXCEPT ![p] = t], UNCHANGED <<orders, audit, events>>,
         t.pc \in {"idle", "reload", "reindex", "purge", "store"},
         t.rows = <<>> \/ t.rows = sess[p].rows
  PROVE  TrailInv'
<1>1. RowsOK(t.rows)
  BY TrailFacts, EmptyRows DEF TrailOK
<1>2. TrailOK(t)
  BY <1>1 DEF TrailOK, Entitled, WritesRecorded, AnnouncesRecorded
<1> QED BY <1>2, TrailStep

LEMMA DriverHandlersTrail ==
  ASSUME TrailInv, TypeInv', NEW p \in Procs,
         \/ \E d \in Drivers : \/ UpdateLocation(p, d) \/ PurgeGhost(p, d)
                               \/ \E flag \in BOOLEAN : UpdateAvailability(p, d, flag)
         \/ ReloadDriver(p) \/ Reindex(p) \/ StoreDriver(p) \/ SweepGhosts(p)
         \/ Abort(p) \/ AssignRefused(p)
  PROVE  TrailInv'
<1> USE DEF tables, tasks, Begin, Continue
<1> DEFINE s == sess[p]
<1>0. s \in Session
  BY TrailFacts
<1>1. ASSUME NEW d \in Drivers, UpdateLocation(p, d) PROVE TrailInv'
  BY <1>1, DriverTrail DEF UpdateLocation, Idle
<1>2. ASSUME NEW d \in Drivers, PurgeGhost(p, d) PROVE TrailInv'
  <2> DEFINE pc == IF s.cand = {d} THEN "store" ELSE "purge"
             c == s.cand \ {d}
             t == [s EXCEPT !.cand = c, !.pc = pc]
  <2>1. sess' = [sess EXCEPT ![p] = t] /\ UNCHANGED <<orders, audit, events>>
    BY <1>2 DEF PurgeGhost
  <2>2. pc \in {"store", "purge"}
    OBVIOUS
  <2> HIDE DEF pc, c
  <2>3. t.pc = pc /\ t.rows = s.rows
    BY <1>0 DEF Session
  <2> HIDE DEF t
  <2> QED BY <2>1, <2>2, <2>3, DriverTrail
<1>3. ASSUME NEW d \in Drivers, NEW flag \in BOOLEAN, UpdateAvailability(p, d, flag)
      PROVE  TrailInv'
  <2> DEFINE f == [Idle.drv EXCEPT ![d] = drivers[d]]
             g == [Idle.dnow EXCEPT ![d] = [drivers[d] EXCEPT !.available = flag]]
             t == [Idle EXCEPT !.pc = "reindex", !.op = "Availability", !.ask = d,
                               !.drv = f, !.dnow = g]
  <2>1. sess' = [sess EXCEPT ![p] = t] /\ UNCHANGED <<orders, audit, events>>
    BY <1>3 DEF UpdateAvailability
  <2> HIDE DEF f, g
  <2>2. t.pc = "reindex" /\ t.rows = <<>>
    BY DEF Idle
  <2> HIDE DEF t
  <2> QED BY <2>1, <2>2, DriverTrail
<1>4. CASE ReloadDriver(p)
  <2>1. PICK f, g : /\ sess' = [sess EXCEPT ![p] = [s EXCEPT !.pc = "reindex", !.drv = f, !.dnow = g]]
                    /\ UNCHANGED <<orders, audit, events>>
    BY <1>4 DEF ReloadDriver
  <2> DEFINE t == [s EXCEPT !.pc = "reindex", !.drv = f, !.dnow = g]
  <2>2. t.pc = "reindex" /\ t.rows = s.rows /\ sess' = [sess EXCEPT ![p] = t]
    BY <1>0, <2>1 DEF Session
  <2> HIDE DEF t
  <2> QED BY <2>1, <2>2, DriverTrail
<1>5. CASE Reindex(p)
  <2> DEFINE t == [s EXCEPT !.pc = "store"]
  <2>1. sess' = [sess EXCEPT ![p] = t] /\ UNCHANGED <<orders, audit, events>>
    BY <1>5 DEF Reindex
  <2>2. t.pc = "store" /\ t.rows = s.rows
    BY <1>0 DEF Session
  <2> HIDE DEF t
  <2> QED BY <2>1, <2>2, DriverTrail
<1>6. CASE SweepGhosts(p)
  <2>1. PICK f, g : /\ sess' = [sess EXCEPT ![p] = [Idle EXCEPT !.pc = "purge", !.op = "Sweep",
                                             !.cand = Ghosts, !.drv = f, !.dnow = g]]
                    /\ UNCHANGED <<orders, audit, events>>
    BY <1>6 DEF SweepGhosts
  <2> DEFINE t == [Idle EXCEPT !.pc = "purge", !.op = "Sweep", !.cand = Ghosts,
                               !.drv = f, !.dnow = g]
  <2>2. t.pc = "purge" /\ t.rows = <<>> /\ sess' = [sess EXCEPT ![p] = t]
    BY <2>1 DEF Idle
  <2> HIDE DEF t
  <2> QED BY <2>1, <2>2, DriverTrail
<1>7. CASE StoreDriver(p) \/ Abort(p) \/ AssignRefused(p)
  <2>1. sess' = [sess EXCEPT ![p] = Idle] /\ UNCHANGED <<orders, audit, events>>
    BY <1>7 DEF StoreDriver, Abort, AssignRefused
  <2> QED BY <2>1, DriverTrail DEF Idle
<1> QED BY <1>1, <1>2, <1>3, <1>4, <1>5, <1>6, <1>7

\* Steps that no session takes.
LEMMA ElsewhereTrail ==
  ASSUME TrailInv, TypeInv', UNCHANGED <<orders, audit, events, sess>> PROVE TrailInv'
<1>1. \A o \in Orders : OrderTrail(o)'
  BY DEF TrailInv, OrderTrail
<1>2. \A p \in Procs : TrailOK(sess[p])'
  BY DEF TrailInv, TrailOK, AnnouncesRecorded, RowsOK, Entitled, WritesRecorded
<1> QED BY <1>1, <1>2 DEF TrailInv

-----------------------------------------------------------------------------
(* The announcement, the commit and the creation of an order *)

LEMMA RefreshTrail ==
  ASSUME TrailInv, TypeInv', NEW p \in Procs, Refresh(p) PROVE TrailInv'
<1> DEFINE s == sess[p]
           row == orders[s.o]
           t == [s EXCEPT !.pc = "announce", !.now = row]
<1>1. /\ s.pc = "refresh" /\ s \in Session /\ SessionOK(s) /\ TrailOK(s)
      /\ Continue(p, t) /\ UNCHANGED <<orders, audit, events>>
  BY TrailFacts DEF Refresh, tables, tasks
<1>2. s.o \in Orders /\ row.status \in OrderStatus
  BY <1>1 DEF SessionOK, HasOrder, OrderPc
<1>3. Records(audit[s.o], row.status)
  BY <1>2 DEF TrailInv, OrderTrail, OrderStatus
<1>4. t.pc = "announce" /\ t.rows = s.rows /\ t.o = s.o /\ t.st = s.st /\ t.now = row
  BY <1>1 DEF Session
<1> HIDE DEF t, row
<1>5. TrailOK(t)
  BY <1>1, <1>3, <1>4 DEF TrailOK, Entitled, WritesRecorded, AnnouncesRecorded
<1> QED BY <1>1, <1>5, TrailContinue

LEMMA AnnounceTrail ==
  ASSUME TrailInv, TypeInv', NEW p \in Procs, Announce(p) PROVE TrailInv'
<1> DEFINE s == sess[p]
<1>1. /\ s.pc = "announce" /\ s \in Session /\ SessionOK(s) /\ TrailOK(s)
      /\ sess' = [sess EXCEPT ![p] = Idle] /\ UNCHANGED <<orders, audit>>
      /\ events' = [events EXCEPT ![s.o] = @ \cup EventsOf(s)]
  BY TrailFacts DEF Announce, Continue, tables
<1>2. Records(audit[s.o], s.st) /\ Records(audit[s.o], s.now.status)
  BY <1>1 DEF TrailOK, AnnouncesRecorded
<1>3. \A e \in EventsOf(s) : Records(audit[s.o], e)
  BY <1>2 DEF EventsOf
<1>4. ASSUME NEW o \in Orders PROVE OrderTrail(o)'
  <2>1. OrderTrail(o) /\ events \in [Orders -> SUBSET OrderStatus]
    BY DEF TrailInv, TypeInv, TypeOK
  <2>2. \A e \in events'[o] : Records(audit[o], e)
    BY <1>1, <1>3, <2>1 DEF OrderTrail
  <2> QED BY <1>1, <2>1, <2>2 DEF OrderTrail
<1>5. \A q \in Procs : TrailOK(sess'[q])
  BY <1>1, IdleTrail DEF TrailInv, TypeInv, TypeOK
<1>6. \A q \in Procs : TrailOK(sess[q])'
  BY <1>1, <1>5 DEF TrailOK, AnnouncesRecorded, RowsOK, Entitled, WritesRecorded
<1> QED BY <1>4, <1>6 DEF TrailInv

\* The trail of every order grows or stays, so what was recorded stays recorded.
LEMMA GrowthKeepsSessions ==
  ASSUME TrailInv, NEW q \in Procs, NEW q0 \in Procs, sess'[q] = sess[q0],
         \A o \in Orders : \A st : Records(audit[o], st) => Records(audit'[o], st)
  PROVE  TrailOK(sess[q])'
<1> DEFINE s == sess[q0]
<1>1. TrailOK(s) /\ SessionOK(s)
  BY TrailFacts
<1>2. s.pc \in {"refresh", "announce"} => s.o \in Orders
  BY <1>1 DEF SessionOK, HasOrder, OrderPc
<1>3. AnnouncesRecorded(sess[q])'
  BY <1>1, <1>2 DEF TrailOK, AnnouncesRecorded
<1>4. RowsOK(sess'[q].rows) /\ Entitled(sess'[q]) /\ WritesRecorded(sess'[q])
  BY <1>1 DEF TrailOK
<1> QED BY <1>3, <1>4 DEF TrailOK, RowsOK, Entitled, WritesRecorded

LEMMA CreateDeliveryTrail ==
  ASSUME TrailInv, TypeInv', NEW o \in Orders, CreateDelivery(o) PROVE TrailInv'
<1> DEFINE rows == << <<"CREATED", "CREATED">> >>
<1>1. audit[o] = <<>> /\ events[o] = {}
  <2>1. OrderTrail(o) /\ orders[o].status = "ABSENT"
    BY DEF TrailInv, CreateDelivery, Absent
  <2> QED BY <2>1 DEF OrderTrail, Records
<1>2. RowsOK(rows) /\ Records(rows, "CREATED")
  BY OneRow DEF Recordable, ValidTransition
<1>3. /\ orders'[o].status = "CREATED" /\ audit'[o] = rows
      /\ \A x \in Orders \ {o} : orders'[x] = orders[x] /\ audit'[x] = audit[x]
      /\ events' = events /\ sess' = sess
  BY DEF CreateDelivery, TrailInv, TypeInv, TypeOK, tasks
<1> HIDE DEF rows
<1>4. ASSUME NEW x \in Orders PROVE OrderTrail(x)'
  <2>1. CASE x = o
    BY <1>1, <1>2, <1>3, <2>1 DEF OrderTrail
  <2>2. CASE x # o
    BY <1>3, <2>2 DEF TrailInv, OrderTrail
  <2> QED BY <2>1, <2>2
<1>5. \A x \in Orders : \A st : Records(audit[x], st) => Records(audit'[x], st)
  BY <1>1, <1>3 DEF Records
<1>6. \A q \in Procs : TrailOK(sess[q])'
  BY <1>3, <1>5, GrowthKeepsSessions
<1> QED BY <1>4, <1>6 DEF TrailInv

LEMMA CommitTrail ==
  ASSUME TrailInv, TypeInv', NEW p \in Procs, Commit(p) PROVE TrailInv'
<1> DEFINE s == sess[p]
           answerOnly == s.op \in {"Reject", "Timeout"}
           pc == IF answerOnly THEN "order" ELSE "refresh"
           att == IF s.op = "Trigger" /\ s.pick # NoDriver THEN Len(attempts) + 1 ELSE 0
           t == [s EXCEPT !.pc = pc, !.att = att, !.mark = "OFFERED", !.rows = <<>>,
                          !.drv = NoDrivers, !.dnow = NoDrivers]
           row == orders[s.o]
           new == WriteOrder(s.was, s.now, row)
           trail == audit[s.o] \o s.rows
<1>1. /\ s.pc = "commit" /\ s \in Session /\ SessionOK(s) /\ TrailOK(s)
      /\ sess' = [sess EXCEPT ![p] = t]
      /\ orders' = [orders EXCEPT ![s.o] = new]
      /\ audit' = [audit EXCEPT ![s.o] = trail]
      /\ UNCHANGED events
  BY TrailFacts DEF Commit, Continue, tasks
<1>2. s.o \in Orders /\ row.status \in OrderStatus /\ OrderTrail(s.o)
      /\ s.rows \in Seq(Edge) /\ audit[s.o] \in Seq(Edge)
  BY <1>1 DEF SessionOK, HasOrder, OrderPc, TrailInv, TypeInv, TypeOK, Session
<1>3. RowsOK(trail)
      /\ \A st : Records(audit[s.o], st) \/ Records(s.rows, st) => Records(trail, st)
  BY <1>1, <1>2, MoreRows DEF TrailOK, OrderTrail
<1>4. Records(trail, new.status) /\ new.status # "PICKED_UP" /\ new.status # "ABSENT"
  <2>1. row.status # "ABSENT" /\ s.now.status # "ABSENT"
    BY <1>1, <1>2 DEF SessionOK, HasOrder, OrderPc, OrderStatus
  <2>2. new.status = IF s.now.status # s.was.status THEN s.now.status ELSE row.status
    BY DEF WriteOrder
  <2> HIDE DEF new, row, trail, s
  <2>3. CASE s.now.status # s.was.status
    BY <1>1, <1>3, <2>1, <2>2, <2>3 DEF TrailOK, WritesRecorded
  <2>4. CASE s.now.status = s.was.status
    BY <1>2, <1>3, <2>1, <2>2, <2>4 DEF OrderTrail, row
  <2> QED BY <2>3, <2>4
<1>5. ~answerOnly => Records(trail, s.st)
  BY <1>1, <1>3 DEF TrailOK, AnnouncesRecorded
<1> HIDE DEF new, trail, row
<1>6. /\ orders'[s.o] = new /\ audit'[s.o] = trail
      /\ \A o \in Orders \ {s.o} : orders'[o] = orders[o] /\ audit'[o] = audit[o]
      /\ sess'[p] = t /\ \A q \in Procs \ {p} : sess'[q] = sess[q]
  BY <1>1, <1>2 DEF TrailInv, TypeInv, TypeOK
<1>7. \A o \in Orders : \A st : Records(audit[o], st) => Records(audit'[o], st)
  BY <1>2, <1>3, <1>6
<1>8. ASSUME NEW o \in Orders PROVE OrderTrail(o)'
  <2>1. CASE o = s.o
    BY <1>1, <1>2, <1>3, <1>4, <1>6, <2>1 DEF OrderTrail
  <2>2. CASE o # s.o
    BY <1>1, <1>6, <2>2 DEF TrailInv, OrderTrail
  <2> QED BY <2>1, <2>2
<1>9. TrailOK(sess[p])'
  <2>1. t.pc = pc /\ t.o = s.o /\ t.st = s.st /\ t.rows = <<>> /\ pc \in {"order", "refresh"}
    <3> HIDE DEF att
    <3>1. t.pc = pc /\ t.o = s.o /\ t.st = s.st /\ t.rows = <<>>
      <4> HIDE DEF pc
      <4> QED BY <1>1 DEF Session
    <3> QED BY <3>1
  <2>2. pc = "refresh" => Records(audit'[s.o], s.st)
    BY <1>5, <1>6
  <2> HIDE DEF t, s, pc
  <2>3. RowsOK(sess'[p].rows) /\ Entitled(sess'[p]) /\ WritesRecorded(sess'[p])
    BY <1>6, <2>1, EmptyRows DEF Entitled, WritesRecorded
  <2>4. AnnouncesRecorded(sess[p])'
    BY <1>6, <2>1, <2>2 DEF AnnouncesRecorded
  <2> QED BY <2>3, <2>4 DEF TrailOK, RowsOK, Entitled, WritesRecorded
<1>10. ASSUME NEW q \in Procs \ {p} PROVE TrailOK(sess[q])'
  BY <1>6, <1>7, GrowthKeepsSessions
<1> QED BY <1>8, <1>9, <1>10 DEF TrailInv

-----------------------------------------------------------------------------
(* The theorem *)

LEMMA TrailInvInit == Init => TrailInv
<1> SUFFICES ASSUME Init PROVE TrailInv
  OBVIOUS
<1>1. \A o \in Orders : OrderTrail(o)
  BY EmptyRows DEF Init, StoreInit, OrderTrail, Absent
<1>2. \A p \in Procs : TrailOK(sess[p])
  BY IdleTrail DEF Init, StoreInit
<1> QED BY <1>1, <1>2, TypeInvInit DEF TrailInv

LEMMA TrailInvStep == TrailInv /\ [Next]_vars => TrailInv'
<1> SUFFICES ASSUME TrailInv, [Next]_vars PROVE TrailInv'
  OBVIOUS
<1> TypeInv'
  BY TypeInvStep DEF TrailInv
<1>1. ASSUME NEW o \in Orders, CreateDelivery(o) PROVE TrailInv'
  BY <1>1, CreateDeliveryTrail
<1>2. ASSUME NEW p \in Procs, Request(p) PROVE TrailInv'
  <2>1. ASSUME NEW o \in Orders, NEW st \in Patches, NEW d \in Named, UpdateStatus(p, o, st, d)
        PROVE  TrailInv'
    BY <2>1, UpdateStatusTrail, DispatchAssumption
  <2>2. ASSUME NEW o \in Orders, NEW d \in Drivers, AssignFetchOrder(p, o, d) PROVE TrailInv'
    BY <2>2, AssignFetchOrderTrail
  <2>3. ASSUME NEW o \in Orders, TriggerAssignment(p, o) PROVE TrailInv'
    BY <2>3, TriggerAssignmentTrail
  <2>4. ASSUME NEW op \in Ops \cap {"Accept", "Reject"}, NEW o \in Orders, AnswerOffer(p, op, o)
        PROVE  TrailInv'
    BY <2>4, AnswerOfferTrail
  <2>5. ASSUME NEW d \in Drivers, UpdateLocation(p, d) PROVE TrailInv'
    BY <2>5, DriverHandlersTrail
  <2>6. ASSUME NEW d \in Drivers, NEW flag \in BOOLEAN, UpdateAvailability(p, d, flag)
        PROVE  TrailInv'
    BY <2>6, DriverHandlersTrail
  <2> QED BY <1>2, <2>1, <2>2, <2>3, <2>4, <2>5, <2>6 DEF Request
<1>3. ASSUME NEW p \in Procs, Step(p) PROVE TrailInv'
  <2>1. CASE ReleaseDriver(p) \/ IndexDriver(p) \/ Unindex(p)
    BY <2>1, ReleaseDriverTrail, ToCommitTrail
  <2>2. CASE AssignFetchDriver(p) \/ AssignRefused(p)
    BY <2>2, AssignFetchDriverTrail, DriverHandlersTrail
  <2>3. CASE Retrigger(p) \/ FetchExcluded(p) \/ Discover(p) \/ Score(p)
    BY <2>3, RetriggerTrail, FetchExcludedTrail, DiscoverTrail, ScoreTrail
  <2>4. ASSUME NEW d \in Drivers, AcquireLock(p, d) \/ LockFailed(p, d) PROVE TrailInv'
    BY <2>4, AcquireLockTrail, LockFailedTrail
  <2>5. CASE CheckAndUnlock(p)
    BY <2>5, CheckAndUnlockTrail
  <2>6. CASE FetchAttempt(p) \/ NoAttempt(p) \/ AcceptFetchDriver(p)
    BY <2>6, WithAttemptTrail, AcceptFetchDriverTrail
  <2>7. CASE ReloadDriver(p) \/ Reindex(p) \/ StoreDriver(p)
    BY <2>7, DriverHandlersTrail
  <2>8. ASSUME NEW d \in Drivers, PurgeGhost(p, d) PROVE TrailInv'
    BY <2>8, DriverHandlersTrail
  <2>9. CASE Commit(p) \/ Refresh(p) \/ Announce(p)
    BY <2>9, CommitTrail, RefreshTrail, AnnounceTrail
  <2> QED BY <1>3, <2>1, <2>2, <2>3, <2>4, <2>5, <2>6, <2>7, <2>8, <2>9 DEF Step
<1>4. ASSUME NEW i \in timers, Timeout(i) PROVE TrailInv'
  <2>1. ASSUME NEW p \in Procs, TimeoutFires(p, i) PROVE TrailInv'
    BY <2>1, TimeoutFiresTrail
  <2>2. CASE TimeoutMoot(i)
    BY <2>2, ElsewhereTrail DEF TimeoutMoot, tables
  <2> QED BY <1>4, <2>1, <2>2 DEF Timeout
<1>5. CASE Sweep \/ Clock
  <2>1. CASE Sweep
    BY <2>1, DriverHandlersTrail DEF Sweep
  <2>2. CASE Clock
    BY <2>2, ElsewhereTrail DEF Clock, GrowStale, tasks
  <2> QED BY <1>5, <2>1, <2>2
<1>6. CASE Failure
  <2>1. ASSUME NEW p \in Procs, Abort(p) PROVE TrailInv'
    BY <2>1, DriverHandlersTrail
  <2>2. ASSUME NEW i \in timers, LoseTimer(i) PROVE TrailInv'
    BY <2>2, ElsewhereTrail DEF LoseTimer, tables
  <2>3. ASSUME NEW d \in Drivers, LockExpires(d) PROVE TrailInv'
    BY <2>3, ElsewhereTrail DEF LockExpires, tables, tasks
  <2> QED BY <1>6, <2>1, <2>2, <2>3 DEF Failure
<1>7. CASE UNCHANGED vars
  BY <1>7, ElsewhereTrail DEF vars, tables, tasks
<1> QED BY <1>1, <1>2, <1>3, <1>4, <1>5, <1>6, <1>7 DEF Next

LEMMA TrailInvariant == Spec => []TrailInv
  BY TrailInvInit, TrailInvStep, PTL DEF Spec

\* README.md:76 calls the state machine non-bypassable.  It is bypassed by the
\* searches that end with nobody for a CREATED or an ASSIGNED order, and by
\* nothing else: whatever handlers validated a row that was changed since, were
\* cut off, or ran twice, every other row of the trail is a move it allows.
THEOREM OnlySearchBypassesHolds == Spec => []OnlySearchBypasses
<1>1. TrailInv => OnlySearchBypasses
  BY DEF TrailInv, OrderTrail, RowsOK, Recordable, OnlySearchBypasses
<1> QED BY <1>1, TrailInvariant, PTL

\* The stored status is always accounted for in the trail, although a commit
\* writes only the columns its handler changed.
THEOREM StatusAuditedHolds == Spec => []StatusAudited
<1>1. TrailInv => StatusAudited
  BY DEF TrailInv, OrderTrail, Records, StatusAudited
<1> QED BY <1>1, TrailInvariant, PTL

\* The automatic advance of update_status cannot be observed half done.
THEOREM PickedUpIsTransientHolds == Spec => []PickedUpIsTransient
<1>1. TrailInv => PickedUpIsTransient
  BY DEF TrailInv, OrderTrail, RowsOK, PickedUpIsTransient
<1> QED BY <1>1, TrailInvariant, PTL

\* An event names a status that a committed row records, also when it is read
\* from the order after another handler's commit.
THEOREM EventsAuditedHolds == Spec => []EventsAudited
<1>1. TrailInv => EventsAudited
  BY DEF TrailInv, OrderTrail, Records, EventsAudited
<1> QED BY <1>1, TrailInvariant, PTL

-----------------------------------------------------------------------------
(* The attempts and their moves in the trail: the inductive invariant *)

\* The attempts of order o, the accepted ones, and the rows that move to st.
Mine(o) == {i \in DOMAIN attempts : attempts[i].order = o}
Accepted(o) == {i \in Mine(o) : attempts[i].status = "ACCEPTED"}
Moves(rows, st) == {i \in DOMAIN rows : rows[i][2] = st}

\* TrailCoversAttempts, for one order.
Covered(o) ==
  /\ Cardinality(Mine(o)) <= Cardinality(Moves(audit[o], "DRIVER_PENDING"))
  /\ Cardinality(Accepted(o)) <= Cardinality(Moves(audit[o], "ASSIGNED"))

Searching == {"excluded", "search", "score", "lock", "unlock"}

\* Only a search offers and only an acceptance accepts: the attempt that a commit
\* inserts or accepts comes with the status that its session announces.
Course(s) ==
  /\ s.pc \in Searching => s.op = "Trigger"
  /\ s.pc \in {"driver", "index", "unindex", "attempt"} => s.op # "Trigger"
  /\ s.pc = "index" => s.op = "Patch"
  /\ s.op = "Trigger" /\ s.pc = "commit" /\ s.pick # NoDriver => s.st = "DRIVER_PENDING"
  /\ s.op = "Accept" /\ s.pc \in {"unindex", "commit"} => s.st = "ASSIGNED"
  /\ s.mark = "ACCEPTED" =>
       /\ s.op = "Accept" /\ s.pc \in {"driver", "unindex", "commit"}
       /\ s.att # 0 => attempts[s.att].order = s.o

CoverInv ==
  /\ TrailInv
  /\ \A p \in Procs : Course(sess[p])
  /\ \A o \in Orders : Covered(o)

-----------------------------------------------------------------------------
(* Counting *)

LEMMA MovesFinite ==
  ASSUME NEW rows \in Seq(Edge), NEW st
  PROVE  IsFiniteSet(Moves(rows, st)) /\ Cardinality(Moves(rows, st)) \in Nat
<1>1. IsFiniteSet(1 .. Len(rows)) /\ DOMAIN rows = 1 .. Len(rows)
  BY FS_Interval
<1>2. Moves(rows, st) \in SUBSET (1 .. Len(rows))
  BY <1>1 DEF Moves
<1>3. IsFiniteSet(Moves(rows, st))
  BY <1>1, <1>2, FS_Subset
<1> QED BY <1>3, FS_CardinalityType

LEMMA MineFinite ==
  ASSUME TypeInv, NEW o
  PROVE  /\ IsFiniteSet(Mine(o)) /\ Cardinality(Mine(o)) \in Nat
         /\ IsFiniteSet(Accepted(o)) /\ Cardinality(Accepted(o)) \in Nat
<1>1. IsFiniteSet(1 .. Len(attempts)) /\ DOMAIN attempts = 1 .. Len(attempts)
  BY FS_Interval DEF TypeInv, TypeOK
<1>2. Mine(o) \in SUBSET (1 .. Len(attempts)) /\ Accepted(o) \in SUBSET Mine(o)
  BY <1>1 DEF Mine, Accepted
<1>3. IsFiniteSet(Mine(o))
  BY <1>1, <1>2, FS_Subset
<1>4. IsFiniteSet(Accepted(o))
  BY <1>2, <1>3, FS_Subset
<1> QED BY <1>3, <1>4, FS_CardinalityType

\* A set that gains at most one element.
LEMMA GainsOne ==
  ASSUME NEW S, IsFiniteSet(S), NEW x, NEW T \in SUBSET (S \cup {x})
  PROVE  Cardinality(T) \in Nat /\ Cardinality(T) <= Cardinality(S) + 1
<1>1. Cardinality(S) \in Nat
  BY FS_CardinalityType
<1>2. IsFiniteSet(S \cup {x}) /\ Cardinality(S \cup {x}) \in Nat
      /\ Cardinality(S \cup {x}) <= Cardinality(S) + 1
  <2>1. /\ IsFiniteSet(S \cup {x})
        /\ Cardinality(S \cup {x}) = IF x \in S THEN Cardinality(S) ELSE Cardinality(S) + 1
    BY FS_AddElement
  <2> QED BY <1>1, <2>1
<1>3. IsFiniteSet(T) /\ Cardinality(T) <= Cardinality(S \cup {x})
  BY <1>2, FS_Subset
<1>4. Cardinality(T) \in Nat
  BY <1>3, FS_CardinalityType
<1> QED BY <1>1, <1>2, <1>3, <1>4

\* Rows that are appended leave the moves there are, and add their own.
LEMMA MovesAppended ==
  ASSUME NEW a \in Seq(Edge), NEW b \in Seq(Edge), NEW st
  PROVE  /\ Cardinality(Moves(a, st)) <= Cardinality(Moves(a \o b, st))
         /\ Records(b, st) => Cardinality(Moves(a, st)) + 1 <= Cardinality(Moves(a \o b, st))
<1> DEFINE c == a \o b
           S == Moves(a, st)
           T == Moves(c, st)
<1>1. /\ Len(a) \in Nat /\ DOMAIN a = 1 .. Len(a) /\ DOMAIN b = 1 .. Len(b)
      /\ c \in Seq(Edge) /\ Len(c) = Len(a) + Len(b) /\ DOMAIN c = 1 .. Len(c)
      /\ Len(b) \in Nat
      /\ \A i \in 1 .. Len(a) : c[i] = a[i]
      /\ \A i \in 1 .. Len(b) : c[Len(a) + i] = b[i]
  OBVIOUS
<1>2. IsFiniteSet(S) /\ Cardinality(S) \in Nat /\ IsFiniteSet(T) /\ Cardinality(T) \in Nat
  BY <1>1, MovesFinite
<1> HIDE DEF c
<1>3. S \in SUBSET T
  BY <1>1 DEF Moves
<1>4. Cardinality(S) <= Cardinality(T)
  BY <1>2, <1>3, FS_Subset
<1>5. ASSUME Records(b, st) PROVE Cardinality(S) + 1 <= Cardinality(T)
  <2>1. PICK j \in 1 .. Len(b) : b[j][2] = st
    BY <1>1, <1>5 DEF Records
  <2> DEFINE x == Len(a) + j
  <2>2. x \notin DOMAIN a /\ x \in DOMAIN c /\ c[x] = b[j]
    BY <1>1
  <2>3. x \notin S /\ x \in T
    BY <2>1, <2>2 DEF Moves
  <2> HIDE DEF S, T, x
  <2>4. IsFiniteSet(S \cup {x}) /\ Cardinality(S \cup {x}) = Cardinality(S) + 1
    BY <1>2, <2>3, FS_AddElement
  <2>5. S \cup {x} \in SUBSET T
    BY <1>3, <2>3
  <2>6. Cardinality(S \cup {x}) <= Cardinality(T)
    BY <1>2, <2>5, FS_Subset
  <2> QED BY <2>4, <2>6
<1> QED BY <1>4, <1>5 DEF c

-----------------------------------------------------------------------------
(* Steps that write neither attempts nor the trail *)

LEMMA CoverFacts ==
  ASSUME CoverInv, NEW p \in Procs
  PROVE  sess[p] \in Session /\ SessionOK(sess[p]) /\ TrailOK(sess[p]) /\ Course(sess[p])
  BY TrailFacts DEF CoverInv

LEMMA CoverStep ==
  ASSUME CoverInv, TrailInv', NEW p \in Procs, NEW t, Course(t),
         sess' = [sess EXCEPT ![p] = t], UNCHANGED <<attempts, audit>>
  PROVE  CoverInv'
<1>1. sess'[p] = t /\ \A q \in Procs \ {p} : sess'[q] = sess[q]
  BY DEF CoverInv, TrailInv, TypeInv, TypeOK
<1>2. \A q \in Procs : Course(sess'[q])
  BY <1>1 DEF CoverInv
<1>3. \A q \in Procs : Course(sess[q])'
  BY <1>2 DEF Course
<1>4. \A o \in Orders : Covered(o)'
  BY DEF CoverInv, Covered, Mine, Accepted
<1> QED BY <1>3, <1>4 DEF CoverInv

LEMMA CoverElsewhere ==
  ASSUME CoverInv, TrailInv', UNCHANGED <<attempts, audit, sess>> PROVE CoverInv'
<1>1. \A p \in Procs : Course(sess[p])'
  BY DEF CoverInv, Course
<1>2. \A o \in Orders : Covered(o)'
  BY DEF CoverInv, Covered, Mine, Accepted
<1> QED BY <1>1, <1>2 DEF CoverInv

LEMMA RequestCourse ==
  ASSUME CoverInv, TrailInv', NEW p \in Procs, Request(p) PROVE CoverInv'
<1> USE DEF Begin, tables
<1>1. ASSUME NEW o \in Orders, NEW st \in Patches, NEW d \in Named, UpdateStatus(p, o, st, d)
      PROVE  CoverInv'
  <2> DEFINE row == orders[o]
             now == Patched(row, st, d)
             pc == IF Releases(st, now.driver) THEN "driver" ELSE "commit"
             rows == PatchTrail(row.status, st)
             t == [Idle EXCEPT !.pc = pc, !.op = "Patch", !.o = o, !.st = st, !.was = row,
                               !.now = now, !.rows = rows]
  <2>1. sess' = [sess EXCEPT ![p] = t] /\ UNCHANGED <<attempts, audit>>
    BY <1>1 DEF UpdateStatus
  <2>2. pc \in {"driver", "commit"}
    OBVIOUS
  <2> HIDE DEF row, now, pc, rows
  <2>3. t.pc = pc /\ t.op = "Patch" /\ t.mark = "OFFERED"
    BY DEF Idle
  <2> HIDE DEF t
  <2>4. Course(t)
    BY <2>2, <2>3 DEF Course, Searching
  <2> QED BY <2>1, <2>4, CoverStep
<1>2. ASSUME NEW o \in Orders, NEW d \in Drivers, AssignFetchOrder(p, o, d) PROVE CoverInv'
  <2> DEFINE t == [Idle EXCEPT !.pc = "driver", !.op = "Assign", !.o = o, !.ask = d,
                               !.was = orders[o], !.now = orders[o]]
  <2>1. sess' = [sess EXCEPT ![p] = t] /\ UNCHANGED <<attempts, audit>>
    BY <1>2 DEF AssignFetchOrder
  <2>2. Course(t)
    BY DEF Course, Searching, Idle
  <2> HIDE DEF t
  <2> QED BY <2>1, <2>2, CoverStep
<1>3. ASSUME NEW o \in Orders, TriggerAssignment(p, o) PROVE CoverInv'
  <2> DEFINE t == [Idle EXCEPT !.pc = "excluded", !.op = "Trigger", !.o = o,
                               !.was = orders[o], !.now = orders[o]]
  <2>1. sess' = [sess EXCEPT ![p] = t] /\ UNCHANGED <<attempts, audit>>
    BY <1>3 DEF TriggerAssignment
  <2>2. Course(t)
    BY DEF Course, Searching, Idle
  <2> HIDE DEF t
  <2> QED BY <2>1, <2>2, CoverStep
<1>4. ASSUME NEW op \in {"Accept", "Reject"}, NEW o \in Orders, AnswerOffer(p, op, o)
      PROVE  CoverInv'
  <2> DEFINE t == [Idle EXCEPT !.pc = "attempt", !.op = op, !.o = o, !.ask = orders[o].driver,
                               !.was = orders[o], !.now = orders[o]]
  <2>1. sess' = [sess EXCEPT ![p] = t] /\ UNCHANGED <<attempts, audit>>
    BY <1>4 DEF AnswerOffer
  <2>2. Course(t)
    BY DEF Course, Searching, Idle
  <2> HIDE DEF t
  <2> QED BY <2>1, <2>2, CoverStep
<1>5. ASSUME NEW d \in Drivers, UpdateLocation(p, d) PROVE CoverInv'
  <2> DEFINE t == [Idle EXCEPT !.pc = "reload", !.op = "Ping", !.ask = d]
  <2>1. sess' = [sess EXCEPT ![p] = t] /\ UNCHANGED <<attempts, audit>>
    BY <1>5 DEF UpdateLocation
  <2>2. Course(t)
    BY DEF Course, Searching, Idle
  <2> HIDE DEF t
  <2> QED BY <2>1, <2>2, CoverStep
<1>6. ASSUME NEW d \in Drivers, NEW flag \in BOOLEAN, UpdateAvailability(p, d, flag)
      PROVE  CoverInv'
  <2> DEFINE f == [Idle.drv EXCEPT ![d] = drivers[d]]
             g == [Idle.dnow EXCEPT ![d] = [drivers[d] EXCEPT !.available = flag]]
             t == [Idle EXCEPT !.pc = "reindex", !.op = "Availability", !.ask = d,
                               !.drv = f, !.dnow = g]
  <2>1. sess' = [sess EXCEPT ![p] = t] /\ UNCHANGED <<attempts, audit>>
    BY <1>6 DEF UpdateAvailability
  <2> HIDE DEF f, g
  <2>2. Course(t)
    BY DEF Course, Searching, Idle
  <2> HIDE DEF t
  <2> QED BY <2>1, <2>2, CoverStep
<1> QED BY <1>1, <1>2, <1>3, <1>4, <1>5, <1>6 DEF Request

\* The sessions that no request opens, and those that end.
LEMMA TaskCourse ==
  ASSUME CoverInv, TrailInv', NEW p \in Procs,
         \/ \E i \in timers : TimeoutFires(p, i)
         \/ SweepGhosts(p) \/ Abort(p) \/ AssignRefused(p) \/ StoreDriver(p) \/ Announce(p)
  PROVE  CoverInv'
<1> USE DEF Continue, tables
<1>1. ASSUME NEW i \in timers, TimeoutFires(p, i) PROVE CoverInv'
  <2> DEFINE a == attempts[i]
             row == orders[a.order]
             t == [Idle EXCEPT !.pc = "attempt", !.op = "Timeout", !.o = a.order,
                               !.ask = a.driver, !.was = row, !.now = row]
  <2>1. sess' = [sess EXCEPT ![p] = t] /\ UNCHANGED <<attempts, audit>>
    BY <1>1 DEF TimeoutFires
  <2>2. Course(t)
    BY DEF Course, Searching, Idle
  <2> HIDE DEF t
  <2> QED BY <2>1, <2>2, CoverStep
<1>2. CASE SweepGhosts(p)
  <2>1. PICK f, g : sess' = [sess EXCEPT ![p] = [Idle EXCEPT !.pc = "purge", !.op = "Sweep",
                                           !.cand = Ghosts, !.drv = f, !.dnow = g]]
    BY <1>2 DEF SweepGhosts
  <2> DEFINE t == [Idle EXCEPT !.pc = "purge", !.op = "Sweep", !.cand = Ghosts,
                               !.drv = f, !.dnow = g]
  <2>2. sess' = [sess EXCEPT ![p] = t] /\ UNCHANGED <<attempts, audit>>
    BY <1>2, <2>1 DEF SweepGhosts
  <2>3. Course(t)
    BY DEF Course, Searching, Idle
  <2> HIDE DEF t
  <2> QED BY <2>2, <2>3, CoverStep
<1>3. CASE Abort(p) \/ AssignRefused(p) \/ StoreDriver(p) \/ Announce(p)
  <2>1. sess' = [sess EXCEPT ![p] = Idle] /\ UNCHANGED <<attempts, audit>>
    BY <1>3 DEF Abort, AssignRefused, StoreDriver, Announce
  <2>2. Course(Idle)
    BY DEF Course, Searching, Idle
  <2> QED BY <2>1, <2>2, CoverStep
<1> QED BY <1>1, <1>2, <1>3

\* A session goes on with its order, its attempt and its answer.
Kept(s, t) == t.o = s.o /\ t.op = s.op /\ t.att = s.att /\ t.mark = s.mark

\* The handlers that change the order.
LEMMA ChangeCourse ==
  ASSUME CoverInv, TrailInv', NEW p \in Procs,
         \/ ReleaseDriver(p) \/ IndexDriver(p) \/ Unindex(p)
         \/ AssignFetchDriver(p) \/ AcceptFetchDriver(p)
  PROVE  CoverInv'
<1> DEFINE s == sess[p]
<1> USE DEF Continue, tables
<1>0. s \in Session /\ Course(s)
  BY CoverFacts
<1>1. CASE ReleaseDriver(p)
  <2> DEFINE d == s.now.driver
             row == drivers[d]
             pc == IF row.located THEN "index" ELSE "commit"
             f == [s.drv EXCEPT ![d] = row]
             g == [s.dnow EXCEPT ![d] = [row EXCEPT !.status = "ONLINE", !.available = TRUE]]
             t == [s EXCEPT !.pc = pc, !.drv = f, !.dnow = g]
  <2>1. /\ s.pc = "driver" /\ s.op = "Patch"
        /\ sess' = [sess EXCEPT ![p] = t] /\ UNCHANGED <<attempts, audit>>
    BY <1>1 DEF ReleaseDriver
  <2>2. pc \in {"index", "commit"}
    OBVIOUS
  <2> HIDE DEF f, g, pc, row, d
  <2>3. Kept(s, t) /\ t.pc = pc
    BY <1>0 DEF Kept, Session
  <2> HIDE DEF t, s
  <2>4. Course(t)
    BY <1>0, <2>1, <2>2, <2>3 DEF Course, Kept, Searching
  <2> QED BY <2>1, <2>4, CoverStep DEF s
<1>2. CASE IndexDriver(p) \/ Unindex(p)
  <2> DEFINE t == [s EXCEPT !.pc = "commit"]
  <2>1. /\ s.pc \in {"index", "unindex"}
        /\ sess' = [sess EXCEPT ![p] = t] /\ UNCHANGED <<attempts, audit>>
    BY <1>2 DEF IndexDriver, Unindex
  <2>2. Kept(s, t) /\ t.pc = "commit" /\ t.st = s.st
    BY <1>0 DEF Kept, Session
  <2> HIDE DEF t, s
  <2>3. Course(t)
    BY <1>0, <2>1, <2>2 DEF Course, Kept, Searching
  <2> QED BY <2>1, <2>3, CoverStep DEF s
<1>3. ASSUME NEW now, NEW f, NEW g, NEW rows,
             s.pc = "driver", s.op \in {"Assign", "Accept"}, UNCHANGED <<attempts, audit>>,
             sess' = [sess EXCEPT ![p] = [s EXCEPT !.pc = "unindex", !.st = "ASSIGNED",
                                    !.now = now, !.drv = f, !.dnow = g, !.rows = rows]]
      PROVE  CoverInv'
  <2> DEFINE t == [s EXCEPT !.pc = "unindex", !.st = "ASSIGNED",
                            !.now = now, !.drv = f, !.dnow = g, !.rows = rows]
  <2>1. Kept(s, t) /\ t.pc = "unindex" /\ t.st = "ASSIGNED" /\ sess' = [sess EXCEPT ![p] = t]
    BY <1>0, <1>3 DEF Kept, Session
  <2> HIDE DEF t, s
  <2>2. Course(t)
    BY <1>0, <1>3, <2>1 DEF Course, Kept, Searching
  <2> QED BY <1>3, <2>1, <2>2, CoverStep
<1>4. CASE AssignFetchDriver(p)
  <2> DEFINE now == [status |-> "ASSIGNED", driver |-> s.ask]
             f == [s.drv EXCEPT ![s.ask] = drivers[s.ask]]
             g == [s.dnow EXCEPT ![s.ask] = [drivers[s.ask] EXCEPT !.status = "BUSY"]]
             rows == << <<s.was.status, "ASSIGNED">> >>
  <2>1. /\ s.pc = "driver" /\ s.op = "Assign" /\ UNCHANGED <<attempts, audit>>
        /\ sess' = [sess EXCEPT ![p] = [s EXCEPT !.pc = "unindex", !.st = "ASSIGNED",
                                    !.now = now, !.drv = f, !.dnow = g, !.rows = rows]]
    BY <1>4 DEF AssignFetchDriver
  <2> HIDE DEF now, f, g, rows, s
  <2> QED BY <2>1, <1>3
<1>5. CASE AcceptFetchDriver(p)
  <2> DEFINE now == [s.now EXCEPT !.status = "ASSIGNED"]
             f == [s.drv EXCEPT ![s.ask] = drivers[s.ask]]
             g == [s.dnow EXCEPT ![s.ask] = [drivers[s.ask] EXCEPT !.status = "BUSY"]]
             rows == << <<s.was.status, "ASSIGNED">> >>
  <2>1. /\ s.pc = "driver" /\ s.op = "Accept" /\ UNCHANGED <<attempts, audit>>
        /\ sess' = [sess EXCEPT ![p] = [s EXCEPT !.pc = "unindex", !.st = "ASSIGNED",
                                    !.now = now, !.drv = f, !.dnow = g, !.rows = rows]]
    BY <1>5 DEF AcceptFetchDriver
  <2> HIDE DEF now, f, g, rows, s
  <2> QED BY <2>1, <1>3
<1> QED BY <1>1, <1>2, <1>4, <1>5

\* What a search may leave behind: itself, a driver, or nobody.
LEMMA FoundCourse ==
  ASSUME CoverInv, NEW p \in Procs, sess[p].pc \in Searching
  PROVE  /\ \A t : Kept(sess[p], t) /\ t.pc \in Searching => Course(t)
         /\ Course(GiveUp(sess[p])) /\ \A d : Course(OfferTo(sess[p], d))
         /\ \A d : Course(NextCandidate(sess[p], d))
<1> DEFINE s == sess[p]
<1>1. s \in Session /\ Course(s)
  BY CoverFacts
<1>2. s.op = "Trigger" /\ s.mark # "ACCEPTED"
  BY <1>1 DEF Course
<1>3. ASSUME NEW t, Kept(s, t), t.pc \in Searching PROVE Course(t)
  BY <1>2, <1>3 DEF Course, Kept, Searching
<1>4. Kept(s, GiveUp(s)) /\ GiveUp(s).pc = "commit" /\ GiveUp(s).pick = NoDriver
  BY <1>1 DEF Kept, GiveUp, Session
<1>5. ASSUME NEW d
      PROVE  /\ Kept(s, OfferTo(s, d)) /\ OfferTo(s, d).pc = "commit"
             /\ OfferTo(s, d).st = "DRIVER_PENDING"
  BY <1>1 DEF Kept, OfferTo, Session
<1>6. ASSUME NEW d PROVE Course(OfferTo(s, d))
  BY <1>2, <1>5 DEF Course, Kept, Searching
<1>7. Course(GiveUp(s))
  BY <1>2, <1>4 DEF Course, Kept, Searching
<1>8. ASSUME NEW d PROVE Course(NextCandidate(s, d))
  <2> DEFINE c == s.cand \ {d}
             t == [s EXCEPT !.pc = "lock", !.pick = NoDriver, !.cand = c]
  <2>1. NextCandidate(s, d) = IF s.cand = {d} THEN GiveUp(s) ELSE t
    BY DEF NextCandidate
  <2> HIDE DEF c
  <2>2. Kept(s, t) /\ t.pc = "lock"
    BY <1>1 DEF Kept, Session
  <2> HIDE DEF t
  <2>3. Course(t)
    BY <1>3, <2>2 DEF Searching
  <2>4. CASE s.cand = {d}
    BY <1>7, <2>1, <2>4
  <2>5. CASE s.cand # {d}
    BY <2>1, <2>3, <2>5
  <2> QED BY <2>4, <2>5
<1> QED BY <1>3, <1>6, <1>7, <1>8

LEMMA SearchCourse ==
  ASSUME CoverInv, TrailInv', NEW p \in Procs,
         \/ Retrigger(p) \/ FetchExcluded(p) \/ Discover(p) \/ Score(p) \/ CheckAndUnlock(p)
         \/ \E d \in Drivers : AcquireLock(p, d) \/ LockFailed(p, d)
  PROVE  CoverInv'
<1> DEFINE s == sess[p]
<1> USE DEF Continue, tables
<1>0. s \in Session /\ Course(s)
  BY CoverFacts
<1>1. UNCHANGED <<attempts, audit>>
  BY DEF Retrigger, FetchExcluded, Discover, Score, CheckAndUnlock, AcquireLock, LockFailed
<1>2. ASSUME NEW t, sess' = [sess EXCEPT ![p] = t], Course(t) PROVE CoverInv'
  BY <1>1, <1>2, CoverStep
<1>3. CASE Retrigger(p)
  <2> DEFINE t == [s EXCEPT !.pc = "excluded", !.op = "Trigger"]
  <2>1. s.pc = "order" /\ sess' = [sess EXCEPT ![p] = t]
    BY <1>3 DEF Retrigger
  <2>2. t.pc = "excluded" /\ t.op = "Trigger" /\ t.mark = s.mark
    BY <1>0 DEF Session
  <2>3. s.mark # "ACCEPTED"
    BY <1>0, <2>1 DEF Course
  <2> HIDE DEF t, s
  <2>4. Course(t)
    BY <2>2, <2>3 DEF Course, Searching
  <2> QED BY <1>2, <2>1, <2>4
<1>4. CASE FetchExcluded(p)
  <2>1. PICK e : sess' = [sess EXCEPT ![p] = [s EXCEPT !.pc = "search", !.excl = e]]
    BY <1>4 DEF FetchExcluded
  <2> DEFINE t == [s EXCEPT !.pc = "search", !.excl = e]
  <2>2. Kept(s, t) /\ t.pc = "search" /\ s.pc = "excluded" /\ sess' = [sess EXCEPT ![p] = t]
    BY <1>0, <1>4, <2>1 DEF Kept, Session, FetchExcluded
  <2> HIDE DEF t
  <2>3. Course(t)
    BY <2>2, FoundCourse DEF Searching
  <2> QED BY <1>2, <2>2, <2>3
<1>5. CASE Discover(p)
  <2> DEFINE found == (geo \cap InRange[s.o]) \ s.excl
             t == [s EXCEPT !.pc = "score", !.cand = found, !.excl = {}]
  <2>1. /\ s.pc = "search"
        /\ sess' = [sess EXCEPT ![p] = IF found = {} THEN GiveUp(s) ELSE t]
    BY <1>5 DEF Discover
  <2> HIDE DEF found
  <2>2. Kept(s, t) /\ t.pc = "score"
    BY <1>0 DEF Kept, Session
  <2> HIDE DEF t
  <2>3. Course(t) /\ Course(GiveUp(s))
    BY <2>1, <2>2, FoundCourse DEF Searching
  <2>4. CASE found = {}
    BY <1>2, <2>1, <2>3, <2>4
  <2>5. CASE found # {}
    BY <1>2, <2>1, <2>3, <2>5
  <2> QED BY <2>4, <2>5
<1>6. CASE Score(p)
  <2> DEFINE f == [d \in Drivers |-> IF d \in s.cand THEN drivers[d] ELSE NewDriver]
             t == [s EXCEPT !.pc = "lock", !.drv = f, !.dnow = f]
  <2>1. s.pc = "score" /\ sess' = [sess EXCEPT ![p] = t]
    BY <1>6 DEF Score
  <2> HIDE DEF f
  <2>2. Kept(s, t) /\ t.pc = "lock"
    BY <1>0 DEF Kept, Session
  <2> HIDE DEF t
  <2>3. Course(t)
    BY <2>1, <2>2, FoundCourse DEF Searching
  <2> QED BY <1>2, <2>1, <2>3
<1>7. CASE CheckAndUnlock(p)
  <2> DEFINE d == s.pick
             ok == s.drv[d].status = "ONLINE" /\ s.drv[d].available
  <2>1. /\ s.pc = "unlock"
        /\ sess' = [sess EXCEPT ![p] = IF ok THEN OfferTo(s, d) ELSE NextCandidate(s, d)]
    BY <1>7 DEF CheckAndUnlock
  <2>2. Course(OfferTo(s, d)) /\ Course(NextCandidate(s, d))
    BY <2>1, FoundCourse DEF Searching
  <2> HIDE DEF ok
  <2>3. CASE ok
    BY <1>2, <2>1, <2>2, <2>3
  <2>4. CASE ~ ok
    BY <1>2, <2>1, <2>2, <2>4
  <2> QED BY <2>3, <2>4
<1>8. ASSUME NEW d \in Drivers, AcquireLock(p, d) PROVE CoverInv'
  <2> DEFINE t == [s EXCEPT !.pc = "unlock", !.pick = d]
  <2>1. s.pc = "lock" /\ sess' = [sess EXCEPT ![p] = t]
    BY <1>8 DEF AcquireLock
  <2>2. Kept(s, t) /\ t.pc = "unlock"
    BY <1>0 DEF Kept, Session
  <2> HIDE DEF t
  <2>3. Course(t)
    BY <2>1, <2>2, FoundCourse DEF Searching
  <2> QED BY <1>2, <2>1, <2>3
<1>9. ASSUME NEW d \in Drivers, LockFailed(p, d) PROVE CoverInv'
  <2>1. s.pc = "lock" /\ sess' = [sess EXCEPT ![p] = NextCandidate(s, d)]
    BY <1>9 DEF LockFailed
  <2>2. Course(NextCandidate(s, d))
    BY <2>1, FoundCourse DEF Searching
  <2> QED BY <1>2, <2>1, <2>2
<1> QED BY <1>3, <1>4, <1>5, <1>6, <1>7, <1>8, <1>9

\* The attempt that an answer loads belongs to the order.
LEMMA AttemptCourse ==
  ASSUME CoverInv, TrailInv', NEW p \in Procs, FetchAttempt(p) \/ NoAttempt(p) PROVE CoverInv'
<1> DEFINE s == sess[p]
<1>0. s \in Session /\ Course(s) /\ SessionOK(s)
  BY CoverFacts
<1>1. /\ s.pc = "attempt" /\ UNCHANGED <<attempts, audit>>
      /\ s.op \in {"Accept", "Reject", "Timeout"}
  BY <1>0 DEF FetchAttempt, NoAttempt, tables, SessionOK, HasDriver
<1>2. PICK i : Continue(p, WithAttempt(s, i)) /\ (i # 0 => attempts[i].order = s.o)
  BY DEF FetchAttempt, NoAttempt, Offered
<1> DEFINE pc == IF s.op = "Accept" THEN "driver" ELSE "commit"
           mark == AnswerOf(s.op)
           t == [s EXCEPT !.att = i, !.mark = mark, !.pc = pc]
<1>3. t = WithAttempt(s, i)
  BY DEF WithAttempt
<1>4. /\ s.op = "Accept" => pc = "driver"
      /\ s.op # "Accept" => pc = "commit" /\ mark # "ACCEPTED"
  BY <1>1 DEF AnswerOf
<1> HIDE DEF pc, mark
<1>5. t.o = s.o /\ t.op = s.op /\ t.pc = pc /\ t.att = i /\ t.mark = mark
  BY <1>0 DEF Session
<1>6. Continue(p, t)
  BY <1>2, <1>3
<1> HIDE DEF t
<1>7. Course(t)
  BY <1>1, <1>2, <1>4, <1>5 DEF Course, Searching
<1> QED BY <1>1, <1>6, <1>7, CoverStep DEF Continue

LEMMA OtherCourse ==
  ASSUME CoverInv, TrailInv', NEW p \in Procs,
         \/ ReloadDriver(p) \/ Reindex(p) \/ Refresh(p) \/ \E d \in Drivers : PurgeGhost(p, d)
  PROVE  CoverInv'
<1> DEFINE s == sess[p]
<1> USE DEF Continue, tables
<1>0. s \in Session /\ Course(s)
  BY CoverFacts
<1>1. ASSUME NEW t, sess' = [sess EXCEPT ![p] = t], UNCHANGED <<attempts, audit>>, Kept(s, t),
             s.pc \in {"reload", "reindex", "refresh", "purge"},
             t.pc \in {"reindex", "store", "announce", "purge"}
      PROVE  CoverInv'
  <2>1. Course(t)
    BY <1>0, <1>1 DEF Course, Kept, Searching
  <2> QED BY <1>1, <2>1, CoverStep
<1>2. CASE ReloadDriver(p)
  <2>1. PICK f, g : sess' = [sess EXCEPT ![p] = [s EXCEPT !.pc = "reindex", !.drv = f, !.dnow = g]]
    BY <1>2 DEF ReloadDriver
  <2> DEFINE t == [s EXCEPT !.pc = "reindex", !.drv = f, !.dnow = g]
  <2>2. /\ Kept(s, t) /\ t.pc = "reindex" /\ s.pc = "reload" /\ sess' = [sess EXCEPT ![p] = t]
        /\ UNCHANGED <<attempts, audit>>
    BY <1>0, <1>2, <2>1 DEF Kept, Session, ReloadDriver
  <2> HIDE DEF t, s
  <2> QED BY <1>1, <2>2
<1>3. CASE Reindex(p)
  <2> DEFINE t == [s EXCEPT !.pc = "store"]
  <2>1. /\ Kept(s, t) /\ t.pc = "store" /\ s.pc = "reindex" /\ sess' = [sess EXCEPT ![p] = t]
        /\ UNCHANGED <<attempts, audit>>
    BY <1>0, <1>3 DEF Kept, Session, Reindex
  <2> HIDE DEF t, s
  <2> QED BY <1>1, <2>1
<1>4. CASE Refresh(p)
  <2> DEFINE row == orders[s.o]
             t == [s EXCEPT !.pc = "announce", !.now = row]
  <2>1. /\ s.pc = "refresh" /\ sess' = [sess EXCEPT ![p] = t] /\ UNCHANGED <<attempts, audit>>
    BY <1>4 DEF Refresh
  <2> HIDE DEF row
  <2>2. Kept(s, t) /\ t.pc = "announce"
    BY <1>0 DEF Kept, Session
  <2> HIDE DEF t, s
  <2> QED BY <1>1, <2>1, <2>2
<1>5. ASSUME NEW d \in Drivers, PurgeGhost(p, d) PROVE CoverInv'
  <2> DEFINE pc == IF s.cand = {d} THEN "store" ELSE "purge"
             c == s.cand \ {d}
             t == [s EXCEPT !.cand = c, !.pc = pc]
  <2>1. s.pc = "purge" /\ sess' = [sess EXCEPT ![p] = t] /\ UNCHANGED <<attempts, audit>>
    BY <1>5 DEF PurgeGhost
  <2>2. pc \in {"store", "purge"}
    OBVIOUS
  <2> HIDE DEF pc, c
  <2>3. Kept(s, t) /\ t.pc = pc
    BY <1>0 DEF Kept, Session
  <2> HIDE DEF t, s
  <2> QED BY <1>1, <2>1, <2>2, <2>3
<1> QED BY <1>2, <1>3, <1>4, <1>5

-----------------------------------------------------------------------------
(* The commit, the creation of an order, and the theorem *)

\* An order whose attempts grow only with its trail stays covered.
LEMMA CoveredGrows ==
  ASSUME CoverInv, NEW o \in Orders, NEW rows \in Seq(Edge), NEW x, NEW y,
         audit'[o] = audit[o] \o rows,
         \/ Mine(o)' \subseteq Mine(o)
         \/ Mine(o)' \subseteq Mine(o) \cup {x} /\ Records(rows, "DRIVER_PENDING"),
         \/ Accepted(o)' \subseteq Accepted(o)
         \/ Accepted(o)' \subseteq Accepted(o) \cup {y} /\ Records(rows, "ASSIGNED")
  PROVE  Covered(o)'
<1> DEFINE trail == audit[o] \o rows
           m == Mine(o)'
           a == Accepted(o)'
<1>1. /\ IsFiniteSet(Mine(o)) /\ Cardinality(Mine(o)) \in Nat
      /\ IsFiniteSet(Accepted(o)) /\ Cardinality(Accepted(o)) \in Nat
  BY MineFinite DEF CoverInv, TrailInv
<1>2. audit[o] \in Seq(Edge) /\ trail \in Seq(Edge)
  BY DEF CoverInv, TrailInv, TypeInv, TypeOK
<1>3. \A st : /\ Cardinality(Moves(audit[o], st)) \in Nat /\ Cardinality(Moves(trail, st)) \in Nat
              /\ Cardinality(Moves(audit[o], st)) <= Cardinality(Moves(trail, st))
              /\ Records(rows, st) =>
                   Cardinality(Moves(audit[o], st)) + 1 <= Cardinality(Moves(trail, st))
  BY <1>2, MovesFinite, MovesAppended
<1>4. Covered(o)
  BY DEF CoverInv
<1> HIDE DEF trail
<1>5. Cardinality(m) <= Cardinality(Moves(trail, "DRIVER_PENDING"))
  <2> DEFINE n == Cardinality(Moves(audit[o], "DRIVER_PENDING"))
             k == Cardinality(Moves(trail, "DRIVER_PENDING"))
             c == Cardinality(Mine(o))
             e == Cardinality(m)
  <2>1. n \in Nat /\ k \in Nat /\ c \in Nat /\ n <= k /\ c <= n
    BY <1>1, <1>3, <1>4 DEF Covered
  <2>2. CASE m \subseteq Mine(o)
    <3>1. IsFiniteSet(m) /\ e <= c
      BY <1>1, <2>2, FS_Subset
    <3>2. e \in Nat
      BY <3>1, FS_CardinalityType
    <3> HIDE DEF n, k, c, e
    <3>3. e <= k
      BY <2>1, <3>1, <3>2
    <3> QED BY <3>3 DEF e, k
  <2>3. CASE m \subseteq Mine(o) \cup {x} /\ Records(rows, "DRIVER_PENDING")
    <3> HIDE DEF m
    <3>1. e \in Nat /\ e <= c + 1
      BY <1>1, <2>3, GainsOne
    <3>2. n + 1 <= k
      BY <1>3, <2>3
    <3> HIDE DEF n, k, c, e
    <3>3. e <= k
      BY <2>1, <3>1, <3>2
    <3> QED BY <3>3 DEF e, k
  <2> QED BY <2>2, <2>3
<1>6. Cardinality(a) <= Cardinality(Moves(trail, "ASSIGNED"))
  <2> DEFINE n == Cardinality(Moves(audit[o], "ASSIGNED"))
             k == Cardinality(Moves(trail, "ASSIGNED"))
             c == Cardinality(Accepted(o))
             e == Cardinality(a)
  <2>1. n \in Nat /\ k \in Nat /\ c \in Nat /\ n <= k /\ c <= n
    BY <1>1, <1>3, <1>4 DEF Covered
  <2>2. CASE a \subseteq Accepted(o)
    <3>1. IsFiniteSet(a) /\ e <= c
      BY <1>1, <2>2, FS_Subset
    <3>2. e \in Nat
      BY <3>1, FS_CardinalityType
    <3> HIDE DEF n, k, c, e
    <3>3. e <= k
      BY <2>1, <3>1, <3>2
    <3> QED BY <3>3 DEF e, k
  <2>3. CASE a \subseteq Accepted(o) \cup {y} /\ Records(rows, "ASSIGNED")
    <3> HIDE DEF a
    <3>1. e \in Nat /\ e <= c + 1
      BY <1>1, <2>3, GainsOne
    <3>2. n + 1 <= k
      BY <1>3, <2>3
    <3> HIDE DEF n, k, c, e
    <3>3. e <= k
      BY <2>1, <3>1, <3>2
    <3> QED BY <3>3 DEF e, k
  <2> QED BY <2>2, <2>3
<1>7. audit'[o] = trail
  BY DEF trail
<1> HIDE DEF m, a, trail
<1>8. Cardinality(m) <= Cardinality(Moves(audit'[o], "DRIVER_PENDING"))
      /\ Cardinality(a) <= Cardinality(Moves(audit'[o], "ASSIGNED"))
  BY <1>5, <1>6, <1>7
<1> QED BY <1>8 DEF Covered, Moves, m, a

\* The attempts after a commit: one more that is offered, or one more answer.
LEMMA CommitMine ==
  ASSUME CoverInv, NEW p \in Procs, Commit(p), NEW o \in Orders
  PROVE  LET s == sess[p] IN
         /\ \/ Mine(o)' \subseteq Mine(o)
            \/ /\ Mine(o)' \subseteq Mine(o) \cup {Len(attempts) + 1}
               /\ o = s.o /\ s.op = "Trigger" /\ s.pick # NoDriver
         /\ \/ Accepted(o)' \subseteq Accepted(o)
            \/ /\ Accepted(o)' \subseteq Accepted(o) \cup {s.att}
               /\ o = s.o /\ s.mark = "ACCEPTED"
<1> DEFINE s == sess[p]
           n == Len(attempts)
           offers == s.op = "Trigger" /\ s.pick # NoDriver
           new == [order |-> s.o, driver |-> s.pick, status |-> "OFFERED"]
<1>1. s \in Session /\ Course(s) /\ attempts' = WriteAttempts(s)
  BY CoverFacts DEF Commit
<1>2. attempts \in Seq(AttemptRow) /\ n \in Nat /\ DOMAIN attempts = 1 .. n
      /\ \A i \in DOMAIN attempts : attempts[i] \in AttemptRow
  BY DEF CoverInv, TrailInv, TypeInv, TypeOK
<1>3. CASE offers
  <2>1. attempts' = Append(attempts, new)
    BY <1>1, <1>3 DEF WriteAttempts
  <2>2. /\ DOMAIN attempts' = 1 .. n + 1 /\ attempts'[n + 1] = new
        /\ \A i \in 1 .. n : attempts'[i] = attempts[i]
    BY <1>2, <2>1
  <2>3. new.order = s.o /\ new.status = "OFFERED"
    OBVIOUS
  <2> HIDE DEF new, s, n
  <2>4. ASSUME NEW i \in Mine(o)' PROVE i \in Mine(o) \/ (i = n + 1 /\ o = s.o)
    <3>1. i \in 1 .. n + 1 /\ attempts'[i].order = o
      BY <2>2 DEF Mine
    <3>2. CASE i = n + 1
      BY <2>2, <2>3, <3>1, <3>2
    <3>3. CASE i # n + 1
      BY <1>2, <2>2, <3>1, <3>3 DEF Mine
    <3> QED BY <3>2, <3>3
  <2>5. ASSUME NEW i \in Accepted(o)' PROVE i \in Accepted(o)
    <3>1. i \in Mine(o)' /\ attempts'[i].status = "ACCEPTED"
      BY DEF Accepted
    <3>2. i # n + 1
      BY <2>2, <2>3, <3>1
    <3>3. i \in Mine(o)
      BY <2>4, <3>1, <3>2
    <3>4. i \in 1 .. n
      BY <1>2, <3>3 DEF Mine
    <3> QED BY <2>2, <3>1, <3>3, <3>4 DEF Accepted
  <2>6. Mine(o)' \subseteq Mine(o)
        \/ (Mine(o)' \subseteq Mine(o) \cup {n + 1} /\ o = s.o /\ s.op = "Trigger" /\ s.pick # NoDriver)
    BY <1>3, <2>4
  <2> QED BY <2>5, <2>6 DEF s, n
<1>4. CASE ~ offers /\ s.att \in DOMAIN attempts /\ s.mark # "OFFERED"
  <2>1. attempts' = [attempts EXCEPT ![s.att].status = s.mark]
    BY <1>1, <1>4 DEF WriteAttempts, Answered
  <2> HIDE DEF s
  <2>2. /\ DOMAIN attempts' = DOMAIN attempts
        /\ \A i \in DOMAIN attempts : /\ i # s.att => attempts'[i] = attempts[i]
                                      /\ attempts'[i].order = attempts[i].order
        /\ attempts'[s.att].status = s.mark
    BY <1>2, <1>4, <2>1 DEF AttemptRow
  <2>3. Mine(o)' \subseteq Mine(o)
    BY <2>2 DEF Mine
  <2>4. ASSUME NEW i \in Accepted(o)', i \notin Accepted(o)
        PROVE  i = s.att /\ s.mark = "ACCEPTED" /\ attempts[s.att].order = o
    <3>1. i \in Mine(o)' /\ attempts'[i].status = "ACCEPTED"
      BY DEF Accepted
    <3>2. i \in Mine(o)
      BY <2>3, <3>1
    <3>3. i \in DOMAIN attempts /\ attempts[i].order = o
      BY <3>2 DEF Mine
    <3>4. i = s.att
      BY <2>2, <2>4, <3>1, <3>2, <3>3 DEF Accepted
    <3> QED BY <2>2, <3>1, <3>3, <3>4
  <2>5. s.mark = "ACCEPTED" => attempts[s.att].order = s.o
    BY <1>1, <1>2, <1>4 DEF Course
  <2>6. \/ Accepted(o)' \subseteq Accepted(o)
        \/ Accepted(o)' \subseteq Accepted(o) \cup {s.att} /\ o = s.o /\ s.mark = "ACCEPTED"
    BY <2>4, <2>5
  <2> QED BY <2>3, <2>6 DEF s
<1>5. CASE ~ offers /\ ~ (s.att \in DOMAIN attempts /\ s.mark # "OFFERED")
  <2>1. attempts' = attempts
    BY <1>1, <1>5 DEF WriteAttempts, Answered
  <2> QED BY <2>1 DEF Mine, Accepted
<1> QED BY <1>3, <1>4, <1>5

LEMMA CommitCover ==
  ASSUME CoverInv, TrailInv', NEW p \in Procs, Commit(p) PROVE CoverInv'
<1> DEFINE s == sess[p]
           pc == IF s.op \in {"Reject", "Timeout"} THEN "order" ELSE "refresh"
           att == IF s.op = "Trigger" /\ s.pick # NoDriver THEN Len(attempts) + 1 ELSE 0
           t == [s EXCEPT !.pc = pc, !.att = att, !.mark = "OFFERED", !.rows = <<>>,
                          !.drv = NoDrivers, !.dnow = NoDrivers]
<1>1. /\ s.pc = "commit" /\ s \in Session /\ SessionOK(s) /\ TrailOK(s) /\ Course(s)
      /\ sess' = [sess EXCEPT ![p] = t]
      /\ audit' = [audit EXCEPT ![s.o] = @ \o s.rows]
      /\ attempts' = WriteAttempts(s)
  BY CoverFacts DEF Commit, Continue
<1>2. pc \in {"order", "refresh"}
  OBVIOUS
<1> HIDE DEF pc, att
<1>3. t.pc = pc /\ t.mark = "OFFERED"
  BY <1>1 DEF Session
<1>4. sess'[p] = t /\ \A q \in Procs \ {p} : sess'[q] = sess[q]
  BY <1>1 DEF CoverInv, TrailInv, TypeInv, TypeOK
<1>5. Course(sess[p])'
  <2> HIDE DEF t
  <2> QED BY <1>2, <1>3, <1>4 DEF Course, Searching
<1>6. \A i \in DOMAIN attempts : i \in DOMAIN attempts' /\ attempts'[i].order = attempts[i].order
  <2>1. attempts \in Seq(AttemptRow)
    BY DEF CoverInv, TrailInv, TypeInv, TypeOK
  <2>2. CASE s.op = "Trigger" /\ s.pick # NoDriver
    BY <1>1, <2>1, <2>2 DEF WriteAttempts
  <2>3. CASE ~ (s.op = "Trigger" /\ s.pick # NoDriver)
    BY <1>1, <2>1, <2>3 DEF WriteAttempts, Answered, AttemptRow
  <2> QED BY <2>2, <2>3
<1>7. ASSUME NEW q \in Procs \ {p} PROVE Course(sess[q])'
  <2>1. Course(sess[q]) /\ SessionOK(sess[q]) /\ sess'[q] = sess[q]
    BY <1>4, CoverFacts
  <2>2. sess[q].att # 0 => sess[q].att \in DOMAIN attempts
    BY <2>1 DEF SessionOK, CoverInv, TrailInv, TypeInv, TypeOK
  <2> QED BY <1>6, <2>1, <2>2 DEF Course
<1>8. s.o \in Orders /\ s.rows \in Seq(Edge)
  BY <1>1 DEF SessionOK, HasOrder, OrderPc, Session
<1>9. ASSUME NEW o \in Orders PROVE Covered(o)'
  <2>1. audit \in [Orders -> Seq(Edge)]
    BY DEF CoverInv, TrailInv, TypeInv, TypeOK
  <2>2. CASE o = s.o
    <3>1. audit'[o] = audit[o] \o s.rows
      BY <1>1, <1>8, <2>1, <2>2
    <3>2. s.op = "Trigger" /\ s.pick # NoDriver => Records(s.rows, "DRIVER_PENDING")
      BY <1>1 DEF Course, TrailOK, AnnouncesRecorded
    <3>3. s.mark = "ACCEPTED" => Records(s.rows, "ASSIGNED")
      BY <1>1 DEF Course, TrailOK, AnnouncesRecorded
    <3>4. /\ \/ Mine(o)' \subseteq Mine(o)
             \/ /\ Mine(o)' \subseteq Mine(o) \cup {Len(attempts) + 1}
                /\ Records(s.rows, "DRIVER_PENDING")
          /\ \/ Accepted(o)' \subseteq Accepted(o)
             \/ /\ Accepted(o)' \subseteq Accepted(o) \cup {s.att}
                /\ Records(s.rows, "ASSIGNED")
      BY <3>2, <3>3, CommitMine
    <3> QED BY <1>8, <3>1, <3>4, CoveredGrows
  <2>3. CASE o # s.o
    <3>1. audit'[o] = audit[o] \o <<>> /\ <<>> \in Seq(Edge)
      BY <1>1, <2>1, <2>3
    <3>2. Mine(o)' \subseteq Mine(o) /\ Accepted(o)' \subseteq Accepted(o)
      BY <2>3, CommitMine
    <3> QED BY <3>1, <3>2, CoveredGrows
  <2> QED BY <2>2, <2>3
<1> QED BY <1>5, <1>7, <1>9 DEF CoverInv

LEMMA CreateCover ==
  ASSUME CoverInv, TrailInv', NEW o \in Orders, CreateDelivery(o) PROVE CoverInv'
<1> DEFINE rows == << <<"CREATED", "CREATED">> >>
<1>1. /\ audit' = [audit EXCEPT ![o] = rows] /\ orders[o].status = "ABSENT"
      /\ UNCHANGED <<attempts, sess>> /\ audit \in [Orders -> Seq(Edge)]
  BY DEF CreateDelivery, CoverInv, TrailInv, TypeInv, TypeOK, Absent
<1>2. audit[o] = <<>>
  BY <1>1 DEF CoverInv, TrailInv, OrderTrail
<1>3. rows \in Seq(Edge)
  BY DEF Edge, OrderStatus
<1>4. \A x : Mine(x)' = Mine(x) /\ Accepted(x)' = Accepted(x)
  BY <1>1 DEF Mine, Accepted
<1>5. ASSUME NEW x \in Orders PROVE Covered(x)'
  <2>1. \E r \in Seq(Edge) : audit'[x] = audit[x] \o r
    <3>1. CASE x = o
      <4>1. audit'[x] = audit[x] \o rows
        BY <1>1, <1>2, <1>3, <3>1
      <4> QED BY <1>3, <4>1
    <3>2. CASE x # o
      <4>1. audit'[x] = audit[x] \o <<>> /\ <<>> \in Seq(Edge)
        BY <1>1, <3>2
      <4> QED BY <4>1
    <3> QED BY <3>1, <3>2
  <2> QED BY <1>4, <2>1, CoveredGrows
<1>6. \A p \in Procs : Course(sess[p])'
  BY <1>1 DEF CoverInv, Course
<1> QED BY <1>5, <1>6 DEF CoverInv

LEMMA CoverInit == Init => CoverInv
<1> SUFFICES ASSUME Init PROVE CoverInv
  OBVIOUS
<1>1. \A p \in Procs : Course(sess[p])
  BY DEF Init, StoreInit, Idle, Course, Searching
<1>2. ASSUME NEW o \in Orders PROVE Covered(o)
  <2>1. Mine(o) = {} /\ Accepted(o) = {} /\ \A st : Moves(audit[o], st) = {}
    BY DEF Init, StoreInit, Mine, Accepted, Moves
  <2> QED BY <2>1, FS_EmptySet DEF Covered
<1> QED BY <1>1, <1>2, TrailInvInit DEF CoverInv

LEMMA CoverInvStep == CoverInv /\ [Next]_vars => CoverInv'
<1> SUFFICES ASSUME CoverInv, [Next]_vars PROVE CoverInv'
  OBVIOUS
<1> TrailInv'
  BY TrailInvStep DEF CoverInv
<1>1. ASSUME NEW o \in Orders, CreateDelivery(o) PROVE CoverInv'
  BY <1>1, CreateCover
<1>2. ASSUME NEW p \in Procs, Request(p) PROVE CoverInv'
  BY <1>2, RequestCourse
<1>3. ASSUME NEW p \in Procs, Step(p) PROVE CoverInv'
  BY <1>3, ChangeCourse, TaskCourse, SearchCourse, AttemptCourse, OtherCourse, CommitCover
     DEF Step
<1>4. ASSUME NEW i \in timers, Timeout(i) PROVE CoverInv'
  <2>1. CASE TimeoutMoot(i)
    BY <2>1, CoverElsewhere DEF TimeoutMoot, tables
  <2> QED BY <1>4, <2>1, TaskCourse DEF Timeout
<1>5. CASE Sweep \/ Clock \/ Failure
  <2>1. CASE Sweep
    BY <2>1, TaskCourse DEF Sweep
  <2>2. CASE Clock
    BY <2>2, CoverElsewhere DEF Clock, GrowStale
  <2>3. CASE Failure
    <3>1. ASSUME NEW p \in Procs, Abort(p) PROVE CoverInv'
      BY <3>1, TaskCourse
    <3>2. ASSUME NEW i \in timers, LoseTimer(i) PROVE CoverInv'
      BY <3>2, CoverElsewhere DEF LoseTimer, tables
    <3>3. ASSUME NEW d \in Drivers, LockExpires(d) PROVE CoverInv'
      BY <3>3, CoverElsewhere DEF LockExpires, tables
    <3> QED BY <2>3, <3>1, <3>2, <3>3 DEF Failure
  <2> QED BY <1>5, <2>1, <2>2, <2>3
<1>6. CASE UNCHANGED vars
  BY <1>6, CoverElsewhere DEF vars, tables
<1> QED BY <1>1, <1>2, <1>3, <1>4, <1>5, <1>6 DEF Next

\* Whatever handlers overlap, abort or lose their timers, an order has no more
\* attempts than its trail has moves to DRIVER_PENDING, and no more accepted ones
\* than it has moves to ASSIGNED: the commit that writes the one writes the other.
THEOREM TrailCoversAttemptsHolds == Spec => []TrailCoversAttempts
<1>1. CoverInv => TrailCoversAttempts
  BY DEF CoverInv, Covered, Mine, Accepted, Moves, TrailCoversAttempts
<1> QED BY <1>1, CoverInit, CoverInvStep, PTL DEF Spec
=============================================================================
