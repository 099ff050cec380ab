-------------------------- MODULE DeliveryService --------------------------
(***************************************************************************)
(* services/delivery_service.py: creation of an order and PATCH            *)
(* /deliveries/{id}/status.                                                *)
(***************************************************************************)
EXTENDS Store

\* create_delivery: the order and its first audit row in one commit.  Nothing
\* is published and no event is dispatched.
CreateDelivery(o) ==
  /\ orders[o] = Absent
  /\ orders' = [orders EXCEPT ![o] = [status |-> "CREATED", driver |-> NoDriver]]
  /\ audit' = [audit EXCEPT ![o] = << <<"CREATED", "CREATED">> >>]
  /\ UNCHANGED <<drivers, attempts, redis, tasks, sess, issued>>

\* Mutant: the automatic advance is missing.
Patched_NoAdvance(row, new, d) ==
  [status |-> new, driver |-> IF d # NoDriver THEN d ELSE row.driver]

\* The order as update_status leaves it: PICKED_UP is advanced to IN_TRANSIT,
\* and a driver id in the request body replaces the order's.
Patched(row, new, d) ==
  [ status |-> IF new = "PICKED_UP" THEN "IN_TRANSIT" ELSE new,
    driver |-> IF d # NoDriver THEN d ELSE row.driver ]

\* Mutant: the advance is not recorded.
PatchTrail_NoTransit(old, new) == << <<old, new>> >>

\* The audit rows of the same call.
PatchTrail(old, new) ==
  IF new = "PICKED_UP" THEN << <<old, new>>, <<new, "IN_TRANSIT">> >>
                       ELSE << <<old, new>> >>

Releases(new, d) == new \in {"DELIVERED", "CANCELLED"} /\ d # NoDriver

\* update_status up to its next await: fetch, validate, change the object.  A
\* refused request raises before it has changed anything.
UpdateStatus(p, o, new, d) ==
  /\ orders[o].status # "ABSENT"
  /\ ValidTransition(orders[o].status, new)
  /\ LET row == orders[o]
         now == Patched(row, new, d)
     IN  Begin(p, [Idle EXCEPT
           !.pc = IF Releases(new, now.driver) THEN "driver" ELSE "commit",
           !.op = "Patch", !.o = o, !.st = new, !.was = row, !.now = now,
           !.rows = PatchTrail(row.status, new)])
  /\ UNCHANGED <<tables, redis, tasks>>

\* The driver of a delivered or cancelled order goes back ONLINE and available,
\* whatever its status was.
ReleaseDriver(p) ==
  LET s == sess[p]
      d == s.now.driver
      row == drivers[d]
  IN  /\ s.pc = "driver" /\ s.op = "Patch"
      /\ Continue(p, [s EXCEPT
           !.pc = IF row.located THEN "index" ELSE "commit",
           !.drv = [@ EXCEPT ![d] = row],
           !.dnow = [@ EXCEPT ![d] =
                       [row EXCEPT !.status = "ONLINE", !.available = TRUE]]])
      /\ UNCHANGED <<tables, redis, tasks>>

\* The GEOADD that follows, before the commit.
IndexDriver(p) ==
  LET s == sess[p]
  IN  /\ s.pc = "index"
      /\ geo' = geo \cup {s.now.driver}
      /\ Continue(p, [s EXCEPT !.pc = "commit"])
      /\ UNCHANGED <<tables, locks, channel, tasks>>
=============================================================================
