----------------------------- MODULE Analytics -----------------------------
(***************************************************************************)
(* process_delivery_analytics_task of tasks/analytics.py, for the orders   *)
(* of one tenant.                                                          *)
(*                                                                         *)
(* Several messages of one order are one event that was dispatched again.  *)
(* The tasks of a worker overlap, each in a session of its own (READ       *)
(* COMMITTED): what it has read is written at its commit, which the unique *)
(* columns of the three tables may refuse.  The figures of a trip and the  *)
(* rates of a driver are left out: no task reads them again.               *)
(***************************************************************************)
EXTENDS Naturals, FiniteSets

CONSTANTS
  Messages,      \* messages for process_delivery_analytics_task
  Orders, Drivers,
  OrderOf,       \* the order_id of a message
  DriverOf,      \* the driver_id of an order
  NoDriver,      \* NULL: a PATCH delivers an order that was never offered
  Workers,       \* worker_concurrency: tasks that run at a time
  DatabaseFails, \* may PostgreSQL raise, or a process of the pool be killed?
  MaxCrashes     \* bound on the number of workers that are lost

ASSUME AnalyticsAssumption ==
  /\ IsFiniteSet(Orders)
  /\ OrderOf \in [Messages -> Orders]
  /\ DriverOf \in [Orders -> Drivers \cup {NoDriver}] /\ NoDriver \notin Drivers
  /\ Workers \in Nat /\ MaxCrashes \in Nat
  /\ DatabaseFails \in BOOLEAN

VARIABLES
  task,       \* the execution of each message
  trips,      \* trip_analytics: orders with a row
  profiled,   \* driver_analytics: drivers with a row
  deliveries, \* tenant_analytics: total_deliveries, 0 while there is no row
  overlapped, \* history: messages that ran while another one did
  crashes

vars == <<task, trips, profiled, deliveries, overlapped, crashes>>
rows == <<trips, profiled, deliveries>>

\* The part of the task that an execution is at.
Running == {"trip", "driver", "tenant", "commit"}
\* Why an execution has ended: the trip was there already, another session has
\* inserted the same row of an aggregate, PostgreSQL raised.
Ended   == {"done", "repeated", "conflict", "failed"}

Order(m)  == OrderOf[m]
\* The drivers whose rates the order changes: its own, if it has one.
Profiled(m) == {DriverOf[OrderOf[m]]} \ {NoDriver}
Busy      == {m \in Messages : task[m].pc \in Running}

\* A message that no session is open for.
NoSession(pc) == [pc |-> pc, known |-> FALSE, total |-> 0]

Init ==
  /\ task = [m \in Messages |-> NoSession("queued")]
  /\ trips = {} /\ profiled = {} /\ deliveries = 0
  /\ overlapped = {}
  /\ crashes = 0

Goto(m, pc) == task' = [task EXCEPT ![m].pc = pc]
End(m, pc)  == task' = [task EXCEPT ![m] = NoSession(pc)]

-----------------------------------------------------------------------------
(* process_delivery_analytics_task *)

\* Mutant: every message is started at once.
Start_Unlimited(m) ==
  /\ task[m].pc = "queued"
  /\ Goto(m, "trip")
  /\ overlapped' = IF Busy = {} THEN overlapped ELSE overlapped \cup Busy \cup {m}
  /\ UNCHANGED <<rows, crashes>>

\* A process of the worker takes the message.
Start(m) ==
  /\ task[m].pc = "queued"
  /\ Cardinality(Busy) < Workers
  /\ Goto(m, "trip")
  /\ overlapped' = IF Busy = {} THEN overlapped ELSE overlapped \cup Busy \cup {m}
  /\ UNCHANGED <<rows, crashes>>

\* The order, its transitions and its positions are read (it is delivered: the
\* event is dispatched after that commit), and a trip is added to the session,
\* whoever has added one before.  Then the attempts of the driver are counted.
AddTrip(m) ==
  /\ task[m].pc = "trip"
  /\ Goto(m, "driver")
  /\ UNCHANGED <<rows, overlapped, crashes>>

\* Is there a row of the driver?  An order without one asks nothing.
ReadDriver(m) ==
  /\ task[m].pc = "driver"
  /\ task' = [task EXCEPT ![m].pc = "tenant", ![m].known = Profiled(m) \subseteq profiled]
  /\ UNCHANGED <<rows, overlapped, crashes>>

\* The row of the tenant, if there is one.
ReadTenant(m) ==
  /\ task[m].pc = "tenant"
  /\ task' = [task EXCEPT ![m].pc = "commit", ![m].total = deliveries]
  /\ UNCHANGED <<rows, overlapped, crashes>>

\* An INSERT of a row that another session has inserted since.
Conflicts(m) ==
  \/ ~task[m].known /\ Profiled(m) \subseteq profiled
  \/ task[m].total = 0 /\ deliveries > 0

\* The trip and the driver's rates are written, and the total that was read,
\* or 0 for a new row, + 1.
Write(m) ==
  /\ trips' = trips \cup {Order(m)}
  /\ profiled' = profiled \cup Profiled(m)
  /\ deliveries' = task[m].total + 1
  /\ End(m, "done")

\* Mutant: ON CONFLICT DO NOTHING for the trip, for a message that comes again.
Commit_Again(m) ==
  /\ task[m].pc = "commit"
  /\ \/ Conflicts(m) /\ End(m, "conflict") /\ UNCHANGED rows
     \/ ~Conflicts(m) /\ Write(m)
  /\ UNCHANGED <<overlapped, crashes>>

\* One commit for the three rows: an IntegrityError takes all of them back.
Commit(m) ==
  /\ task[m].pc = "commit"
  /\ IF Order(m) \in trips THEN End(m, "repeated") /\ UNCHANGED rows
     ELSE IF Conflicts(m) THEN End(m, "conflict") /\ UNCHANGED rows
     ELSE Write(m)
  /\ UNCHANGED <<overlapped, crashes>>

\* PostgreSQL raises, or the process of the pool is killed; the task has no
\* retries, the message is acknowledged.
Fail(m) ==
  /\ DatabaseFails
  /\ task[m].pc \in Running
  /\ End(m, "failed")
  /\ UNCHANGED <<rows, overlapped, crashes>>

\* Mutant: the message was acknowledged before it was executed.
WorkerLost_AckedEarly(m) ==
  /\ crashes < MaxCrashes
  /\ task[m].pc \in Running
  /\ crashes' = crashes + 1
  /\ End(m, "done")
  /\ UNCHANGED <<rows, overlapped>>

\* acks_late: the message of a worker that is lost as a whole, up to the
\* acknowledgement, comes again, even if the commit was made.
WorkerLost(m) ==
  /\ crashes < MaxCrashes
  /\ task[m].pc \in Running \cup Ended
  /\ crashes' = crashes + 1
  /\ End(m, "queued")
  /\ UNCHANGED <<rows, overlapped>>

-----------------------------------------------------------------------------
(* Specification *)

Step(m) ==
  Start(m) \/ AddTrip(m) \/ ReadDriver(m) \/ ReadTenant(m) \/ Commit(m)

Next == \E m \in Messages : Step(m) \/ Fail(m) \/ WorkerLost(m)

Spec == Init /\ [][Next]_vars

-----------------------------------------------------------------------------
(* Properties *)

TypeOK ==
  /\ task \in [Messages -> [pc : Running \cup Ended \cup {"queued"},
                            known : BOOLEAN, total : Nat]]
  /\ trips \subseteq Orders /\ profiled \subseteq Drivers
  /\ deliveries \in Nat
  /\ overlapped \subseteq Messages
  /\ crashes \in 0..MaxCrashes
  /\ Cardinality(Busy) <= Workers

\* Trips of which no execution overlapped with another.
Alone == {o \in trips : \A m \in overlapped : Order(m) # o}

\* Nothing is counted twice: an order that is dispatched again, delivered again
\* by the broker, or executed again after its worker was lost, even after the
\* commit, adds nothing to the tenant's total.  And it falls behind by
\* overlapping executions only: the trips of which none overlapped are in it.
TotalBounded ==
  Cardinality(Alone) <= deliveries /\ deliveries <= Cardinality(trips)

\* An order of which all messages are over has its trip, unless an execution met
\* a failure, or lost the race for the first row of its driver or tenant to
\* another one that ran at the same time: then the trip is lost with it.
TripRecorded ==
  \A m \in Messages :
    (\A n \in Messages : Order(n) = Order(m) => task[n].pc \in Ended) =>
      \/ Order(m) \in trips
      \/ \E n \in overlapped : Order(n) = Order(m) /\ task[n].pc = "conflict"
      \/ \E n \in Messages : Order(n) = Order(m) /\ task[n].pc = "failed"
=============================================================================
