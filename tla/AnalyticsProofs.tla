-------------------------- MODULE AnalyticsProofs --------------------------
(***************************************************************************)
(* Theorems about Analytics, for any number of messages, orders, drivers,  *)
(* tasks that run at a time and workers that are lost.                     *)
(***************************************************************************)
EXTENDS Analytics, FiniteSetTheorems, TLAPS

Executions == [pc : Running \cup Ended \cup {"queued"}, known : BOOLEAN, total : Nat]

\* An execution that has not overlapped runs alone.
Solo == \A m \in Busy \ overlapped : Busy = {m}

\* It is alone with the rows: what it has read of them is still true.
UpToDate ==
  \A m \in Messages \ overlapped :
    /\ task[m].pc \in {"tenant", "commit"} => (task[m].known <=> Profiled(m) \subseteq profiled)
    /\ task[m].pc = "commit" => task[m].total = deliveries

\* Any other one may have read a total that is out of date, but no trip that
\* was alone has been added since, and none was taken away.
Within ==
  \A m \in Messages :
    task[m].pc = "commit" =>
      Cardinality(Alone) <= task[m].total /\ task[m].total <= Cardinality(trips)

\* What the end of an execution says.
Verdicts ==
  \A m \in Messages :
    /\ task[m].pc \in {"done", "repeated"} => Order(m) \in trips
    /\ task[m].pc = "conflict" => m \in overlapped

AnalyticsInv ==
  /\ TypeOK /\ IsFiniteSet(Busy)
  /\ Solo /\ UpToDate /\ Within /\ Verdicts /\ TotalBounded

-----------------------------------------------------------------------------
(* Sets *)

LEMMA TripsFinite ==
  ASSUME trips \subseteq Orders
  PROVE  /\ IsFiniteSet(trips) /\ Cardinality(trips) \in Nat
         /\ IsFiniteSet(Alone) /\ Cardinality(Alone) \in Nat
<1>1. IsFiniteSet(trips)
  BY AnalyticsAssumption, FS_Subset
<1>2. IsFiniteSet(Alone)
  BY <1>1, FS_Subset DEF Alone
<1> QED BY <1>1, <1>2, FS_CardinalityType

\* A step that ends an execution, or goes on with it, makes nobody busy.
LEMMA BusyShrinks ==
  ASSUME AnalyticsInv, NEW m \in Messages,
         \A n \in Messages \ {m} : task'[n] = task[n],
         task'[m].pc \in Running => task[m].pc \in Running
  PROVE  /\ IsFiniteSet(Busy)' /\ (Cardinality(Busy) <= Workers)'
         /\ Busy' \subseteq Busy
         /\ \A n \in Busy' : Busy = {n} => Busy' = {n}
<1>1. Busy' \subseteq Busy
  BY DEF Busy
<1>2. IsFiniteSet(Busy') /\ Cardinality(Busy') <= Cardinality(Busy)
  BY <1>1, FS_Subset DEF AnalyticsInv
<1>3. Cardinality(Busy) \in Nat /\ Cardinality(Busy') \in Nat
  BY <1>2, FS_CardinalityType DEF AnalyticsInv
<1>4. Cardinality(Busy') <= Workers
  BY <1>2, <1>3, AnalyticsAssumption DEF AnalyticsInv, TypeOK
<1> QED BY <1>1, <1>2, <1>4

\* A step of execution m that leaves the rows alone.
LEMMA QuietStep ==
  ASSUME AnalyticsInv, NEW m \in Messages,
         UNCHANGED <<rows, overlapped>>, crashes' \in 0..MaxCrashes,
         task' \in [Messages -> Executions],
         \A n \in Messages \ {m} : task'[n] = task[n],
         task'[m].pc \in Running => task[m].pc \in Running,
         m \notin overlapped =>
           /\ task'[m].pc \in {"tenant", "commit"} =>
                (task'[m].known <=> Profiled(m) \subseteq profiled)
           /\ task'[m].pc = "commit" => task'[m].total = deliveries
           /\ task'[m].pc # "conflict",
         task'[m].pc = "commit" =>
           Cardinality(Alone) <= task'[m].total /\ task'[m].total <= Cardinality(trips),
         task'[m].pc \in {"done", "repeated"} => Order(m) \in trips
  PROVE  AnalyticsInv'
<1>1. trips' = trips /\ profiled' = profiled /\ deliveries' = deliveries
      /\ overlapped' = overlapped /\ Alone' = Alone
  BY DEF rows, Alone
<1>2. TypeOK' /\ IsFiniteSet(Busy)'
  BY <1>1, BusyShrinks DEF AnalyticsInv, TypeOK, Executions
<1>3. Solo'
  BY <1>1, BusyShrinks DEF AnalyticsInv, Solo
<1>4. UpToDate'
  BY <1>1 DEF AnalyticsInv, UpToDate
<1>5. Within'
  BY <1>1 DEF AnalyticsInv, Within
<1>6. Verdicts'
  BY <1>1 DEF AnalyticsInv, Verdicts
<1>7. TotalBounded'
  BY <1>1 DEF AnalyticsInv, TotalBounded
<1> QED BY <1>2, <1>3, <1>4, <1>5, <1>6, <1>7 DEF AnalyticsInv

\* The record that End leaves.
LEMMA EndEffect ==
  ASSUME TypeOK, NEW m \in Messages, NEW pc \in Ended \cup {"queued"}, End(m, pc)
  PROVE  /\ task' \in [Messages -> Executions]
         /\ \A n \in Messages \ {m} : task'[n] = task[n]
         /\ task'[m].pc = pc /\ pc \notin Running
BY DEF TypeOK, End, NoSession, Executions, Running, Ended

-----------------------------------------------------------------------------
(* Steps *)

LEMMA StartPreserves ==
  ASSUME AnalyticsInv, NEW m \in Messages, Start(m) PROVE AnalyticsInv'
<1>1. /\ task[m].pc = "queued" /\ task' = [task EXCEPT ![m].pc = "trip"]
      /\ Cardinality(Busy) < Workers /\ m \notin Busy
      /\ UNCHANGED <<rows, crashes>>
  BY DEF Start, Goto, Busy, Running
<1>2. /\ task' \in [Messages -> Executions] /\ task'[m].pc = "trip"
      /\ \A n \in Messages \ {m} : task'[n] = task[n]
  BY <1>1 DEF AnalyticsInv, TypeOK, Executions, Running
<1>3. Busy' = Busy \cup {m}
  BY <1>2 DEF Busy, Running
<1>4. IsFiniteSet(Busy') /\ Cardinality(Busy') <= Workers
  <2>1. Cardinality(Busy) \in Nat
    BY FS_CardinalityType DEF AnalyticsInv
  <2>2. IsFiniteSet(Busy') /\ Cardinality(Busy') = Cardinality(Busy) + 1
    BY <1>1, <1>3, FS_AddElement DEF AnalyticsInv
  <2> QED BY <1>1, <2>1, <2>2, AnalyticsAssumption
<1>5. trips' = trips /\ profiled' = profiled /\ deliveries' = deliveries
      /\ crashes' = crashes
  BY <1>1 DEF rows
<1>6. overlapped \subseteq overlapped' /\ overlapped' \subseteq Messages
  BY DEF Start, AnalyticsInv, TypeOK, Busy
<1>7. TypeOK'
  BY <1>2, <1>4, <1>5, <1>6 DEF AnalyticsInv, TypeOK, Executions
<1>8. Solo'
  <2>1. CASE Busy = {}
    BY <2>1, <1>3 DEF Solo
  <2>2. CASE Busy # {}
    <3>1. Busy' \subseteq overlapped'
      BY <2>2, <1>3 DEF Start
    <3> QED BY <3>1 DEF Solo
  <2> QED BY <2>1, <2>2
<1>9. UpToDate' /\ Verdicts'
  BY <1>2, <1>5, <1>6 DEF AnalyticsInv, UpToDate, Verdicts
<1>10. Cardinality(Alone') \in Nat /\ Cardinality(Alone) \in Nat
       /\ Cardinality(Alone') <= Cardinality(Alone) /\ Cardinality(trips) \in Nat
  <2>1. Alone' \subseteq Alone
    BY <1>5, <1>6 DEF Alone
  <2>2. IsFiniteSet(Alone) /\ Cardinality(Alone) \in Nat /\ Cardinality(trips) \in Nat
    BY TripsFinite DEF AnalyticsInv, TypeOK
  <2> QED BY <2>1, <2>2, FS_Subset, FS_CardinalityType
<1>11. Within' /\ TotalBounded'
  BY <1>2, <1>5, <1>10 DEF AnalyticsInv, TypeOK, Executions, Within, TotalBounded
<1> QED BY <1>4, <1>7, <1>8, <1>9, <1>11 DEF AnalyticsInv

LEMMA ReadPreserves ==
  ASSUME AnalyticsInv, NEW m \in Messages,
         AddTrip(m) \/ ReadDriver(m) \/ ReadTenant(m)
  PROVE  AnalyticsInv'
<1>1. /\ task' \in [Messages -> Executions]
      /\ \A n \in Messages \ {m} : task'[n] = task[n]
      /\ task[m].pc \in Running
      /\ UNCHANGED <<rows, overlapped, crashes>>
  BY DEF AnalyticsInv, TypeOK, Executions, AddTrip, ReadDriver, ReadTenant, Goto, Running
<1>2. crashes' \in 0..MaxCrashes
  BY <1>1 DEF AnalyticsInv, TypeOK
<1>3. CASE AddTrip(m)
  <2>1. task'[m].pc = "driver"
    BY <1>3 DEF AnalyticsInv, TypeOK, AddTrip, Goto
  <2> QED BY <1>1, <1>2, <2>1, QuietStep
<1>4. CASE ReadDriver(m)
  <2>1. task'[m].pc = "tenant" /\ (task'[m].known <=> Profiled(m) \subseteq profiled)
    BY <1>4 DEF AnalyticsInv, TypeOK, ReadDriver
  <2> QED BY <1>1, <1>2, <2>1, QuietStep
<1>5. CASE ReadTenant(m)
  <2>1. /\ task[m].pc = "tenant" /\ task'[m].pc = "commit"
        /\ task'[m].known = task[m].known /\ task'[m].total = deliveries
    BY <1>5 DEF AnalyticsInv, TypeOK, ReadTenant
  <2>2. m \notin overlapped => (task'[m].known <=> Profiled(m) \subseteq profiled)
    BY <2>1 DEF AnalyticsInv, UpToDate
  <2>3. Cardinality(Alone) <= task'[m].total /\ task'[m].total <= Cardinality(trips)
    BY <2>1 DEF AnalyticsInv, TotalBounded
  <2> QED BY <1>1, <1>2, <2>1, <2>2, <2>3, QuietStep
<1> QED BY <1>3, <1>4, <1>5

LEMMA EndPreserves ==
  ASSUME AnalyticsInv, NEW m \in Messages, Fail(m) \/ WorkerLost(m) PROVE AnalyticsInv'
<1>1. UNCHANGED <<rows, overlapped>> /\ crashes' \in 0..MaxCrashes
  BY AnalyticsAssumption DEF AnalyticsInv, TypeOK, Fail, WorkerLost
<1>2. PICK pc \in {"failed", "queued"} : End(m, pc)
  BY DEF Fail, WorkerLost
<1>3. /\ task' \in [Messages -> Executions]
      /\ \A n \in Messages \ {m} : task'[n] = task[n]
      /\ task'[m].pc = pc /\ pc \notin Running
  BY <1>2, EndEffect DEF AnalyticsInv, Ended
<1> QED BY <1>1, <1>3, QuietStep

\* A commit that succeeds: if it was not alone, the trip is not counted among
\* those that were, and if it was, nobody else holds a total.
LEMMA WritePreserves ==
  ASSUME AnalyticsInv, NEW m \in Messages, task[m].pc = "commit",
         Order(m) \notin trips, Write(m), UNCHANGED <<overlapped, crashes>>
  PROVE  AnalyticsInv'
<1>0. Order(m) \in Orders /\ Profiled(m) \subseteq Drivers
  BY AnalyticsAssumption DEF Order, Profiled
<1>1. /\ trips' = trips \cup {Order(m)} /\ profiled' = profiled \cup Profiled(m)
      /\ deliveries' = task[m].total + 1 /\ overlapped' = overlapped
      /\ crashes' = crashes /\ End(m, "done")
  BY DEF Write
<1>2. /\ task' \in [Messages -> Executions]
      /\ \A n \in Messages \ {m} : task'[n] = task[n]
      /\ task'[m].pc = "done" /\ "done" \notin Running
  BY <1>1, EndEffect DEF AnalyticsInv, Ended
<1>3. m \in Busy /\ m \notin Busy' /\ task[m].total \in Nat
  BY <1>2 DEF Busy, Running, AnalyticsInv, TypeOK
<1>4. TypeOK' /\ IsFiniteSet(Busy)'
  <2>1. trips' \subseteq Orders /\ profiled' \subseteq Drivers /\ deliveries' \in Nat
    BY <1>0, <1>1, <1>3 DEF AnalyticsInv, TypeOK
  <2>2. IsFiniteSet(Busy)' /\ (Cardinality(Busy) <= Workers)'
    BY <1>2, BusyShrinks
  <2> QED BY <1>1, <1>2, <2>1, <2>2 DEF AnalyticsInv, TypeOK, Executions
<1>5. Solo' /\ \A n \in Messages \ overlapped : n # m => task[n].pc \notin Running
  <2>1. \A n \in Busy \ overlapped : n = m
    BY <1>3 DEF AnalyticsInv, Solo
  <2>2. Busy' \subseteq Busy
    BY <1>2, BusyShrinks
  <2> QED BY <1>1, <1>3, <2>1, <2>2 DEF Solo, Busy
<1>6. UpToDate'
  BY <1>1, <1>2, <1>5 DEF UpToDate, Running
<1>7. Verdicts'
  BY <1>1, <1>2 DEF AnalyticsInv, Verdicts
<1>8. /\ Cardinality(trips') = Cardinality(trips) + 1
      /\ Cardinality(trips) \in Nat /\ Cardinality(Alone) \in Nat
      /\ IsFiniteSet(Alone)
  BY <1>1, TripsFinite, FS_AddElement DEF AnalyticsInv, TypeOK
<1>9. Cardinality(Alone) <= task[m].total /\ task[m].total <= Cardinality(trips)
  BY DEF AnalyticsInv, Within
<1>10. CASE m \in overlapped
  <2>1. Alone' = Alone
    BY <1>1, <1>10 DEF Alone
  <2>2. TotalBounded'
    BY <1>1, <1>3, <1>8, <1>9, <2>1 DEF TotalBounded
  <2>3. Within'
    <3> SUFFICES ASSUME NEW n \in Messages, task'[n].pc = "commit"
                 PROVE  /\ Cardinality(Alone) <= task'[n].total
                        /\ task'[n].total <= Cardinality(trips')
      BY <2>1 DEF Within
    <3>1. n # m /\ task'[n] = task[n]
      BY <1>2
    <3>2. task[n].total \in Nat
      BY DEF AnalyticsInv, TypeOK
    <3> QED BY <1>8, <3>1, <3>2 DEF AnalyticsInv, Within
  <2> QED BY <1>4, <1>5, <1>6, <1>7, <2>2, <2>3 DEF AnalyticsInv
<1>11. CASE m \notin overlapped
  <2>1. Alone' \subseteq Alone \cup {Order(m)}
    BY <1>1 DEF Alone
  <2>2. Cardinality(Alone') \in Nat /\ Cardinality(Alone') <= Cardinality(Alone) + 1
    <3>1. /\ IsFiniteSet(Alone \cup {Order(m)})
          /\ Cardinality(Alone \cup {Order(m)}) = Cardinality(Alone) + 1
      <4>1. Order(m) \notin Alone
        BY DEF Alone
      <4> QED BY <1>8, <4>1, FS_AddElement
    <3>2. /\ IsFiniteSet(Alone')
          /\ Cardinality(Alone') <= Cardinality(Alone \cup {Order(m)})
      BY <2>1, <3>1, FS_Subset
    <3>3. Cardinality(Alone') \in Nat
      BY <3>2, FS_CardinalityType
    <3> QED BY <1>8, <3>1, <3>2, <3>3
  <2>3. TotalBounded'
    BY <1>1, <1>3, <1>8, <1>9, <2>2 DEF TotalBounded
  <2>4. Busy = {m}
    BY <1>3, <1>11 DEF AnalyticsInv, Solo
  <2>5. \A n \in Messages : task'[n].pc # "commit"
    BY <1>2, <2>4 DEF Busy, Running
  <2>6. Within'
    BY <2>5 DEF Within
  <2> QED BY <1>4, <1>5, <1>6, <1>7, <2>3, <2>6 DEF AnalyticsInv
<1> QED BY <1>10, <1>11

LEMMA CommitPreserves ==
  ASSUME AnalyticsInv, NEW m \in Messages, Commit(m) PROVE AnalyticsInv'
<1>1. task[m].pc = "commit" /\ UNCHANGED <<overlapped, crashes>>
  BY DEF Commit
<1>2. crashes' \in 0..MaxCrashes
  BY <1>1 DEF AnalyticsInv, TypeOK
<1>3. CASE Order(m) \in trips
  <2>1. End(m, "repeated") /\ UNCHANGED rows
    BY <1>3 DEF Commit
  <2>2. /\ task' \in [Messages -> Executions]
        /\ \A n \in Messages \ {m} : task'[n] = task[n]
        /\ task'[m].pc = "repeated" /\ "repeated" \notin Running
    BY <2>1, EndEffect DEF AnalyticsInv, Ended
  <2> QED BY <1>1, <1>2, <1>3, <2>1, <2>2, QuietStep
<1>4. CASE Order(m) \notin trips /\ Conflicts(m)
  <2>1. End(m, "conflict") /\ UNCHANGED rows
    BY <1>4 DEF Commit
  <2>2. /\ task' \in [Messages -> Executions]
        /\ \A n \in Messages \ {m} : task'[n] = task[n]
        /\ task'[m].pc = "conflict" /\ "conflict" \notin Running
    BY <2>1, EndEffect DEF AnalyticsInv, Ended
  <2>3. m \in overlapped
    <3>1. task[m].known \in BOOLEAN /\ deliveries \in Nat
      BY DEF AnalyticsInv, TypeOK
    <3> QED BY <1>1, <1>4, <3>1 DEF AnalyticsInv, UpToDate, Conflicts
  <2> QED BY <1>1, <1>2, <2>1, <2>2, <2>3, QuietStep
<1>5. CASE Order(m) \notin trips /\ ~Conflicts(m)
  <2>1. Write(m)
    BY <1>5 DEF Commit
  <2> QED BY <1>1, <1>5, <2>1, WritePreserves
<1> QED BY <1>3, <1>4, <1>5

-----------------------------------------------------------------------------
(* The theorems *)

LEMMA AnalyticsInit == Init => AnalyticsInv
<1> SUFFICES ASSUME Init PROVE AnalyticsInv
  OBVIOUS
<1>1. /\ \A m \in Messages : task[m] = NoSession("queued")
      /\ trips = {} /\ profiled = {} /\ deliveries = 0 /\ overlapped = {} /\ crashes = 0
  BY DEF Init
<1>2. Busy = {} /\ Alone = {}
  BY <1>1 DEF Busy, Alone, NoSession, Running
<1>3. IsFiniteSet(Busy) /\ Cardinality(Busy) = 0 /\ Cardinality(Alone) = 0
      /\ Cardinality(trips) = 0
  BY <1>1, <1>2, FS_EmptySet
<1>4. TypeOK
  BY <1>1, <1>3, AnalyticsAssumption DEF Init, TypeOK, NoSession
<1>5. Solo /\ TotalBounded
  BY <1>1, <1>2, <1>3 DEF Solo, TotalBounded
<1>6. UpToDate /\ Within /\ Verdicts
  BY <1>1 DEF UpToDate, Within, Verdicts, NoSession
<1> QED BY <1>3, <1>4, <1>5, <1>6 DEF AnalyticsInv

\* Executions that have not overlapped are alone with the rows, and the others
\* hold a total that lies between the trips that were alone and all of them.
THEOREM AnalyticsInvariant == Spec => []AnalyticsInv
<1>1. AnalyticsInv /\ [Next]_vars => AnalyticsInv'
  <2> SUFFICES ASSUME AnalyticsInv, [Next]_vars PROVE AnalyticsInv'
    OBVIOUS
  <2>1. ASSUME NEW m \in Messages, Step(m) \/ Fail(m) \/ WorkerLost(m)
        PROVE  AnalyticsInv'
    BY <2>1, StartPreserves, ReadPreserves, CommitPreserves, EndPreserves DEF Step
  <2>2. CASE UNCHANGED vars
    BY <2>2 DEF vars, AnalyticsInv, TypeOK, Busy, Solo, UpToDate, Within, Verdicts,
                TotalBounded, Alone
  <2> QED BY <2>1, <2>2 DEF Next
<1> QED BY AnalyticsInit, <1>1, PTL DEF Spec

\* Rows and executions keep to their types, and at most worker_concurrency tasks
\* run at a time.
THEOREM AnalyticsTypes == Spec => []TypeOK
<1>1. AnalyticsInv => TypeOK
  BY DEF AnalyticsInv
<1> QED BY AnalyticsInvariant, <1>1, PTL

\* The tenant's total counts nothing twice and loses nothing but by overlapping
\* executions.
THEOREM TotalBoundedHolds == Spec => []TotalBounded
<1>1. AnalyticsInv => TotalBounded
  BY DEF AnalyticsInv
<1> QED BY AnalyticsInvariant, <1>1, PTL

\* A delivered order has its trip, unless an execution has failed or has lost
\* the race for a first row.
THEOREM TripRecordedHolds == Spec => []TripRecorded
<1>1. AnalyticsInv => TripRecorded
  BY DEF AnalyticsInv, Verdicts, TripRecorded, Ended
<1> QED BY AnalyticsInvariant, <1>1, PTL
=============================================================================
