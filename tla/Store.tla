------------------------------- MODULE Store -------------------------------
(***************************************************************************)
(* The state every API node shares and the way a handler works on it.      *)
(*                                                                         *)
(* PostgreSQL holds orders, drivers, assignment attempts and the audit     *)
(* trail; Redis holds the geo index drivers:active, the driver locks and   *)
(* the delivery:{id} channels; each node holds, in memory only, its armed  *)
(* offer timers.  A handler is a session: it SELECTs rows into an identity *)
(* map, changes the loaded objects, and one commit writes the columns that *)
(* changed.  Every await is a step, so the steps of two sessions mix.      *)
(***************************************************************************)
EXTENDS OrderStateMachine, Naturals, Sequences, FiniteSets

CONSTANTS
  Orders, Drivers,     \* ids of the two tables
  Procs,               \* how many handlers can be in progress at once
  NoOrder, NoDriver,   \* NULL
  OnlineAtStart,       \* drivers that have already reported a position
  InRange,             \* InRange[o]: drivers within 10 km of o's pickup
  MaxRequests          \* bound on the number of requests

VARIABLES
  orders, drivers, attempts, audit,    \* PostgreSQL tables
  geo, locks, channel,                 \* Redis
  timers, events,                      \* offer timers; events sent to Celery
  sess, issued                         \* the handlers in progress

tables == <<orders, drivers, attempts, audit>>
redis  == <<geo, locks, channel>>
tasks  == <<timers, events>>
vars   == <<tables, redis, tasks, sess, issued>>

-----------------------------------------------------------------------------
(* Rows *)

DriverStatus  == {"OFFLINE", "ONLINE", "BUSY"}
AttemptStatus == {"OFFERED", "ACCEPTED", "REJECTED", "TIMEOUT"}
Edge          == OrderStatus \X OrderStatus

\* A row of orders; "ABSENT" is an id that was not inserted yet.
OrderRow == [status : OrderStatus \cup {"ABSENT"}, driver : Drivers \cup {NoDriver}]

\* A row of drivers.  located: current_lat is not NULL.  fresh: last_seen_at
\* is at most 90 seconds old.
DriverRow == [status : DriverStatus, available : BOOLEAN,
              located : BOOLEAN, fresh : BOOLEAN]

AttemptRow == [order : Orders, driver : Drivers, status : AttemptStatus]

Absent == [status |-> "ABSENT", driver |-> NoDriver]

\* What create_driver inserts.
NewDriver ==
  [status |-> "OFFLINE", available |-> TRUE, located |-> FALSE, fresh |-> TRUE]

\* The row of a driver that has pinged since.
OnlineDriver == [NewDriver EXCEPT !.status = "ONLINE", !.located = TRUE]

\* The condition under which a handler lists a driver in drivers:active.
Dispatchable(row) == row.status = "ONLINE" /\ row.available /\ row.located

\* The orders a location update treats as active for driver d.
ActiveOrders(d) ==
  {o \in Orders : /\ orders[o].driver = d
                  /\ orders[o].status \in {"ASSIGNED", "PICKED_UP", "IN_TRANSIT"}}

-----------------------------------------------------------------------------
(* Sessions *)

OpName == {"none", "Patch", "Assign", "Trigger", "Accept", "Reject", "Timeout",
           "Ping", "Availability", "Sweep"}

\* The await a session is about to perform.
PcName == {"idle", "order", "driver", "index", "unindex", "attempt", "excluded",
           "search", "score", "lock", "unlock", "reload", "reindex", "purge",
           "store", "commit", "refresh", "announce"}

NoDrivers == [d \in Drivers |-> NewDriver]

\* was/now: the order as loaded and as modified; drv/dnow: the same for driver
\* rows (equal where nothing was changed, so that a commit writes nothing).
Idle ==
  [ pc |-> "idle", op |-> "none", o |-> NoOrder, st |-> "ABSENT", ask |-> NoDriver,
    was |-> Absent, now |-> Absent, drv |-> NoDrivers, dnow |-> NoDrivers,
    rows |-> <<>>, att |-> 0, mark |-> "OFFERED", pick |-> NoDriver,
    cand |-> {}, excl |-> {} ]

Session ==
  [ pc : PcName, op : OpName, o : Orders \cup {NoOrder},
    st : OrderStatus \cup {"ABSENT"},      \* status asked for, then announced
    ask : Drivers \cup {NoDriver},         \* driver named by the request
    was : OrderRow, now : OrderRow,
    drv : [Drivers -> DriverRow], dnow : [Drivers -> DriverRow],
    rows : Seq(Edge),                      \* audit rows added to the session
    att : Nat, mark : AttemptStatus,       \* attempt row loaded, its new status
    pick : Drivers \cup {NoDriver},        \* driver being offered the order
    cand : SUBSET Drivers, excl : SUBSET Drivers ]

\* A request arrives at a free slot; its first SELECT runs with it.
Begin(p, s) ==
  /\ sess[p].pc = "idle"
  /\ issued < MaxRequests
  /\ issued' = issued + 1
  /\ sess' = [sess EXCEPT ![p] = s]

\* The session of p goes on as s.
Continue(p, s) ==
  /\ sess' = [sess EXCEPT ![p] = s]
  /\ UNCHANGED issued

-----------------------------------------------------------------------------
(* The unit of work *)

\* A commit writes a column only where the session changed it.
WriteOrder(was, now, row) ==
  [ status |-> IF now.status # was.status THEN now.status ELSE row.status,
    driver |-> IF now.driver # was.driver THEN now.driver ELSE row.driver ]

\* The same for drivers.  last_seen_at has onupdate=func.now(): any UPDATE of
\* the row makes it fresh, whatever the reason for the UPDATE.
WriteDriver(was, now, row) ==
  IF now = was THEN row
  ELSE [ status    |-> IF now.status # was.status THEN now.status ELSE row.status,
         available |-> IF now.available # was.available THEN now.available
                                                        ELSE row.available,
         located   |-> IF now.located # was.located THEN now.located ELSE row.located,
         fresh     |-> TRUE ]

WriteDrivers(s) == [d \in Drivers |-> WriteDriver(s.drv[d], s.dnow[d], drivers[d])]

\* The attempt rows after the commit of s: the loaded one answered, and the
\* offer of trigger_assignment inserted.
Answered(s) ==
  IF s.att \in DOMAIN attempts /\ s.mark # "OFFERED"
  THEN [attempts EXCEPT ![s.att].status = s.mark]
  ELSE attempts

\* Mutant: an offer row is inserted although nobody was found.
WriteAttempts_Nobody(s) ==
  IF s.op = "Trigger"
  THEN Append(attempts, [order |-> s.o, driver |-> s.pick, status |-> "OFFERED"])
  ELSE Answered(s)

WriteAttempts(s) ==
  IF s.op = "Trigger" /\ s.pick # NoDriver
  THEN Append(attempts, [order |-> s.o, driver |-> s.pick, status |-> "OFFERED"])
  ELSE Answered(s)

\* The OFFERED attempts of driver d for order o.
Offered(o, d) ==
  {i \in DOMAIN attempts : attempts[i] = [order |-> o, driver |-> d, status |-> "OFFERED"]}

-----------------------------------------------------------------------------
ASSUME StoreAssumption ==
  /\ NoDriver \notin Drivers
  /\ NoOrder \notin Orders
  /\ OnlineAtStart \subseteq Drivers
  /\ InRange \in [Orders -> SUBSET Drivers]
  /\ MaxRequests \in Nat

StoreInit ==
  /\ orders = [o \in Orders |-> Absent]
  /\ drivers = [d \in Drivers |-> IF d \in OnlineAtStart THEN OnlineDriver ELSE NewDriver]
  /\ attempts = <<>>
  /\ audit = [o \in Orders |-> <<>>]
  /\ geo = OnlineAtStart
  /\ locks = {}
  /\ channel = [o \in Orders |-> Absent]
  /\ timers = {}
  /\ events = [o \in Orders |-> {}]
  /\ sess = [p \in Procs |-> Idle]
  /\ issued = 0
=============================================================================
