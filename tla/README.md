# Verification of the delivery backend

This directory holds TLA+ models of the backend in `src/backend/app`, the TLC
configurations that check them on small instances, and theorems about them that
TLAPS proves for every value of the constants. Paths below are relative to
`src/backend/app` unless they start with `src/`, `README.md` or `Documents/`.

    tlasany Dispatch.tla                                  # parse
    tlc -workers 2 -config Serial.cfg MCDispatch          # check one run
    tlapm AuditProofs.tla                                 # check the proofs

`PROJECT.json` lists the runs, the lines each definition models, a mutant for
every property (a plausible bug that makes the run fail), the hazards of the code
and the theorems.

---

## 1. The system

FastAPI nodes, Celery workers and one background loop share PostgreSQL and Redis.
No handler takes a row lock or a serialisable transaction, so everything between
two `await`s of one handler can mix with everything between two `await`s of
another, on the same node or on another one.

    client ── HTTP ──> API node ── commit ──> PostgreSQL (orders, drivers,
       ^                │  │  │                assignment_attempts,
       │                │  │  │                delivery_transitions)
       │                │  │  └─ GEOADD/ZREM, SET NX, PUBLISH ──> Redis
       │                │  └─ create_task(sleep 30) ── in memory of the node
       │                └─ dispatch_event ──> Celery: notifications, analytics
       └── WebSocket <── ConnectionManager <── SUBSCRIBE delivery:{id}

### Components

| Component | State it keeps | Operations | What is hard | What makes it correct |
| --- | --- | --- | --- | --- |
| Order state machine (`services/state_machine.py`) | none; a relation on statuses | `validate_transition` | it is consulted on a loaded copy, and not by every writer | stored histories are paths of the relation |
| Delivery service (`services/delivery_service.py`) | `orders`, `delivery_transitions` | `create_delivery`, `update_status`, queries | validate on a copy, commit later, publish later still; automatic advance of PICKED_UP | audit trail complete and legal, terminal statuses final |
| Assignment service (`services/assignment_service.py`) | `assignment_attempts`, driver locks, in-memory timers | `assign_driver`, `trigger_assignment`, `_run_assignment_timeout`, `_transition_to_no_driver` | lock that is released before the write, stale candidates, timers lost with the node, retry on a stale order | every offer is settled, one driver has one order, attempts agree with the trail |
| Deliveries API (`api/deliveries.py`) | none of its own | `accept_delivery`, `reject_delivery`; the rest forwards | the answer races the timer for the same attempt | attempts agree in number with the trail, no driver is offered again what it refused |
| Driver service (`services/driver_service.py`) | `drivers`, `drivers:active`, `stream:locations` | `create_driver`, `update_location`, `update_availability` | index written before the commit, from a loaded row | the index lists exactly the drivers that can be offered an order |
| Ghost sweep (`tasks/cleanup.py`) | the same | one round every 60 s | commits rows that were loaded before a number of Redis calls | as above |
| Circuit breaker (`core/circuit_breaker.py`) | state, failures, trials, time of the last change | `call_sync`, `call_async` | outcomes are reported late, in another state than the call was admitted in | opens on a streak, tries again, recovers, answers by the fallback |
| Notification task (`tasks/notifications.py`) | `notif:*` keys, `notification_logs`, `notifications:dlq` | one task, retried and redelivered | key set before the work is done; one handler for all failures | at most once, and nothing lost silently |
| Route service (`services/route_service.py`) | `route:*`, `delivery:*:eta`, `:live_location` caches | `get_route`, `recalculate_eta` | everything goes through `call_async` | fallback when the provider is gone (it raises, section 5) |
| Analytics task (`tasks/analytics.py`) | `trip_analytics`, `driver_analytics`, `tenant_analytics`, `tenant_usage_hourly` | per delivered order; hourly aggregation (not modelled) | read-modify-write totals, unique trip row, redelivery | no delivery counted twice, none lost without a reason |
| Metering middleware (`middleware/metering.py`) | tenant cache (300 s), rate window, daily and monthly counters | every request | cache against key rotation and quota; the name of the minute, `INCR` and `EXPIRE` are three steps; some endpoints behind it ask for no tenant | limits hold whatever the cache says, a rotated key is refused where the tenant is asked for, counters end |
| Key rotation, tenant analytics (`api/analytics.py`) | `tenants` | `rotate_tenant_api_key`; the rest reads | the deleted cache entry can be written back by a request in progress | the old key stops working, and is forgotten |
| Connection manager (`services/connection_manager.py`, `api/websockets.py`) | clients by delivery, one listener task each, fleet clients | connect, disconnect, broadcast, listen | awaits `send_json` while iterating over a list that changes; a failed listener leaves its entry behind | one listener per list, no client lost or kept, updates in order, few missed |
| Authentication (`dependencies/`, `core/security.py`) | none | header look-ups | none | — |
| Events and Celery configuration (`core/events.py`, `core/celery_app.py`) | broker queues | `dispatch_event`; late acknowledgement | redelivery, dispatch after the commit | events name committed changes |
| Health checks, Prometheus metrics | counters | read-only probes | none | — |
| Schemas, configuration, logging, exceptions | none | declarations | none | — |
| Frontend, deployment | — | issues the requests; containers, proxy, dashboards | — | — |

The dispatch core — the first six rows — is the program's own logic and the
part with the most interleavings; it was modelled first. The circuit breaker, the
notification task, metering with key rotation, the analytics tasks and the
connection manager each have a module of their own, because they meet the core
only through calls and messages whose order the core does not control. Sections 8
and 9 say what is left.

### How the components interact

* `accept_delivery`, `reject_delivery` and the offer timer end in the assignment
  service; `reject` and the timer commit the answer first and then call
  `trigger_assignment` in the **same** session, which therefore still sees the
  order object it loaded before (`expire_on_commit=False`, `db/session.py`).
* `update_status`, `assign_driver` and `accept_delivery` change the driver of the
  order and the geo index with it; `update_location`, `update_availability` and
  the sweep change the same two from the driver's side.
* Every order handler ends in commit, refresh, `PUBLISH delivery:{id}`,
  then `dispatch_event`, which sends the Celery messages. A failure between
  these leaves the earlier ones done.
* `update_location` of a driver with active orders calls
  `RouteService.recalculate_eta`, which goes through the circuit breaker.

---

## 2. The modules

| Module | Models | Extends / uses |
| --- | --- | --- |
| `OrderStateMachine` | statuses, `VALID_TRANSITIONS`, `validate_transition` | |
| `OrderLifecycle` | abstract specification of one order's life, the bypass of the state machine included | `OrderStateMachine` |
| `Store` | tables, Redis keys, timers, sessions and the unit of work | `OrderStateMachine` |
| `DeliveryService` | `create_delivery`, `update_status` | `Store` |
| `AssignmentService` | `assign_driver`, `trigger_assignment`, the offer timer | `Store` |
| `DeliveriesApi` | `accept_delivery`, `reject_delivery` | `Store` |
| `DriverService` | `update_location`, `update_availability`, the ghost sweep | `Store` |
| `Dispatch` | the composition: all handlers, the common commit/refresh/announce, failures, fairness, properties | the four above; `INSTANCE OrderLifecycle` |
| `MCDispatch` | instances of `Dispatch` | `Dispatch` |
| `DispatchProofs` | theorems about `Dispatch`: types and locks | `Dispatch` |
| `AuditProofs` | the audit trail, under every interleaving | `DispatchProofs` |
| `SerialProofs` | handlers that overlap only if they have no order and no driver in common | `AuditProofs` |
| `CircuitBreaker`, `MCCircuitBreaker`, `CircuitBreakerProofs` | one breaker object and its callers | |
| `Notifications`, `MCNotifications`, `NotificationProofs` | the messages of one event of one order | |
| `Metering`, `MCMetering`, `MeteringProofs` | the middleware, `get_current_tenant` and the key rotation, for one tenant | |
| `Analytics`, `MCAnalytics`, `AnalyticsProofs` | the executions of the delivery task for one tenant's orders | |
| `ConnectionManager`, `MCConnectionManager`, `ConnectionProofs` | the WebSocket clients of one delivery and of the fleet view on one node | |

### 2.1 The dispatch core

**State.** `orders`, `drivers`, `attempts`, `audit` are the tables (`audit[o]` is
the sequence of the order's `delivery_transitions` rows); `geo`, `locks` and
`channel[o]` are `drivers:active`, the keys `driver:{id}:lock` and the last
payload on `delivery:{id}`; `timers` are the attempts whose
`_run_assignment_timeout` task is asleep; `events[o]` are the event types that
were sent to Celery. `sess[p]` is a handler in progress: `pc` is the await it
performs next, `was`/`now` the order as it was loaded and as it was changed,
`drv`/`dnow` the same for drivers, `rows` the audit rows it has added.
`issued` counts requests and is bounded by `MaxRequests`; a timer or a round
of the sweep is not a request and costs nothing.

**Steps.** Every await is a step, and a step does everything up to the next one.

* A request's first SELECT is merged with its arrival (nothing of the handler
  runs before it). Requests that the code refuses — 404, 400, 409 before
  anything is written — change nothing and are stutters; the one refusal that
  comes later, after a second SELECT, is an action (`AssignRefused`), and so is
  the answer that finds its attempt already answered (`NoAttempt`: the code goes
  on without it). `Retrigger`'s check never refuses because its object is still
  the DRIVER_PENDING one that was loaded, which may always be offered again;
  the proof of `OnlySearchBypasses` keeps that fact in its invariant.
* A SELECT of an object that the session has already loaded returns that object
  (identity map; nothing in the code asks for `populate_existing`). Only
  `refresh` rereads.
* A commit writes **the columns that the session changed** and leaves the others
  as some other session may have written them meanwhile (`WriteOrder`,
  `WriteDriver`). `autoflush=False`, so nothing is written before.
* `drivers.last_seen_at` has `onupdate`, so any UPDATE of the row makes it
  `fresh`. `update_location` sets it too, but its `refresh(driver)` drops that
  change; `fresh` becomes FALSE by `GrowStale`, which stands for 90 seconds
  without an UPDATE and happens to the drivers in `Silent`.
* Distance, rating and workload order the candidates. They are data, so the
  model lets any remaining candidate be the next one; `InRange` says which
  drivers are within 10 km.
* A location update of a driver **with** active orders reaches
  `recalculate_eta`, which raises: `_call_openrouteservice` always raises, and
  `call_async` then raises instead of running the fallback (section 5). Its session is rolled back. `UpdateLocation` is therefore guarded by
  `ActiveOrders(d) = {}`.
* The lock's SET NX and its DEL are separate steps. The DEL does not look at
  the owner, so a lock that expires under its owner can be deleted by it later,
  when it belongs to somebody else; `LockExpires` allows that.
* A timer may fire at any time after it is armed: the model has no clock, so
  no property depends on how long the handlers take compared with 30 seconds.

**Failures** (`Faults`). `Abort` ends a handler at any await: the node restarts,
or PostgreSQL or Redis raises; the session is rolled back, what it did to Redis
stays. `LoseTimer` is the restart of the node whose memory the timer is in.

**Handlers that have nothing in common.** `Apart` says that no two handlers in
progress work on the same order or write the same driver (`Writes`: the rows a
session has changed, and the driver whose row or index entry it is about to write).
`ApartSpec` is `Spec` restricted to steps that end in such a state. It is not a
second model: the steps are the same, and handlers of different orders and
drivers interleave as they like, with timers and the sweep.

**Not in this model.** Tenants (there is one), the location stream and the
Prometheus counters, which nothing reads back, the ETA caches (never written,
see above), wording of errors. `create_driver` is folded into the initial rows.

### 2.2 `OrderLifecycle`

What becomes of an order when no other handler interferes: it is created once and
then changes by an atomic offer, exhaustion, acceptance, manual assignment or
advance. An offer, a manual assignment and an advance are judged by the state
machine **against the status the order has at that moment**; an acceptance starts
from DRIVER_PENDING, where it is legal. The fifth move, `Exhaust`, is judged by
nobody: a search that found no driver takes the order to NO_DRIVER_AVAILABLE from
every status in which a search may start, and for CREATED and ASSIGNED the state
machine has no such move (section 5). The specification states what the code
does, so that the bypass is in sight and not hidden by a wider relation.

`Dispatch` implements it under `life <- orders` in the behaviours of `ApartSpec`
(run `serial`). When handlers of one order overlap it does not, as `cancel_race`
shows.

### 2.3 The circuit breaker

`breaker` holds the fields of the object; `call[c]` is how far caller `c` is:
admitted (`out`), answered (`ok`, `failed`) or ended (`result`, `fallback`,
`raised`). `_before_call`, `_on_success` and `_on_failure` each hold the lock of
the object and are one step each; between them anything can happen. `cooled`
says whether `recovery_timeout` has passed since the last change of state.
`streak`, a history variable, counts the failures reported since the last
success. Both counters stop at the threshold: nothing in the code compares
`failures` with a larger number, so a count above it behaves like the
threshold. `Asynchronous` chooses `call_async`, whose fallback path looks up
a name that the module never imports.

### 2.4 The notification task

One event type of one order: `Messages` are several dispatches of it, or several
deliveries of one message — they differ only in an `event_id` that no
idempotency key contains, so they compete. `task[m]` is the execution: which
call it makes next, which channel it is at, how often Celery has retried it.
`keys`, `log`, `dlq` are the Redis keys, the rows of `notification_logs` and the
dead-letter list; `sent` and `degraded` count deliveries by the channel and
publishes by its fallback.

Each call that leaves the worker is a step, so two workers interleave between
any two, and `WorkerLost` stops one there, even after the last call and before
the acknowledgement (`acks_late`): the broker delivers the message again. If only
the process of the pool dies that executes the task, the worker survives and
acknowledges the message (`ProcessLost`): the setting that would reject it is
`task_reject_on_worker_lost`, and `core/celery_app.py:33` sets
`worker_reject_on_worker_lost`, which Celery does not know. A Redis command may
have been executed although it raises; a commit that raises is taken not to have
happened. Whether a breaker lets a call through is left open — it only chooses
between paths that are all present. The keys' lifetime of one day is not
modelled: an execution, its retries and redeliveries are over by then.

### 2.5 Metering and key rotation

**State.** `apiKey` and `mark` are the tenant's row (`api_key`,
`quota_exceeded_at`), `cache[k]` the entry `tenant:key:<k>` (what it says of the
mark), `count[<<w, t>>]` the counter of period `t` of window `w` (`limit:`,
`usage:`, `usage:monthly:`), `expiring` the counters with an expiry. `req[p]` is a
request: `pc` is the call it makes next, `kind` what it asks for, `seen` what it
knows of the mark, `at[w]` the period whose name it has built from the clock,
`rank[w]` what its INCR returned and, as history, `counted` the minute in which it
was counted. Keys are numbered in the
order in which they are generated, so a key smaller than `apiKey` is a dead one.

**Steps.** One for each call to Redis or PostgreSQL. Everything that
`middleware/metering.py` reads before a call is used after it: the tenant from the
cache or the row, the name of the window, the result of the INCR. Behind it,
`Authenticate` is `get_current_tenant`, which asks the database and not the cache,
for the endpoints that depend on it; those of `api/drivers.py` (kind `driver`) do
not, and `Admit` lets them go straight on. `RotateKey`, `Evict` and `Reply` are
`rotate_tenant_api_key`; all other endpoints are `Serve`. `Fail` ends a request at
any call. `ExpireEntry` and `ExpireCounter` are Redis: the entry of the cache goes
at any time after it was set, the counter of a minute in a later minute, whoever
still holds its name.

**Assumptions.** A request takes less than a day, so the counters of days and months
(2 and 35 days) do not disappear while requests count in them; that of a minute
does. `Length` maps the clock's minutes to days and months. A client holds the
first key and those that rotations returned. Driver requests that carry no key at
all pass the middleware uncounted (line 16) and are not requests of this model.

### 2.6 The analytics task

`task[m]` is the execution of message `m`: the part of the task it is at, whether
it found a row of the driver (`known`), the total it read. `trips`, `profiled` and
`deliveries` are the rows of `trip_analytics`, `driver_analytics` and
`tenant_analytics` (0 deliveries: no row). All three are written by **one commit**,
which fails as a whole on any of the three unique columns (`Conflicts`, and a trip
that is there already). `Fail` is an exception or a lost process, after which the
message is acknowledged; `WorkerLost` delivers it again, also after the commit.
`overlapped` is a history variable: the messages that ran while another did.
Distances, times and rates are left out: nothing reads them back into a decision
of the task. An order need not have a driver (`NoDriver`): its trip asks for no
driver's row and writes none.

### 2.7 The connection manager

A coroutine runs alone until it awaits, so an action goes from one await of a
handler or listener to the next. `delivery_connections[id]` is a **list object**
that is deleted when empty and made anew by the next client; `lists[g]` is the
g-th one, `current` the one in the dictionary, `entry` the one whose listener is in
`redis_tasks[id]`. `listener[g]` is where that task is: the message it broadcasts
(`next`), its position in the list it iterates over (`at`), the clients whose send
has raised (`stale`), and, as a history variable, how many clients have left the
list since the iteration began (`left`). `alive` says whether the connection
exists: it may break at any time (`Drop`), and its handler hears of it later
(`LeaveTrack`, `LeaveFleet`). `cancelled` is a cancellation that has been asked
for; it arrives where the task awaits next. A listener may remove the last client
and thereby cancel itself; it then still goes on to the next await that suspends.
A send to a socket with room in its buffer, or a read of a message that has
arrived already, does not, so it may finish the fleet's turn and whole further
messages first, and remove broken fleet clients on the way (`RunOut`). `got` records
what each client was sent. One delivery and one node: nothing in the class relates
two of either, except `fleet`, which every listener serves. The connection gauge
is left to the metrics.

---

## 3. What is checked

All runs are exhaustive for their instance. *slots* are handlers in progress at
once.

| Run | Instance | States | What it shows |
| --- | --- | --- | --- |
| `interleaved` | 2 slots, 1 order, 2 drivers, 3 requests, all failures | 1,233,252 | what survives **every** interleaving and failure: no audit row bypasses the state machine but those of a search that found nobody (`OnlySearchBypasses`), a stored status that was recorded (`StatusAudited`), PICKED_UP never exposed nor its rows separated (`PickedUpIsTransient`), no event without a committed row (`EventsAudited`), attempts covered by the trail (`TrailCoversAttempts`) |
| `serial` | 2 slots that overlap only apart, 2 orders, 2 drivers, 3 requests | 334,101 | what overlap with other orders and drivers leaves intact: the trail is a chain that ends in the stored status (`AuditChained`), index = dispatchable drivers (`GeoIndexAgrees`), last payload = stored order (`ChannelAgrees`), every pending order has its timer (`PendingHasTimer`), nobody is offered again what it refused (`NotOfferedAgain`), the life cycle is implemented (`ImplementsLifecycle`) |
| `liveness` | 2 slots, 1 order, 2 drivers, one of which may fall silent and be swept, 2 requests | 209,880 | no handler hangs, on locks or otherwise (`HandlersEnd`), no offer stays open (`OfferSettles`), one holder per lock (`LockExclusive`) |
| `double_assignment` | 1 slot, 2 orders, 1 driver | violated | section 5 |
| `cancel_race` | 2 slots, 1 order, 1 driver | violated | section 5 |
| `breaker` | 3 callers, threshold 3, 3 trials | 7,836 | state and count agree (`CountsAgree`), opens only on a streak (`TripsOnStreak`), recovers (`Recovers`) |
| `notification_faults` | 2 messages, 3 channels, 3 retries, 1 lost worker, all faults | 3,392,228 | at most one delivery and one fallback per channel (`AtMostOnce`), at most one verdict (`OneVerdict`), dead letters have failed for good (`DeadLettersFailed`) |
| `notification_progress` | 2 messages, 3 channels, 1 retry, 1 lost worker, provider faults, fairness | 6,080 | every enabled channel is reached (`EveryChannelReached`), a lost worker costs at most one notification (`LossPerCrash`) |
| `metering` | 2 requests, limit 1, quota 1, 2 minutes, 2 rotations | 188,778 | rate limit for those counted in time and quota are kept (`LimitsRespected`), the tenant is marked before an order is refused (`RefusalExplained`), a dead key reaches no endpoint that asks for the tenant (`DeadKeyRefused`) and leaves the cache (`DeadKeyForgotten`), counters end (`CountersExpire`) |
| `analytics` | 4 messages of 3 orders, one of them without a driver, 3 at a time, 2 lost workers, failures | 243,729 | the total counts nothing twice and loses by overlap only (`TotalBounded`), a missing trip has a reason (`TripRecorded`) |
| `connections` | 3 trackers, 1 fleet client, 2 messages, 1 Redis failure | 2,007,150 | one listener per list (`OneListener`), no client lost or kept twice (`Registered`), updates in order and once (`UpdatesInOrder`), a broadcast misses at most one client for each that left (`SkipsBounded`) |
| `fleet_view` | 1 tracker, 1 fleet client, 1 message, fairness | violated | section 5 |

### Why the instances are large enough

* **Two slots.** Every race in the handlers is between the copy one session has
  loaded and the commit of one other; a third would commit another such value.
  The theorems of section 6 cover any number of slots for the properties they
  name.
* **One order** in the interleaved runs: two handlers interfere through an order
  only if it is the same one, or through a driver, which the second driver and
  the timers exercise. **Two orders** in `serial` and `double_assignment`, where
  the question is what one driver does for several orders. The theorems of
  `SerialProofs` cover any number of slots, orders, drivers and requests.
* **Two drivers**: one to be skipped (locked, stale, excluded) and one to be
  found afterwards; exhaustion is reached after two.
* **One silent driver** in `liveness`: the sweep then runs beside searches that can
  find the other driver as well. In `serial` both may fall silent.
* **Three requests** reach accept, reject or cancel after an offer and a search of
  another order beside it; re-offers by the timer and rounds of the sweep are no
  requests and come on top. In `serial` they also reach a second search after a
  rejection, a manual re-assignment and a repeated DELIVERED.
* **The breaker's** thresholds are those the program uses for routing (3 and 3),
  with as many callers as it takes to have late outcomes of both kinds.
* **Notifications:** three channels are all there are; two messages compete
  for every key, and `MaxRetries = 3` is the task's own value. `ThreeChannels`,
  `TwoChannels` and `ProvidersFirst` are preference lists in different orders:
  the progress run puts the channels that can fail before the one that cannot,
  so that a failure that stopped the loop would show.
* **Metering:** two requests are what a stale entry takes, one that has read it
  and one that changes the row; with limit and quota 1 both are over either bound.
  Two rotations can overlap and leave a key that is neither the first nor the
  last. The month turns with the minute, the day does not. The counter of the
  first minute can expire under a request that has its name. The theorems cover
  any number of requests.
* **Analytics:** three executions at a time are what it takes for the total to
  *fall* (two that read late and one that read early and commits last); one order
  is dispatched twice; two orders have the same driver and one has none, so that
  tasks meet in the driver's row or in the tenant's alone.
* **Connections:** three trackers let one leave before the position of the
  iteration, one behind it and one be skipped; two messages are the least that can
  come in the wrong order, and one failure is enough for a list without a listener.
  The theorems cover any number of each.
* Deadlock checking is off where the bound on requests, on the clock or on the
  messages lets the system stop. It is on for the breaker.
* Symmetry: slots are interchangeable, drivers where all start ONLINE, orders
  in `serial` (`SlotAndOrderSymmetry`), messages in `notification_faults`, trackers in `connections`. No run with a liveness
  property uses symmetry.

### Properties that need handlers to be apart

`GeoIndexAgrees`, `ChannelAgrees`, `PendingHasTimer`, `AuditChained`,
`NotOfferedAgain` and `ImplementsLifecycle` fail as soon as two handlers of the same
order or driver overlap: a search that has read the refusals overlooks the next
one, a chain is broken by two commits, an announcement arrives after a later one.
They are checked and proved under `ApartSpec`, where handlers of different orders
and drivers overlap freely, also with the timers and the sweep. That is not a
promise of the code, which has no lock that would make handlers be apart; it is
what has to hold for the races of section 5 and the hazards to be the *only*
reason for a disagreement. Each handler is a chain of steps that has to leave five
stores in agreement, with legal requests in any order, and a fault in one of them
breaks these properties without any overlap.

---

## 4. Fairness

* `Dispatch!Fairness`: a handler in progress takes its next await, and some armed
  timer fires. The asyncio event loop resumes every task whose await is ready, and
  `sleep(30)` ends. No request is promised, no driver answers, failures are
  never promised.
* `CircuitBreaker!FairSpec`: time passes, and a call that is out is answered or
  failed (the clients have timeouts) and reported. Nobody is obliged to call,
  and the provider is not obliged to return: `Recovers` has both as a premise.
* `Notifications!FairSpec`: workers take queued messages and go on with what they
  began. A message need not be dispatched. `WorkerLost` is bounded, otherwise a
  worker that always dies would be a counterexample to everything.
* `Metering!FairSpec`: the event loop resumes a request whose call has returned,
  and Redis drops an entry at the end of its 300 s. `DeadKeyForgotten` needs both:
  requests that have read the old row stop writing it back, and what they wrote
  goes. No request is promised to arrive.
* `ConnectionManager!FairSpec`: the event loop goes on with handlers and listeners.
  A `send_json` that is stuck is ended by the keepalive of the server, which drops
  the connection; no client is promised to come or to leave. `FleetSubscribed`
  fails although all of this is granted.
* `Analytics` has safety properties only.

---

## 5. Where code and documents disagree

Each of these has a run in which TLC finds the counterexample.

1. **A driver gets two orders** (`double_assignment`). An offer writes only
   `order.driver_id` (`services/assignment_service.py:177`); the driver stays
   available, so a second order is offered to it, and `accept_delivery` does not
   look at its status. `Documents/PHASE-3.md:8` promises the contrary.
2. **A cancelled order moves on** (`cancel_race`). The status is validated on the
   loaded object and written later without a lock or a version
   (`services/delivery_service.py:66`); `README.md:172` says that this race is
   prevented.
3. **The fleet view is not subscribed** (`fleet_view`). `connect_fleet` only appends
   to a list (`services/connection_manager.py:47`); a node subscribes to a delivery
   only while somebody on the same node tracks it. `Documents/PHASE-2.md:19`:
   "subscribes to all active deliveries".

These follow from a few lines each, or are plain in a model, and have no run:

* The offer timer is a task in the memory of one node
  (`services/assignment_service.py:207`), so an offer that outlives its node is never
  taken back; `Documents/PHASE-3.md:305`: "Every offer starts a timeout." That is
  why the run `liveness` has no failures.
* **The state machine is bypassed.** `README.md:76` calls it "strict,
  non-bypassable", and its diagram lets an order become NO_DRIVER_AVAILABLE from
  DRIVER_PENDING only. `_transition_to_no_driver`
  (`services/assignment_service.py:219`) writes that status without asking it, also
  for orders that are CREATED or ASSIGNED; only the move to DRIVER_PENDING was
  asked about, when the search began. It takes one request with no driver near.
  `OnlySearchBypasses` names the two moves and says that, whatever overlaps, there
  is no other way around the state machine; `OrderLifecycle!Exhaust` is the move.
* PATCH may ask for `DRIVER_PENDING`, which is a legal move from CREATED, ASSIGNED
  and NO_DRIVER_AVAILABLE (`services/delivery_service.py:66`). It sets the status
  and makes no offer, so the order waits for a driver without a timer. The run
  `serial` issues this request, and `PendingHasTimer` states the exception: such
  an order has had more moves to DRIVER_PENDING than offers.
* Accept, reject and the timer load the OFFERED attempt and write it without a lock
  (`api/deliveries.py:208`, `services/assignment_service.py:267`), so the later
  answer overwrites the earlier one.
* An ASSIGNED order that is assigned to another driver leaves the first one BUSY and
  out of the index (`services/assignment_service.py:35`).
* A minute can serve more than the rate limit (`middleware/metering.py:62-67`): a
  request that took the name of the minute and counts after the counter has expired
  starts it again. `LimitsRespected` bounds those that were counted in the minute.
* A rotated key is still served by the endpoints of drivers
  (`api/drivers.py:36-66`) while an entry of the cache lets it pass the middleware:
  they do not depend on `get_current_tenant`.
* `core/circuit_breaker.py:107` uses `asyncio`, which is imported only inside
  `__call__`: NameError in place of the fallback that `README.md:137` promises.
* The key of a notification is set before its channel is served
  (`tasks/notifications.py:173`), so the message that is delivered again after a
  crash skips it. `LossPerCrash` says that this is all a crash costs.
* Every retry skips the channel that failed, so it never fails on the last attempt
  (`tasks/notifications.py:249`) and the dead-letter list stays empty but for
  messages that used up their retries on other failures.
* `worker_reject_on_worker_lost` (`core/celery_app.py:33`) is not a Celery setting;
  a task whose process is killed is acknowledged and lost.
* `README.md` calls the rate limiter a sliding-window token bucket; the middleware
  counts in fixed minutes. It says that a key over quota is blocked; the middleware
  blocks the creation of orders only, and nothing clears `quota_exceeded_at` when
  the month turns. It says that the breaker goes HALF-OPEN at 20% errors; the
  code counts failures in a row.
* Of two rotations that overlap, each deletes the entry of the key it came with, so
  the key between them stays cached until it expires (`api/analytics.py:241`); a
  rotation that fails after its commit leaves the client without the new key.
* `total_deliveries` is read, incremented and written without a lock
  (`tasks/analytics.py:163`), so overlapping tasks lose increments, and a third one
  that read earlier can make the total *fall*. `TotalBounded` says how far.
* The row of an hour holds the count of the day so far (`tasks/analytics.py:185`),
  which `api/analytics.py:36` serves as the requests of that hour. Hour and count
  are read at different awaits, so of two overlapping runs the earlier hour can
  get the larger count.
* `tasks/notifications.py:17-23` runs each coroutine in a new event loop, with
  Redis and database clients that were made for the first one. The notification
  model takes such an error for a call that raises.
* `data.get(b"driver_id")` never matches with `decode_responses=True`, so the
  distance of a trip is always the straight line. The driver's counts are read one
  after another, so a rate can exceed 100%.

---

## 6. What is proved

TLAPS proves these for every value of the constants that satisfies the named
assumptions: any sets of orders, drivers and slots, any number of requests, with
or without failures; any threshold; any list of channels and number of messages;
any number of API requests, limits, calendar and rotations; any number of analytics
messages, orders, drivers and concurrent executions; any number of WebSocket clients,
messages and failures of Redis. Every invariant and every action property
that a passing run checks is stated by a theorem here.

| Theorem | Module | Statement |
| --- | --- | --- |
| `TypeCorrect`, `TypeOKHolds` | `DispatchProofs` | `Spec => []TypeInv`, `Spec => []TypeOK` |
| `LockExclusiveHolds` | `DispatchProofs` | `Spec => []LockExclusive`, if `~Faults` |
| `OnlySearchBypassesHolds`, `StatusAuditedHolds`, `PickedUpIsTransientHolds`, `EventsAuditedHolds` | `AuditProofs` | the four properties of the audit trail |
| `TrailCoversAttemptsHolds` | `AuditProofs` | the trail has a move for every attempt and every acceptance |
| `AuditChainedHolds`, `NotOfferedAgainHolds`, `ImplementsLifecycleHolds` | `SerialProofs` | the chain, refusals that are respected and the refinement of `OrderLifecycle`, of `ApartSpec` |
| `ChannelAgreesHolds`, `GeoIndexAgreesHolds`, `PendingHasTimerHolds` | `SerialProofs` | Redis and the timers agree with the tables, of `ApartSpec`, if `~Faults` |
| `BreakerTypes`, `CountsAgreeHolds`, `TripsOnStreakHolds`, `ReopensAtOnceHolds` | `CircuitBreakerProofs` | two invariants and two action properties |
| `NotificationTypes`, `AtMostOnceHolds`, `OneVerdictHolds`, `DeadLettersFailedHolds` | `NotificationProofs` | type correctness and the three safety properties of `notification_faults` |
| `LossPerCrashHolds` | `NotificationProofs` | `Spec => []LossPerCrash`, if `Faults \subseteq {"provider"}` |
| `MeteringTypes`, `LimitsRespectedHolds`, `RefusalExplainedHolds`, `DeadKeyRefusedHolds`, `CountersExpireHolds` | `MeteringProofs` | all invariants of the run `metering` |
| `AnalyticsTypes`, `TotalBoundedHolds`, `TripRecordedHolds` | `AnalyticsProofs` | all invariants of the run `analytics` |
| `ConnectionTypes`, `OneListenerHolds`, `RegisteredHolds`, `UpdatesInOrderHolds`, `SkipsBoundedHolds` | `ConnectionProofs` | all invariants of the run `connections` |

**Assumptions.** `StoreAssumption` (NULL is neither a driver nor an order; drivers
online at the start are drivers; `InRange` is a set of drivers for each order;
`MaxRequests` is a natural number), `DispatchAssumption` (the constants that
choose requests choose real ones), `BreakerAssumption` (thresholds are positive,
as in every construction of a breaker), `NotificationAssumption` (the preference
list names channels), `MeteringAssumption` (limits are natural numbers, a
period is at least a minute), `AnalyticsAssumption` (every message has an order,
every order a driver or none; orders are finitely many), `ConnectionAssumption` (finitely
many clients, none of both endpoints). TLC evaluates each of them in the runs.

Some theorems have hypotheses of their own, because the claim is false without them:

* `LockExclusiveHolds`: no faults. With them a lock can expire and exclusion is
  lost, which is harmless only because nothing is written under the lock.
* All of `SerialProofs`: the behaviours of `ApartSpec`, with any number of slots.
  Two handlers of one order or driver that overlap break each of the six (section 3).
* `ChannelAgreesHolds`, `GeoIndexAgreesHolds`, `PendingHasTimerHolds`: no faults
  either. A handler that is cut off between the commit and the PUBLISH, between the
  ZADD and the commit, or before the timer is armed leaves the two stores apart.
  The other three hold with faults: a session that is cut off is rolled back.
  `GeoIndexAgreesHolds` assumes that there is a slot at all (`Procs # {}`).
* `LossPerCrashHolds`: only providers fail. A Redis or database call that raises
  makes the task skip the channel whose key it has set, so a notification is lost
  without any crash. And there is a message: the set `Messages` is not empty.

### The arguments

**Types.** `TypeOK` is not inductive: a commit writes the order of *its session*,
so one must know that the session has an order, that this order exists (an
ABSENT row must not become half a row), and that the driver and the attempt it
names are real. `TypeInv` adds `SessionOK` for every session: at each await, what
the following steps rely on. The interesting part is that no other session can
take it away: orders are never deleted and attempts only grow.

**Audit trail.** All four properties follow from one inductive invariant,
`TrailInv`. For stored orders (`OrderTrail`): each row is a legal move or one of
`Bypasses` and PICKED_UP rows come in pairs, the stored status and every dispatched event are targets of a
row. For sessions (`TrailOK`):

* `Entitled`: the check a session made on the copy it loaded still backs the row
  it is going to add, however the stored order has changed. This is why
  `OnlySearchBypasses` survives the races — each handler's row is legal for the order as
  *it* saw it — and why `AuditChained` does not;
* `WritesRecorded`: a status that differs from the loaded one is committed
  together with a row for it. The column-wise commit then either writes both or
  leaves a status that was recorded before;
* `AnnouncesRecorded`: what is announced after the commit is in the stored trail
  by then; trails only grow, and the refreshed status is a stored one, so a
  label that is read late is still a recorded one.

The proof of the step has a lemma per action; the lemmas on sequences at the top
(`RowsOK` of one row, of the pair, of a concatenation) carry PICKED_UP's pair
through `@ \o rows`.

**Attempts and trail.** `TrailCoversAttempts` compares the number of attempts of an
order with the number of its trail's moves to DRIVER_PENDING, and of the accepted
ones with the moves to ASSIGNED, while other handlers write both. `CoverInv` adds to
`TrailInv` what each session is going to do (`Course`): only a search has an
attempt to insert, only an acceptance one to mark ACCEPTED, and each comes with
the status its session announces. `AnnouncesRecorded` of `TrailInv` then has a row
for that status in what the commit appends, so the larger number grows with
the smaller one (`MovesAppended`, `GainsOne`, `CoveredGrows`).

**Handlers apart.** While no other handler works on its order, the copy that a
session has loaded *is* the stored row until it commits. `SerialOK` says so for
every slot and carries along what the session brings to its commit (`Plan`) and what
the commit has left (`Stored`); `ApartInv` adds the chain of every order
(`Chained`). The steps that write neither orders nor attempts fall into nine kinds
(`Effect`), each shown to keep `SerialOK` of its slot once. For the other slots the
question is what the commit of slot q can take from them: it writes one order and
the attempts of that order, and `Apart` says that theirs is another (`OtherOrder`,
`OtherCommit`). Then:

* `AuditChained` is a conjunct; the commit appends `Plan`'s rows, which start at
  the loaded status;
* `NotOfferedAgain`: from the moment a search has read the refusals of its order
  until it commits, none of those drivers is left for it to choose (`Spares`); a
  commit of another slot refuses nothing of this order (`OtherSpares`), and the
  search that follows a rejection in the same session reads after the commit;
* `ImplementsLifecycle`: the initial states are the abstract ones, a creation is
  `Create`, each `Plan` is one abstract move (`PATCH` to PICKED_UP is one `Advance`
  to IN_TRANSIT), everything else stutters;
* `ChannelAgrees`: the channel has the stored row, or some handler's announcement
  is due (`Told`), and what it announces is the row it has refreshed;
* `PendingHasTimer`: a waiting order has its timer, or is in the hands of a handler
  that will arm one or make the order wait no longer, or was PATCHed there, which
  the counts of its moves and attempts show for good (`TimerInv`, `Unoffered`). A
  rejection and a fired timer keep the order in hand through the commit and the
  search behind it;
* `GeoIndexAgrees`: the index lists who is dispatchable in the rows **as they will be
  after the commit** (`Expected`), except for the drivers whose entry the handler
  has still to write (`Behind`). Each slot answers for the drivers that no other
  slot writes (`Own`, `GeoAll`), and hands them over when it lets go of them
  (`OtherGeo`). `CopiesOK` relates loaded and stored driver rows: they may differ in
  `fresh` only.

**Lock.** Inductive as it stands, with `TypeInv`: the only step that makes a
session a holder is SET NX of a free key, and the only DEL is its own; a handler
that skips a taken lock does not run the `finally` of the one that took it.

**Breaker.** `CountsAgree` needs nothing else, but `TripsOnStreak` needs to know
that the count of a closed circuit *is* the current streak, also after a recovery
with late outcomes: `BreakerInv` adds `breaker.state = "CLOSED" =>
breaker.failures = streak`. With `CountsAgree` a half-open circuit has a count
at the threshold, from which `ReopensAtOnce` follows.

**Notifications.** `NotificationInv`: a channel without a key is untouched; an
execution that serves a channel holds its key and no other execution serves it
(`Owned`); and at each call it is known what has happened to that channel so far
(`Phase`). Retries, duplicates and redeliveries only ever go back to `queued`
and find the key. The last conjunct, `Bounds`, is the three properties.

`LossPerCrash` counts: `LossInv` says that the channels whose key is set, which are
not reached and which no execution is about to reach (`Orphans`) are at most as
many as the crashes. `Progress` is why nothing else makes an orphan: an execution is
past the channels before its own, whose keys are set, and leaves its channel only
when it is reached. A crash orphans at most the one channel that was being served.

**Metering.** Each invariant has a strengthening of its own, all on top of `TypeOK`.

* `Ranked` for `LimitsRespected`: INCR has returned each value of a counter to one
  request only of those counted in the window they have the name of
  (`RanksDiffer`), as the counter stands as long as its minute lasts; a request that is past the rate limit has a rank in
  1..limit, and an order that is past the quota one in 1..quota (`OwnRank`). Served
  requests of a period are then mapped one-to-one into an interval, whose
  cardinality is the limit. A rank is 0 before the INCR, which is why the name of the
  window may still change then; and the cache does not occur in the argument.
* `Unmarked` for `RefusalExplained`: while the row has no mark, no cache entry and
  no request knows one, and no request is behind the marking.
* `DeadForGood` for `DeadKeyRefused`: keys are at most `newest`, a rotation makes a key
  that nobody has used, so a dead key never becomes the tenant's again, and only
  `Authenticate` leads to the endpoints that ask for the tenant.
* `AllDue` for `CountersExpire`: it names the window whose expiry the request is
  about to set; a request moves from there only by setting it or by failing.

**Analytics.** `AnalyticsInv`: an execution that has not overlapped is the only one
that runs (`Solo`), so what it has read is what is stored (`UpToDate`); what the others
have read lies between the trips that were alone and all trips (`Within`), so
that what they write does. `TotalBounded` is inductive only with these. `Verdicts`
ties each end of an execution to its reason for `TripRecorded`.

**Connections.** Four invariants, each on top of the one before it.

* `BaseInv` for `OneListener`: the lists are made one after the other, each by a
  client of its own, so that there are never more than trackers; only the current one
  has members, and `redis_tasks` names its listener.
* `Members` for `Registered`: no list holds a client twice or one that has left,
  the stale ones have lost their connection for good, and who is connected is in the
  list that is served (`Present`).
* `Ordered` for `UpdatesInOrder`: for the message a listener works on, the clients
  behind its position have not been sent it (`Reached`), all others nothing newer.
  The position is an index into a list from which others remove clients meanwhile;
  who remains can only move to a smaller index, so nobody is sent it twice.
* `Bounded` for `SkipsBounded`: the connected clients before the position that were
  not sent the message are at most as many as have left since the broadcast began
  (`Fits`). That alone is not inductive: one more departure must not be able to
  push two clients before the position, hence the second inequality, which counts
  the positions too.

The lemmas at the top are about `Without`: what remains of a list is embedded in it
in the same order, at indices that are no larger. `SpanFacts` is about the messages
that a listener sends on after it has cancelled itself.

### Only model-checked

* Liveness: `HandlersEnd`, `OfferSettles`, `Recovers`, `EveryChannelReached`,
  `DeadKeyForgotten`. The prover handles neither fairness nor ENABLED here.
* The three violations of section 5: each is a counterexample that TLC finds.

---

## 7. Reading the counterexamples

`cancel_race`: an order is created; PATCH and `trigger_assignment` both load it
(CREATED); PATCH commits CANCELLED; the trigger searches, finds the driver and
commits `status = DRIVER_PENDING`, because *its* copy changed from CREATED to that.
The audit trail has both rows, each legal by itself, and does not chain.

`double_assignment`: two orders are created, both are offered to the only driver
(its row says ONLINE and available until it accepts), and it accepts both.

`fleet_view`: the fleet client connects and stays, no tracker comes, and no
listener ever exists: every message of the channel passes the node by.

---

## 8. Not modelled, and why

* **Route service.** As the code stands the provider call always raises and so
  does `get_route`; its caches are written only after it returns. The dispatch
  model uses the fact that a ping with active orders fails.
* **Authentication, health checks, metrics, schemas, configuration, logging,
  frontend, deployment.** No state of their own that a property could relate, or
  not the program's logic.
* **Data of the analytics tables.** Distances, times, rates and ratings are computed
  from rows and stored; no handler decides anything by them. The races of their
  read-modify-write are those of `total_deliveries`, which is modelled.
* **Hourly aggregation** (`tasks/analytics.py:168-210`). It copies a counter of the
  metering into a row that no decision reads; what the row holds depends on two
  readings of the clock and the counter with awaits between them, so there is no
  relation between rows that the code would keep.
* **Several tenants, deliveries or nodes at once.** Tenants meet in no counter or
  row; deliveries meet in the fleet list alone; a node's connections are its own.
* **The connection gauge.** `accept()` that raises after the gauge was
  incremented leaves it too high; nothing reads the gauge.

## 9. Plan

Each module is written to be proved about (constants with assumptions, one action
per await, no RECURSIVE).

| Step | Module | Questions | Proofs |
| --- | --- | --- | --- |
| 1, done | the dispatch core | section 3 | all safety |
| 2, done | `CircuitBreaker` | section 3 | all safety |
| 3, done | `Notifications` | section 3 | all safety |
| 4, done | `Metering` with key rotation | section 3 | all safety |
| 5, done | `Analytics` | section 3 | all safety |
| 6, done | `ConnectionManager` | section 3 | all safety |
| 7, done | handlers of the core that are apart | section 3 | the refinement of `OrderLifecycle`, agreement of the stores |
| 8 | `RouteService` over `CircuitBreaker`, once `call_async` can return | what the two caches promise to their readers | — |
