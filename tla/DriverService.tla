--------------------------- MODULE DriverService ---------------------------
(***************************************************************************)
(* services/driver_service.py and the ghost-driver loop of                 *)
(* tasks/cleanup.py.                                                       *)
(***************************************************************************)
EXTENDS Store

\* update_location of a driver without active orders.  With active orders the
\* handler calls recalculate_eta, which raises because call_async does (module
\* CircuitBreaker): that request changes nothing here.  What was loaded and
\* modified before is dropped by the refresh of the next step.
UpdateLocation(p, d) ==
  /\ ActiveOrders(d) = {}
  /\ Begin(p, [Idle EXCEPT !.pc = "reload", !.op = "Ping", !.ask = d])
  /\ UNCHANGED <<tables, redis, tasks>>

\* The row after a ping that is persisted.
Pinged(row) ==
  [row EXCEPT !.status = IF @ = "OFFLINE" THEN "ONLINE" ELSE @,
              !.located = TRUE, !.fresh = TRUE]

\* The ping need not be persisted: no change of status, a position on record,
\* moved at most 20 m, and an UPDATE in the last 10 s.
MaySkipWrite(row) == row.status # "OFFLINE" /\ row.located /\ row.fresh

\* refresh(driver), then the resolved status and the persistence rules.  A
\* persisted ping writes updated_at, so the loaded last_seen_at counts as old.
ReloadDriver(p) ==
  LET s == sess[p]
      row == drivers[s.ask]
      persist == [s EXCEPT
        !.pc = "reindex", !.drv = [@ EXCEPT ![s.ask] = [row EXCEPT !.fresh = FALSE]],
        !.dnow = [@ EXCEPT ![s.ask] = Pinged(row)]]
      skip == [s EXCEPT
        !.pc = "reindex", !.drv = [@ EXCEPT ![s.ask] = row],
        !.dnow = [@ EXCEPT ![s.ask] = row]]
  IN  /\ s.pc = "reload"
      /\ \/ Continue(p, persist)
         \/ MaySkipWrite(row) /\ Continue(p, skip)
      /\ UNCHANGED <<tables, redis, tasks>>

\* update_availability.
UpdateAvailability(p, d, flag) ==
  /\ Begin(p, [Idle EXCEPT !.pc = "reindex", !.op = "Availability", !.ask = d,
                 !.drv = [@ EXCEPT ![d] = drivers[d]],
                 !.dnow = [@ EXCEPT ![d] = [drivers[d] EXCEPT !.available = flag]]])
  /\ UNCHANGED <<tables, redis, tasks>>

\* GEOADD or ZREM, decided on the session's row and done before the commit.
Reindex(p) ==
  LET s == sess[p]
  IN  /\ s.pc = "reindex"
      /\ geo' = IF Dispatchable(s.dnow[s.ask]) THEN geo \cup {s.ask} ELSE geo \ {s.ask}
      /\ Continue(p, [s EXCEPT !.pc = "store"])
      /\ UNCHANGED <<tables, locks, channel, tasks>>

\* The commit of the three driver handlers ends their session.
StoreDriver(p) ==
  LET s == sess[p]
  IN  /\ s.pc = "store"
      /\ drivers' = WriteDrivers(s)
      /\ Continue(p, Idle)
      /\ UNCHANGED <<orders, attempts, audit, redis, tasks>>

-----------------------------------------------------------------------------
(* ghost_driver_cleanup_loop *)

Ghosts == {d \in Drivers : drivers[d].status = "ONLINE" /\ ~ drivers[d].fresh}

\* Ninety seconds pass without an UPDATE of an ONLINE driver.
GrowStale(d) ==
  /\ drivers[d].status = "ONLINE" /\ drivers[d].fresh
  /\ drivers' = [drivers EXCEPT ![d].fresh = FALSE]
  /\ UNCHANGED <<orders, attempts, audit, redis, tasks, sess, issued>>

\* One round of the loop loads the ghosts and changes them.
SweepGhosts(p) ==
  /\ Ghosts # {}
  /\ sess[p].pc = "idle"
  /\ Continue(p, [Idle EXCEPT !.pc = "purge", !.op = "Sweep", !.cand = Ghosts,
       !.drv = [d \in Drivers |-> IF d \in Ghosts THEN drivers[d] ELSE NewDriver],
       !.dnow = [d \in Drivers |->
                   IF d \in Ghosts
                   THEN [drivers[d] EXCEPT !.status = "OFFLINE", !.available = FALSE]
                   ELSE NewDriver]])
  /\ UNCHANGED <<tables, redis, tasks>>

\* A ZREM for each ghost; all are committed together afterwards.
PurgeGhost(p, d) ==
  LET s == sess[p]
  IN  /\ s.pc = "purge"
      /\ d \in s.cand
      /\ geo' = geo \ {d}
      /\ Continue(p, [s EXCEPT !.cand = @ \ {d},
                               !.pc = IF s.cand = {d} THEN "store" ELSE "purge"])
      /\ UNCHANGED <<tables, locks, channel, tasks>>
=============================================================================
