------------------------------ MODULE Metering ------------------------------
(***************************************************************************)
(* middleware/metering.py in front of the endpoints, dependencies/auth.py   *)
(* and the key rotation of api/analytics.py, for one tenant.               *)
(*                                                                         *)
(* A request is a coroutine: each action ends where it awaits Redis or     *)
(* PostgreSQL, and what it has read is used in later actions.  API keys    *)
(* are numbered in the order in which they are generated.                  *)
(*                                                                         *)
(* The counter of a minute expires, also under requests that have taken    *)
(* its name and not yet counted.  A call takes less than a day: those of a *)
(* day and a month (2 days from the last request, 35 days from the first)  *)
(* expire after the last call that uses them.                              *)
(***************************************************************************)
EXTENDS Naturals, FiniteSets

CONSTANTS
  Requests,          \* requests that carry an API key of the tenant
  RateLimit,         \* rate_limit_per_minute
  MonthlyQuota,      \* monthly_quota
  Length,            \* minutes in a day and a month of the model's clock
  MaxMinute,         \* bound on the clock
  MaxRotations       \* bound on the number of keys generated

\* The periods that requests are counted in.
Windows == {"minute", "day", "month"}

ASSUME MeteringAssumption ==
  /\ RateLimit \in Nat /\ MonthlyQuota \in Nat
  /\ Length \in [Windows -> Nat \ {0}] /\ Length["minute"] = 1
  /\ MaxMinute \in Nat /\ MaxRotations \in Nat

Keys    == 0..MaxRotations
Minutes == 0..MaxMinute

VARIABLES
  apiKey,    \* tenants.api_key
  mark,      \* tenants.quota_exceeded_at: "open" while it is null
  newest,    \* the last key generated
  cache,     \* Redis tenant:key:<key>: what it says of the mark, or "none"
  count,     \* Redis limit:<minute>, usage:<date>, usage:monthly:<month>
  expiring,  \* the counters that have an expiry
  now,       \* the minute of the clock
  req        \* the requests

vars == <<apiKey, mark, newest, cache, count, expiring, now, req>>
store == <<apiKey, mark, newest, cache, count, expiring, now>>

\* What is asked for: an order, a new key, something of api/drivers.py, for which
\* no tenant is needed, or anything else of the tenant's.
Kinds   == {"create", "rotate", "driver", "other"}
Marks   == {"open", "exceeded"}
Over    == {"unauthorized", "limited", "blocked", "served", "failed"}
\* The call a request makes next.
Awaiting == {"lookup", "select", "fill", "incrMinute", "expireMinute", "incrDay",
             "expireDay", "incrMonth", "expireMonth", "mark", "uncache",
             "authenticate", "endpoint", "evict", "reply"}

\* The counter of window w that request p counts in: the window's name is taken
\* from the clock before the INCR.
Counter(p, w) == <<w, req[p].at[w]>>
Counters      == Windows \X Minutes
Current(w)    == now \div Length[w]

Init ==
  /\ apiKey = 0 /\ mark = "open" /\ newest = 0
  /\ cache = [k \in Keys |-> "none"]
  /\ count = [c \in Counters |-> 0]
  /\ expiring = {}
  /\ now = 0
  /\ req = [p \in Requests |->
             [pc |-> "new", kind |-> "other", key |-> 0, deadOnArrival |-> FALSE,
              seen |-> "open", at |-> [w \in Windows |-> 0],
              rank |-> [w \in Windows |-> 0], counted |-> 0, newKey |-> 0]]

Goto(p, pc) == req' = [req EXCEPT ![p].pc = pc]

\* Keys that a client holds: the first one, and those that rotations returned.
Held == {0} \cup {req[p].newKey : p \in {q \in Requests : req[q].pc = "served"}}

-----------------------------------------------------------------------------
(* The tenant of the key: cache aside *)

Arrive(p) ==
  /\ req[p].pc = "new"
  /\ \E k \in Held, kind \in Kinds :
       req' = [req EXCEPT ![p].pc = "lookup", ![p].kind = kind, ![p].key = k,
                          ![p].deadOnArrival = k # apiKey]
  /\ UNCHANGED store

\* The tenant is known, m is what is known of its mark; current_minute is taken.
Identified(p, m) ==
  req' = [req EXCEPT ![p].pc = "incrMinute", ![p].seen = m,
                     ![p].at["minute"] = Current("minute")]

\* GET tenant:key.
Lookup(p) ==
  /\ req[p].pc = "lookup"
  /\ IF cache[req[p].key] # "none" THEN Identified(p, cache[req[p].key])
                                   ELSE Goto(p, "select")
  /\ UNCHANGED store

\* A miss: the row with this key.
SelectTenant(p) ==
  /\ req[p].pc = "select"
  /\ IF req[p].key = apiKey
     THEN req' = [req EXCEPT ![p].pc = "fill", ![p].seen = mark]
     ELSE Goto(p, "unauthorized")
  /\ UNCHANGED store

\* SETEX for 300 s, of what was read before.
Fill(p) ==
  /\ req[p].pc = "fill"
  /\ cache' = [cache EXCEPT ![req[p].key] = req[p].seen]
  /\ Identified(p, req[p].seen)
  /\ UNCHANGED <<apiKey, mark, newest, count, expiring, now>>

-----------------------------------------------------------------------------
(* Rate limit and quota *)

\* Mutant: GET and SET instead of INCR, by a client that saw no other request.
IncrMinute_Stale(p) ==
  /\ req[p].pc = "incrMinute"
  /\ \E n \in {1, count[Counter(p, "minute")] + 1} :
       /\ count' = [count EXCEPT ![Counter(p, "minute")] = n]
       /\ req' = [req EXCEPT ![p].rank["minute"] = n, ![p].counted = now,
                             ![p].at["day"] = Current("day"),
                             ![p].pc = IF n = 1 THEN "expireMinute"
                                       ELSE IF n > RateLimit THEN "limited" ELSE "incrDay"]
  /\ UNCHANGED <<apiKey, mark, newest, cache, expiring, now>>

\* After the counter of the minute: 429, or date_key is taken for the INCR of
\* the day's.
AfterMinute(rank) == IF rank > RateLimit THEN "limited" ELSE "incrDay"

\* INCR limit:<minute>; counted is history: when that was.
IncrMinute(p) ==
  /\ req[p].pc = "incrMinute"
  /\ LET n == count[Counter(p, "minute")] + 1 IN
       /\ count' = [count EXCEPT ![Counter(p, "minute")] = n]
       /\ req' = [req EXCEPT ![p].rank["minute"] = n, ![p].counted = now,
                             ![p].at["day"] = Current("day"),
                             ![p].pc = IF n = 1 THEN "expireMinute" ELSE AfterMinute(n)]
  /\ UNCHANGED <<apiKey, mark, newest, cache, expiring, now>>

\* Mutant: the expiry is left to Redis.
ExpireMinute_Forgotten(p) ==
  /\ req[p].pc = "expireMinute"
  /\ req' = [req EXCEPT ![p].pc = AfterMinute(req[p].rank["minute"]),
                        ![p].at["day"] = Current("day")]
  /\ UNCHANGED store

\* EXPIRE, by the first request of the minute.
ExpireMinute(p) ==
  /\ req[p].pc = "expireMinute"
  /\ expiring' = expiring \cup {Counter(p, "minute")}
  /\ req' = [req EXCEPT ![p].pc = AfterMinute(req[p].rank["minute"]),
                        ![p].at["day"] = Current("day")]
  /\ UNCHANGED <<apiKey, mark, newest, cache, count, now>>

\* INCR usage:<date>.
IncrDay(p) ==
  /\ req[p].pc = "incrDay"
  /\ count' = [count EXCEPT ![Counter(p, "day")] = @ + 1]
  /\ Goto(p, "expireDay")
  /\ UNCHANGED <<apiKey, mark, newest, cache, expiring, now>>

\* EXPIRE, by every request; current_month is taken.
ExpireDay(p) ==
  /\ req[p].pc = "expireDay"
  /\ expiring' = expiring \cup {Counter(p, "day")}
  /\ req' = [req EXCEPT ![p].pc = "incrMonth", ![p].at["month"] = Current("month")]
  /\ UNCHANGED <<apiKey, mark, newest, cache, count, now>>

\* The endpoint depends on get_current_tenant, unless it is a driver's.
Admit(kind) == IF kind = "driver" THEN "endpoint" ELSE "authenticate"

\* Over the quota an order creation gets 403, everything else goes on.
Verdict(kind) == IF kind = "create" THEN "blocked" ELSE Admit(kind)

\* Mutant: the quota is compared with the usage before this request.
AfterMonth_Before(kind, seen, usage) ==
  IF usage <= MonthlyQuota + 1 THEN Admit(kind)
  ELSE IF seen = "open" THEN "mark"
  ELSE Verdict(kind)

\* Mutant: the order is refused before the tenant is marked.
AfterMonth_Unmarked(kind, seen, usage) ==
  IF usage <= MonthlyQuota THEN Admit(kind)
  ELSE IF seen = "open" /\ kind # "create" THEN "mark"
  ELSE Verdict(kind)

\* After the counter of the month: within the quota the endpoint; over it, the
\* mark is set first, unless the tenant that was read has it already.
AfterMonth(kind, seen, usage) ==
  IF usage <= MonthlyQuota THEN Admit(kind)
  ELSE IF seen = "open" THEN "mark"
  ELSE Verdict(kind)

\* INCR usage:monthly:<month>.
IncrMonth(p) ==
  /\ req[p].pc = "incrMonth"
  /\ LET n == count[Counter(p, "month")] + 1 IN
       /\ count' = [count EXCEPT ![Counter(p, "month")] = n]
       /\ req' = [req EXCEPT ![p].rank["month"] = n,
                             ![p].pc = IF n = 1 THEN "expireMonth"
                                       ELSE AfterMonth(req[p].kind, req[p].seen, n)]
  /\ UNCHANGED <<apiKey, mark, newest, cache, expiring, now>>

\* EXPIRE, by the first request of the month.
ExpireMonth(p) ==
  /\ req[p].pc = "expireMonth"
  /\ expiring' = expiring \cup {Counter(p, "month")}
  /\ Goto(p, AfterMonth(req[p].kind, req[p].seen, req[p].rank["month"]))
  /\ UNCHANGED <<apiKey, mark, newest, cache, count, now>>

\* quota_exceeded_at is set, if it is null, by the tenant's id.
MarkExceeded(p) ==
  /\ req[p].pc = "mark"
  /\ mark' = "exceeded"
  /\ Goto(p, "uncache")
  /\ UNCHANGED <<apiKey, newest, cache, count, expiring, now>>

\* DEL tenant:key.
Uncache(p) ==
  /\ req[p].pc = "uncache"
  /\ cache' = [cache EXCEPT ![req[p].key] = "none"]
  /\ Goto(p, Verdict(req[p].kind))
  /\ UNCHANGED <<apiKey, mark, newest, count, expiring, now>>

-----------------------------------------------------------------------------
(* Behind the middleware *)

\* Mutant: the tenant that the middleware has found is trusted.
Authenticate_Trusts(p) ==
  /\ req[p].pc = "authenticate"
  /\ Goto(p, "endpoint")
  /\ UNCHANGED store

\* get_current_tenant asks the database again.
Authenticate(p) ==
  /\ req[p].pc = "authenticate"
  /\ Goto(p, IF req[p].key = apiKey THEN "endpoint" ELSE "unauthorized")
  /\ UNCHANGED store

\* An endpoint other than the rotation.
Serve(p) ==
  /\ req[p].pc = "endpoint" /\ req[p].kind # "rotate"
  /\ Goto(p, "served")
  /\ UNCHANGED store

\* Mutant: the key is one that was not generated yet.
RotateKey_Ahead(p) ==
  /\ req[p].pc = "endpoint" /\ req[p].kind = "rotate"
  /\ newest < MaxRotations
  /\ apiKey' = newest + 1
  /\ req' = [req EXCEPT ![p].pc = "evict", ![p].newKey = apiKey']
  /\ UNCHANGED <<newest, mark, cache, count, expiring, now>>

\* rotate_tenant_api_key: the new key is committed to the row that was loaded
\* by the old one, whatever key it has by now.
RotateKey(p) ==
  /\ req[p].pc = "endpoint" /\ req[p].kind = "rotate"
  /\ newest < MaxRotations
  /\ newest' = newest + 1 /\ apiKey' = newest'
  /\ req' = [req EXCEPT ![p].pc = "evict", ![p].newKey = newest']
  /\ UNCHANGED <<mark, cache, count, expiring, now>>

\* DEL of the old key's entry.
Evict(p) ==
  /\ req[p].pc = "evict"
  /\ cache' = [cache EXCEPT ![req[p].key] = "none"]
  /\ Goto(p, "reply")
  /\ UNCHANGED <<apiKey, mark, newest, count, expiring, now>>

\* The response carries new_key.
Reply(p) ==
  /\ req[p].pc = "reply"
  /\ Goto(p, "served")
  /\ UNCHANGED store

-----------------------------------------------------------------------------
(* Specification *)

\* A call raises, or the node is lost: 500, or no answer.  A call that was
\* executed although it raised is the step before.
Fail(p) ==
  /\ req[p].pc \in Awaiting
  /\ Goto(p, "failed")
  /\ UNCHANGED store

\* Mutant: SET instead of SETEX.
ExpireEntry_Never(k) == FALSE /\ cache[k] # "none" /\ UNCHANGED vars

\* Redis drops an entry 300 s after it was set.
ExpireEntry(k) ==
  /\ cache[k] # "none"
  /\ cache' = [cache EXCEPT ![k] = "none"]
  /\ UNCHANGED <<apiKey, mark, newest, count, expiring, now, req>>

\* Mutant: the counter of the running minute may be gone.
ExpireCounter_Early(t) ==
  /\ <<"minute", t>> \in expiring
  /\ count' = [count EXCEPT ![<<"minute", t>>] = 0]
  /\ expiring' = expiring \ {<<"minute", t>>}
  /\ UNCHANGED <<apiKey, mark, newest, cache, now, req>>

\* Redis drops the counter of a minute 60 s after its EXPIRE, in a later minute at
\* the earliest.
ExpireCounter(t) ==
  /\ <<"minute", t>> \in expiring /\ now > t
  /\ count' = [count EXCEPT ![<<"minute", t>>] = 0]
  /\ expiring' = expiring \ {<<"minute", t>>}
  /\ UNCHANGED <<apiKey, mark, newest, cache, now, req>>

Tick ==
  /\ now < MaxMinute
  /\ now' = now + 1
  /\ UNCHANGED <<apiKey, mark, newest, cache, count, expiring, req>>

Step(p) ==
  \/ Lookup(p) \/ SelectTenant(p) \/ Fill(p)
  \/ IncrMinute(p) \/ ExpireMinute(p) \/ IncrDay(p) \/ ExpireDay(p)
  \/ IncrMonth(p) \/ ExpireMonth(p)
  \/ MarkExceeded(p) \/ Uncache(p)
  \/ Authenticate(p) \/ Serve(p) \/ RotateKey(p) \/ Evict(p) \/ Reply(p)

Next ==
  \/ \E p \in Requests : Arrive(p) \/ Step(p) \/ Fail(p)
  \/ \E k \in Keys : ExpireEntry(k)
  \/ \E t \in Minutes : ExpireCounter(t)
  \/ Tick

Spec == Init /\ [][Next]_vars

\* Coroutines go on, and entries reach the end of their time to live.
FairSpec ==
  /\ Spec
  /\ \A p \in Requests : WF_vars(Step(p))
  /\ \A k \in Keys : WF_vars(ExpireEntry(k))

-----------------------------------------------------------------------------
(* Properties *)

TypeOK ==
  /\ newest \in Keys /\ apiKey \in 0..newest
  /\ mark \in Marks
  /\ cache \in [Keys -> Marks \cup {"none"}]
  /\ count \in [Counters -> Nat]
  /\ expiring \subseteq Counters
  /\ now \in Minutes
  /\ req \in [Requests -> [pc : Awaiting \cup Over \cup {"new"}, kind : Kinds,
                           key : Keys, deadOnArrival : BOOLEAN, seen : Marks,
                           at : [Windows -> Minutes], rank : [Windows -> Nat],
                           counted : Minutes, newKey : Keys]]

Served(w, t) == {p \in Requests : req[p].pc = "served" /\ req[p].at[w] = t}

\* However requests overlap, and whatever entry of the cache they have read, no
\* minute serves more requests that were counted in it than the rate limit, and no
\* month creates more orders than the quota.  A request that took the name of a
\* minute and was counted after it may come on top: its counter may have expired.
LimitsRespected ==
  \A t \in Minutes :
    /\ Cardinality({p \in Served("minute", t) : req[p].counted = t}) <= RateLimit
    /\ Cardinality({p \in Served("month", t) : req[p].kind = "create"}) <= MonthlyQuota

\* No order is refused for the quota before the tenant is marked as over it, so
\* that the portal explains each refusal.
RefusalExplained ==
  \A p \in Requests : req[p].pc = "blocked" => mark = "exceeded"

\* A request that arrives with a key that was rotated away reaches no endpoint of
\* the tenant's, although the middleware may let it pass on an entry written back
\* too late.  Those of drivers ask for no tenant and serve it.
DeadKeyRefused ==
  \A p \in Requests :
    req[p].deadOnArrival /\ req[p].kind # "driver"
      => req[p].pc \notin {"endpoint", "evict", "reply", "served"}

\* A counter stays without an expiry only while the request that has to set it
\* is about to, or because it has failed there.
CountersExpire ==
  \A c \in Counters \ expiring :
    count[c] > 0 =>
      \E p \in Requests : /\ Counter(p, c[1]) = c
                          /\ req[p].pc \in {"expireMinute", "expireDay", "expireMonth", "failed"}

\* A key that was rotated away is finally forgotten, though the DEL may come
\* before the SETEX of a request that still read the row, may be lost, and, when
\* two rotations overlap, is that of another key.
DeadKeyForgotten ==
  \A k \in Keys : k < apiKey ~> [](cache[k] = "none")
=============================================================================
