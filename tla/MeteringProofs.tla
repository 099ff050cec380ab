--------------------------- MODULE MeteringProofs ---------------------------
(***************************************************************************)
(* Theorems about Metering, for any number of requests, limit, quota,      *)
(* calendar, clock and number of rotations.                                *)
(***************************************************************************)
EXTENDS Metering, FiniteSetTheorems, TLAPS

PcNames  == Awaiting \cup Over \cup {"new"}
Request  == [pc : PcNames, kind : Kinds, key : Keys, deadOnArrival : BOOLEAN,
             seen : Marks, at : [Windows -> Minutes], rank : [Windows -> Nat],
             counted : Minutes, newKey : Keys]

\* What a request does by itself.
Move(p) == Arrive(p) \/ Step(p) \/ Fail(p)

\* Request p becomes r.
Becomes(p, r) == req' = [req EXCEPT ![p] = r]

-----------------------------------------------------------------------------
(* What the actions do to a request *)

LEMMA BecomesEffect ==
  ASSUME req \in [Requests -> Request], NEW p \in Requests, NEW r \in Request,
         Becomes(p, r)
  PROVE  /\ req' \in [Requests -> Request] /\ req'[p] = r
         /\ \A q \in Requests \ {p} : req'[q] = req[q]
BY DEF Becomes

LEMMA GotoEffect ==
  ASSUME req \in [Requests -> Request], NEW p \in Requests, NEW pc, Goto(p, pc)
  PROVE  Becomes(p, [req[p] EXCEPT !.pc = pc])
BY DEF Goto, Becomes, Request

LEMMA ArriveEffect ==
  ASSUME req \in [Requests -> Request], NEW p \in Requests, Arrive(p)
  PROVE  \E k \in Held, kind \in Kinds :
           Becomes(p, [req[p] EXCEPT !.pc = "lookup", !.kind = kind, !.key = k,
                                     !.deadOnArrival = (k # apiKey)])
<1>1. PICK k \in Held, kind \in Kinds :
        req' = [req EXCEPT ![p].pc = "lookup", ![p].kind = kind, ![p].key = k,
                           ![p].deadOnArrival = k # apiKey]
  BY DEF Arrive
<1>2. \A d : req' = [req EXCEPT ![p].pc = "lookup", ![p].kind = kind, ![p].key = k,
                                ![p].deadOnArrival = d]
              => Becomes(p, [req[p] EXCEPT !.pc = "lookup", !.kind = kind, !.key = k,
                                           !.deadOnArrival = d])
  BY DEF Becomes, Request
<1> QED BY <1>1, <1>2, Zenon

LEMMA IdentifiedEffect ==
  ASSUME req \in [Requests -> Request], NEW p \in Requests, NEW m, Identified(p, m)
  PROVE  Becomes(p, [req[p] EXCEPT !.pc = "incrMinute", !.seen = m,
                       !.at = [req[p].at EXCEPT !["minute"] = Current("minute")]])
BY DEF Identified, Becomes, Request

LEMMA SelectEffect ==
  ASSUME req \in [Requests -> Request], NEW p \in Requests, SelectTenant(p),
         req[p].key = apiKey
  PROVE  Becomes(p, [req[p] EXCEPT !.pc = "fill", !.seen = mark])
BY DEF SelectTenant, Becomes, Request

\* Request p after the INCR that has returned n.
MinuteCounted(p, n) ==
  [req[p] EXCEPT !.pc = IF n = 1 THEN "expireMinute" ELSE AfterMinute(n),
                 !.at = [req[p].at EXCEPT !["day"] = Current("day")],
                 !.rank = [req[p].rank EXCEPT !["minute"] = n], !.counted = now]
MonthCounted(p, n) ==
  [req[p] EXCEPT !.pc = IF n = 1 THEN "expireMonth"
                        ELSE AfterMonth(req[p].kind, req[p].seen, n),
                 !.rank = [req[p].rank EXCEPT !["month"] = n]]

LEMMA IncrMinuteEffect ==
  ASSUME req \in [Requests -> Request], NEW p \in Requests, IncrMinute(p)
  PROVE  Becomes(p, MinuteCounted(p, count[Counter(p, "minute")] + 1))
<1>1. ASSUME NEW n,
             req' = [req EXCEPT ![p].rank["minute"] = n, ![p].counted = now,
                                ![p].at["day"] = Current("day"),
                                ![p].pc = IF n = 1 THEN "expireMinute" ELSE AfterMinute(n)]
      PROVE  Becomes(p, MinuteCounted(p, n))
  <2> DEFINE pc == IF n = 1 THEN "expireMinute" ELSE AfterMinute(n)
             day == Current("day")
  <2>1. req' = [req EXCEPT ![p].rank["minute"] = n, ![p].counted = now,
                           ![p].at["day"] = day, ![p].pc = pc]
    BY <1>1
  <2> HIDE DEF pc, day
  <2>2. req' = [req EXCEPT ![p] = [req[p] EXCEPT !.pc = pc,
                             !.at = [req[p].at EXCEPT !["day"] = day],
                             !.rank = [req[p].rank EXCEPT !["minute"] = n],
                             !.counted = now]]
    BY <2>1 DEF Request
  <2> QED BY <2>2 DEF Becomes, MinuteCounted, pc, day
<1> QED BY <1>1 DEF IncrMinute

LEMMA ExpireMinuteEffect ==
  ASSUME req \in [Requests -> Request], NEW p \in Requests, ExpireMinute(p)
  PROVE  Becomes(p, [req[p] EXCEPT !.pc = AfterMinute(req[p].rank["minute"]),
                       !.at = [req[p].at EXCEPT !["day"] = Current("day")]])
BY DEF ExpireMinute, Becomes, Request

LEMMA ExpireDayEffect ==
  ASSUME req \in [Requests -> Request], NEW p \in Requests, ExpireDay(p)
  PROVE  Becomes(p, [req[p] EXCEPT !.pc = "incrMonth",
                       !.at = [req[p].at EXCEPT !["month"] = Current("month")]])
BY DEF ExpireDay, Becomes, Request

LEMMA IncrMonthEffect ==
  ASSUME req \in [Requests -> Request], NEW p \in Requests, IncrMonth(p)
  PROVE  Becomes(p, MonthCounted(p, count[Counter(p, "month")] + 1))
BY DEF IncrMonth, Becomes, MonthCounted, Request

LEMMA RotateKeyEffect ==
  ASSUME req \in [Requests -> Request], NEW p \in Requests, RotateKey(p)
  PROVE  Becomes(p, [req[p] EXCEPT !.pc = "evict", !.newKey = newest'])
BY DEF RotateKey, Becomes, Request

-----------------------------------------------------------------------------
(* Types *)

LEMMA CurrentType ==
  ASSUME now \in Minutes, NEW w \in Windows PROVE Current(w) \in Minutes
<1>1. now \in Nat /\ now <= MaxMinute /\ Length[w] \in Nat \ {0}
  BY MeteringAssumption DEF Minutes
<1>2. \A n \in Nat, d \in Nat \ {0} : n \div d \in Nat /\ n \div d <= n
  OBVIOUS
<1> QED BY <1>1, <1>2, MeteringAssumption DEF Current, Minutes

LEMMA CountersAreTyped ==
  ASSUME TypeOK, NEW p \in Requests, NEW w \in Windows
  PROVE  Counter(p, w) \in Counters /\ Counter(p, w) = <<w, req[p].at[w]>>
BY DEF TypeOK, Counter, Counters

LEMMA HeldType ==
  ASSUME TypeOK PROVE Held \subseteq Keys
BY MeteringAssumption DEF TypeOK, Held, Keys

LEMMA WindowNames == /\ "minute" \in Windows /\ "day" \in Windows /\ "month" \in Windows
BY DEF Windows

\* A step that sets the call that comes next and nothing else of a request.
LEMMA GotoType ==
  ASSUME TypeOK, NEW p \in Requests, NEW pc \in PcNames, Goto(p, pc)
  PROVE  req' \in [Requests -> Request]
<1>1. req \in [Requests -> Request]
  BY DEF TypeOK, Request, PcNames
<1>2. [req[p] EXCEPT !.pc = pc] \in Request
  BY <1>1 DEF Request
<1> QED BY <1>1, <1>2, GotoEffect, BecomesEffect

LEMMA VerdictTypes ==
  /\ \A kind \in Kinds : Verdict(kind) \in PcNames
  /\ \A rank \in Nat : AfterMinute(rank) \in PcNames
  /\ \A kind \in Kinds, seen \in Marks, usage \in Nat :
       AfterMonth(kind, seen, usage) \in PcNames
BY DEF Verdict, Admit, AfterMinute, AfterMonth, PcNames, Awaiting, Over

LEMMA CallNames == Awaiting \subseteq PcNames /\ Over \subseteq PcNames
BY DEF PcNames

LEMMA LookupTypes ==
  ASSUME TypeOK, NEW p \in Requests,
         Arrive(p) \/ Lookup(p) \/ SelectTenant(p) \/ Fill(p)
  PROVE  TypeOK'
<1>0. req \in [Requests -> Request] /\ req[p] \in Request
  BY DEF TypeOK, Request, PcNames
<1>00. {"lookup", "select", "fill", "incrMinute", "unauthorized"} \subseteq PcNames
  BY DEF PcNames, Awaiting, Over
<1>1. CASE Arrive(p)
  <2>1. PICK k \in Held, kind \in Kinds :
          Becomes(p, [req[p] EXCEPT !.pc = "lookup", !.kind = kind, !.key = k,
                                    !.deadOnArrival = (k # apiKey)])
    BY <1>0, <1>1, ArriveEffect
  <2>2. [req[p] EXCEPT !.pc = "lookup", !.kind = kind, !.key = k,
                       !.deadOnArrival = (k # apiKey)] \in Request
    <3>1. k \in Keys /\ (k # apiKey) \in BOOLEAN
      BY HeldType
    <3> DEFINE dead == k # apiKey
    <3> HIDE DEF dead
    <3>2. dead \in BOOLEAN
      BY <3>1 DEF dead
    <3>3. [req[p] EXCEPT !.pc = "lookup", !.kind = kind, !.key = k,
                         !.deadOnArrival = dead] \in Request
      BY <1>0, <1>00, <3>1, <3>2 DEF Request
    <3> QED BY <3>3 DEF dead
  <2>3. req' \in [Requests -> Request]
    BY <1>0, <2>1, <2>2, BecomesEffect
  <2> QED BY <1>1, <2>3 DEF TypeOK, Arrive, store, Request, PcNames
<1>2. \A m \in Marks : Identified(p, m) => req' \in [Requests -> Request]
  <2> SUFFICES ASSUME NEW m \in Marks, Identified(p, m)
               PROVE  req' \in [Requests -> Request]
    OBVIOUS
  <2>1. Current("minute") \in Minutes
    BY CurrentType, WindowNames DEF TypeOK
  <2>2. [req[p] EXCEPT !.pc = "incrMinute", !.seen = m,
           !.at = [req[p].at EXCEPT !["minute"] = Current("minute")]] \in Request
    BY <1>0, <1>00, <2>1 DEF Request
  <2> QED BY <1>0, <2>2, IdentifiedEffect, BecomesEffect
<1>3. CASE Lookup(p)
  <2>1. UNCHANGED store
    BY <1>3 DEF Lookup
  <2>2. req' \in [Requests -> Request]
    <3>1. CASE cache[req[p].key] = "none"
      BY <1>00, <1>3, <3>1, GotoType DEF Lookup
    <3>2. CASE cache[req[p].key] # "none"
      <4>1. cache[req[p].key] \in Marks
        BY <3>2 DEF TypeOK
      <4> QED BY <1>2, <1>3, <3>2, <4>1 DEF Lookup
    <3> QED BY <3>1, <3>2
  <2> QED BY <2>1, <2>2 DEF TypeOK, store, Request, PcNames
<1>4. CASE SelectTenant(p)
  <2>1. UNCHANGED store
    BY <1>4 DEF SelectTenant
  <2>2. req' \in [Requests -> Request]
    <3>1. CASE req[p].key = apiKey
      <4>0. mark \in Marks /\ "fill" \in PcNames /\ req[p] \in Request
        BY <1>0, <1>00 DEF TypeOK
      <4>1. [req[p] EXCEPT !.pc = "fill", !.seen = mark] \in Request
        BY <4>0 DEF Request
      <4> QED BY <1>0, <1>4, <3>1, <4>1, SelectEffect, BecomesEffect
    <3>2. CASE req[p].key # apiKey
      BY <1>00, <1>4, <3>2, GotoType DEF SelectTenant
    <3> QED BY <3>1, <3>2
  <2> QED BY <2>1, <2>2 DEF TypeOK, store, Request, PcNames
<1>5. CASE Fill(p)
  <2>1. req[p].seen \in Marks
    BY <1>0 DEF Request
  <2>2. req' \in [Requests -> Request] /\ cache' \in [Keys -> Marks \cup {"none"}]
    BY <1>2, <1>5, <2>1 DEF TypeOK, Fill
  <2> QED BY <1>5, <2>2 DEF TypeOK, Fill, Request, PcNames
<1> QED BY <1>1, <1>3, <1>4, <1>5

LEMMA MinuteAndDayTypes ==
  ASSUME TypeOK, NEW p \in Requests,
         IncrMinute(p) \/ ExpireMinute(p) \/ IncrDay(p) \/ ExpireDay(p)
  PROVE  TypeOK'
<1>0. req \in [Requests -> Request]
  BY DEF TypeOK, Request, PcNames
<1>1. \A w \in Windows : Current(w) \in Minutes /\ Counter(p, w) \in Counters
  BY CurrentType, CountersAreTyped DEF TypeOK
<1>2. CASE IncrMinute(p)
  <2> DEFINE n == count[Counter(p, "minute")] + 1
  <2>1. n \in Nat
    BY <1>1, WindowNames DEF TypeOK
  <2>2. req' \in [Requests -> Request]
    <3>1. (IF n = 1 THEN "expireMinute" ELSE AfterMinute(n)) \in PcNames
      BY <2>1, VerdictTypes DEF PcNames, Awaiting
    <3>2. MinuteCounted(p, n) \in Request
      <4> HIDE DEF n
      <4>1. now \in Minutes
        BY DEF TypeOK
      <4> QED BY <1>0, <1>1, <2>1, <3>1, <4>1, WindowNames DEF MinuteCounted, Request
    <3> QED BY <1>0, <1>2, <3>2, IncrMinuteEffect, BecomesEffect
  <2>3. count' \in [Counters -> Nat]
    BY <1>1, <1>2, <2>1, WindowNames DEF TypeOK, IncrMinute
  <2> QED BY <1>2, <2>2, <2>3 DEF TypeOK, IncrMinute, Request, PcNames
<1>3. CASE ExpireMinute(p)
  <2>1. req' \in [Requests -> Request]
    <3>1. AfterMinute(req[p].rank["minute"]) \in PcNames
      BY VerdictTypes, WindowNames DEF TypeOK
    <3>2. [req[p] EXCEPT !.pc = AfterMinute(req[p].rank["minute"]),
             !.at = [req[p].at EXCEPT !["day"] = Current("day")]] \in Request
      BY <1>0, <1>1, <3>1, WindowNames DEF Request
    <3> QED BY <1>0, <1>3, <3>2, ExpireMinuteEffect, BecomesEffect
  <2> QED BY <1>1, <1>3, <2>1, WindowNames DEF TypeOK, ExpireMinute, Request, PcNames
<1>4. CASE IncrDay(p)
  <2>1. req' \in [Requests -> Request]
    BY <1>4, GotoType DEF IncrDay, PcNames, Awaiting
  <2>2. count' \in [Counters -> Nat]
    BY <1>1, <1>4, WindowNames DEF TypeOK, IncrDay
  <2> QED BY <1>4, <2>1, <2>2 DEF TypeOK, IncrDay, Request, PcNames
<1>5. CASE ExpireDay(p)
  <2>1. req' \in [Requests -> Request]
    <3>1. [req[p] EXCEPT !.pc = "incrMonth",
             !.at = [req[p].at EXCEPT !["month"] = Current("month")]] \in Request
      <4>1. "incrMonth" \in PcNames /\ req[p] \in Request
        BY <1>0, CallNames DEF Awaiting
      <4> QED BY <1>1, <4>1, WindowNames DEF Request
    <3> QED BY <1>0, <1>5, <3>1, ExpireDayEffect, BecomesEffect
  <2> QED BY <1>1, <1>5, <2>1, WindowNames DEF TypeOK, ExpireDay, Request, PcNames
<1> QED BY <1>2, <1>3, <1>4, <1>5

LEMMA MonthTypes ==
  ASSUME TypeOK, NEW p \in Requests,
         IncrMonth(p) \/ ExpireMonth(p) \/ MarkExceeded(p) \/ Uncache(p)
  PROVE  TypeOK'
<1>0. req \in [Requests -> Request]
  BY DEF TypeOK, Request, PcNames
<1>1. \A w \in Windows : Counter(p, w) \in Counters
  BY CountersAreTyped DEF TypeOK
<1>2. CASE IncrMonth(p)
  <2> DEFINE n == count[Counter(p, "month")] + 1
  <2>1. n \in Nat
    BY <1>1, WindowNames DEF TypeOK
  <2>2. req' \in [Requests -> Request]
    <3>1. (IF n = 1 THEN "expireMonth" ELSE AfterMonth(req[p].kind, req[p].seen, n))
            \in PcNames
      BY <2>1, VerdictTypes DEF TypeOK, PcNames, Awaiting
    <3>2. MonthCounted(p, n) \in Request
      <4> HIDE DEF n
      <4> QED BY <1>0, <2>1, <3>1, WindowNames DEF MonthCounted, Request
    <3> QED BY <1>0, <1>2, <3>2, IncrMonthEffect, BecomesEffect
  <2>3. count' \in [Counters -> Nat]
    BY <1>1, <1>2, <2>1, WindowNames DEF TypeOK, IncrMonth
  <2> QED BY <1>2, <2>2, <2>3 DEF TypeOK, IncrMonth, Request, PcNames
<1>3. CASE ExpireMonth(p)
  <2>1. AfterMonth(req[p].kind, req[p].seen, req[p].rank["month"]) \in PcNames
    BY VerdictTypes, WindowNames DEF TypeOK
  <2>2. req' \in [Requests -> Request]
    BY <1>3, <2>1, GotoType DEF ExpireMonth
  <2> QED BY <1>1, <1>3, <2>2, WindowNames DEF TypeOK, ExpireMonth, Request, PcNames
<1>4. CASE MarkExceeded(p)
  <2>1. req' \in [Requests -> Request]
    BY <1>4, GotoType DEF MarkExceeded, PcNames, Awaiting
  <2> QED BY <1>4, <2>1 DEF TypeOK, MarkExceeded, Request, PcNames, Marks
<1>5. CASE Uncache(p)
  <2>1. Verdict(req[p].kind) \in PcNames
    BY VerdictTypes DEF TypeOK
  <2>2. req' \in [Requests -> Request]
    BY <1>5, <2>1, GotoType DEF Uncache
  <2> QED BY <1>5, <2>2 DEF TypeOK, Uncache, Request, PcNames
<1> QED BY <1>2, <1>3, <1>4, <1>5

LEMMA EndpointTypes ==
  ASSUME TypeOK, NEW p \in Requests,
         \/ Authenticate(p) \/ Serve(p) \/ RotateKey(p) \/ Evict(p) \/ Reply(p)
         \/ Fail(p)
  PROVE  TypeOK'
<1>1. CASE Authenticate(p) \/ Serve(p) \/ Reply(p) \/ Fail(p)
  <2>1. UNCHANGED store
    BY <1>1 DEF Authenticate, Serve, Reply, Fail
  <2>2. \E pc \in PcNames : Goto(p, pc)
    BY <1>1 DEF Authenticate, Serve, Reply, Fail, PcNames, Awaiting, Over
  <2>3. req' \in [Requests -> Request]
    BY <2>2, GotoType
  <2> QED BY <2>1, <2>3 DEF TypeOK, store, Request, PcNames
<1>2. CASE RotateKey(p)
  <2>1. newest' \in Keys /\ apiKey' \in 0..newest' /\ newest' = newest + 1
    BY <1>2, MeteringAssumption DEF TypeOK, RotateKey, Keys
  <2>2. req' \in [Requests -> Request]
    <3>1. req \in [Requests -> Request]
      BY DEF TypeOK, Request, PcNames
    <3>2. [req[p] EXCEPT !.pc = "evict", !.newKey = newest'] \in Request
      <4>1. "evict" \in PcNames /\ req[p] \in Request
        BY <3>1, CallNames DEF Awaiting
      <4> QED BY <2>1, <4>1 DEF Request
    <3> QED BY <1>2, <3>1, <3>2, RotateKeyEffect, BecomesEffect
  <2> QED BY <1>2, <2>1, <2>2 DEF TypeOK, RotateKey, Request, PcNames
<1>3. CASE Evict(p)
  <2>1. req' \in [Requests -> Request]
    BY <1>3, GotoType DEF Evict, PcNames, Awaiting
  <2> QED BY <1>3, <2>1 DEF TypeOK, Evict, Request, PcNames
<1> QED BY <1>1, <1>2, <1>3

LEMMA EnvironmentTypes ==
  ASSUME TypeOK,
         Tick \/ (\E k \in Keys : ExpireEntry(k)) \/ (\E t \in Minutes : ExpireCounter(t))
  PROVE  TypeOK'
<1>1. CASE Tick
  <2>1. now' \in Minutes
    BY <1>1, MeteringAssumption DEF TypeOK, Tick, Minutes
  <2> QED BY <1>1, <2>1 DEF TypeOK, Tick
<1>2. ASSUME NEW k \in Keys, ExpireEntry(k) PROVE TypeOK'
  BY <1>2 DEF TypeOK, ExpireEntry
<1>3. ASSUME NEW t \in Minutes, ExpireCounter(t) PROVE TypeOK'
  BY <1>3 DEF TypeOK, ExpireCounter
<1> QED BY <1>1, <1>2, <1>3

LEMMA InitTypes == Init => TypeOK
<1> SUFFICES ASSUME Init PROVE TypeOK
  OBVIOUS
<1>1. 0 \in Keys /\ 0 \in Minutes /\ 0 \in 0..0
  BY MeteringAssumption DEF Keys, Minutes
<1>2. req \in [Requests -> Request]
  BY <1>1 DEF Init, Request, PcNames, Kinds, Marks
<1> QED BY <1>1, <1>2 DEF Init, TypeOK, Marks, Request, PcNames

\* Rows, counters and requests keep to their types.
THEOREM MeteringTypes == Spec => []TypeOK
<1>1. TypeOK /\ [Next]_vars => TypeOK'
  <2> SUFFICES ASSUME TypeOK, [Next]_vars PROVE TypeOK'
    OBVIOUS
  <2>1. ASSUME NEW p \in Requests, Move(p) PROVE TypeOK'
    BY <2>1, LookupTypes, MinuteAndDayTypes, MonthTypes, EndpointTypes DEF Move, Step
  <2>2. CASE UNCHANGED vars
    BY <2>2 DEF vars, TypeOK
  <2> QED BY <2>1, <2>2, EnvironmentTypes DEF Next, Move
<1> QED BY InitTypes, <1>1, PTL DEF Spec

\* A move changes the request that makes it, and no other.
LEMMA MoveTouchesOne ==
  ASSUME TypeOK, NEW p \in Requests, Move(p)
  PROVE  \A q \in Requests \ {p} : req'[q] = req[q]
<1>1. req \in [Requests -> Request]
  BY DEF TypeOK, Request, PcNames
<1>2. \A r : Becomes(p, r) => \A q \in Requests \ {p} : req'[q] = req[q]
  BY <1>1 DEF Becomes
<1>3. \A pc : Goto(p, pc) => \A q \in Requests \ {p} : req'[q] = req[q]
  BY <1>1, <1>2, GotoEffect
<1>4. \A m : Identified(p, m) => \A q \in Requests \ {p} : req'[q] = req[q]
  BY <1>1, <1>2, IdentifiedEffect
<1>5. CASE Arrive(p)
  BY <1>1, <1>2, <1>5, ArriveEffect
<1>6. CASE Lookup(p) \/ Fill(p)
  BY <1>3, <1>4, <1>6 DEF Lookup, Fill
<1>7. CASE SelectTenant(p)
  BY <1>1, <1>2, <1>3, <1>7, SelectEffect DEF SelectTenant
<1>8. CASE IncrMinute(p) \/ ExpireMinute(p) \/ ExpireDay(p) \/ IncrMonth(p) \/ RotateKey(p)
  BY <1>1, <1>2, <1>8, IncrMinuteEffect, ExpireMinuteEffect, ExpireDayEffect,
     IncrMonthEffect, RotateKeyEffect
<1>9. CASE IncrDay(p) \/ ExpireMonth(p) \/ MarkExceeded(p) \/ Uncache(p) \/ Authenticate(p)
           \/ Serve(p) \/ Evict(p) \/ Reply(p) \/ Fail(p)
  BY <1>3, <1>9 DEF IncrDay, ExpireMonth, MarkExceeded, Uncache, Authenticate, Serve,
                    Evict, Reply, Fail
<1> QED BY <1>5, <1>6, <1>7, <1>8, <1>9 DEF Move, Step

-----------------------------------------------------------------------------
(* The mark *)

\* As long as the tenant is not marked, nobody has read or cached that it is, and
\* no request is on the way that only a marked tenant's takes.
Unmarked ==
  mark = "open" =>
    /\ \A p \in Requests : req[p].seen = "open" /\ req[p].pc \notin {"uncache", "blocked"}
    /\ \A k \in Keys : cache[k] # "exceeded"

LEMMA UnmarkedMove ==
  ASSUME TypeOK, Unmarked, NEW p \in Requests, Move(p) PROVE Unmarked'
<1> SUFFICES ASSUME mark' = "open"
             PROVE  /\ req'[p].seen = "open" /\ req'[p].pc \notin {"uncache", "blocked"}
                    /\ \A k \in Keys : cache'[k] # "exceeded"
  <2>1. mark' = "open" => mark = "open"
    BY DEF Move, Step, Arrive, Fail, Lookup, SelectTenant, Fill, IncrMinute, ExpireMinute,
           IncrDay, ExpireDay, IncrMonth, ExpireMonth, MarkExceeded, Uncache, Authenticate,
           Serve, RotateKey, Evict, Reply, store
  <2> QED BY <2>1, MoveTouchesOne DEF Unmarked
<1>1. req \in [Requests -> Request] /\ cache \in [Keys -> Marks \cup {"none"}]
  BY DEF TypeOK, Request, PcNames
<1>2. ~MarkExceeded(p)
  BY DEF MarkExceeded
<1>3. mark = "open"
  BY <1>2 DEF Move, Step, Arrive, Fail, Lookup, SelectTenant, Fill, IncrMinute,
         ExpireMinute, IncrDay, ExpireDay, IncrMonth, ExpireMonth, Uncache, Authenticate,
         Serve, RotateKey, Evict, Reply, store
<1>4. /\ req[p].seen = "open" /\ req[p].pc \notin {"uncache", "blocked"}
      /\ \A k \in Keys : cache[k] # "exceeded"
  BY <1>3 DEF Unmarked
<1>0. req[p] \in Request /\ \A r : Becomes(p, r) => req'[p] = r
  BY <1>1 DEF Becomes
<1>5. \A pc : Goto(p, pc) => req'[p].seen = "open" /\ req'[p].pc = pc
  BY <1>1, <1>4 DEF Goto, Request
<1>6. Identified(p, "open") => req'[p].seen = "open" /\ req'[p].pc = "incrMinute"
  <2> SUFFICES ASSUME Identified(p, "open")
               PROVE  req'[p].seen = "open" /\ req'[p].pc = "incrMinute"
    OBVIOUS
  <2>1. req'[p] = [req[p] EXCEPT !.pc = "incrMinute", !.seen = "open",
                     !.at = [req[p].at EXCEPT !["minute"] = Current("minute")]]
    BY <1>0, <1>1, IdentifiedEffect
  <2> QED BY <1>0, <2>1 DEF Request
<1>7. CASE Arrive(p)
  <2>1. PICK k \in Held, kind \in Kinds :
          req'[p] = [req[p] EXCEPT !.pc = "lookup", !.kind = kind, !.key = k,
                                   !.deadOnArrival = (k # apiKey)]
    BY <1>0, <1>1, <1>7, ArriveEffect
  <2> QED BY <1>0, <1>4, <1>7, <2>1 DEF Request, Arrive, store
<1>8. CASE Lookup(p)
  <2>1. cache[req[p].key] \in {"open", "none"}
    BY <1>1, <1>4 DEF Request, Marks
  <2> QED BY <1>4, <1>5, <1>6, <1>8, <2>1 DEF Lookup, store
<1>9. CASE SelectTenant(p)
  <2>1. CASE req[p].key = apiKey
    <3>1. req'[p] = [req[p] EXCEPT !.pc = "fill", !.seen = mark]
      BY <1>0, <1>1, <1>9, <2>1, SelectEffect
    <3> QED BY <1>0, <1>3, <1>4, <1>9, <3>1 DEF SelectTenant, Request, store
  <2>2. CASE req[p].key # apiKey
    BY <1>4, <1>5, <1>9, <2>2 DEF SelectTenant, store
  <2> QED BY <2>1, <2>2
<1>10. CASE Fill(p)
  BY <1>1, <1>4, <1>6, <1>10 DEF Fill
<1>11. CASE IncrMinute(p) \/ ExpireMinute(p)
  <2>1. req'[p].seen = "open" /\ req'[p].pc \in {"expireMinute", "limited", "incrDay"}
    <3>1. \A n : AfterMinute(n) \in {"limited", "incrDay"}
      BY DEF AfterMinute
    <3>2. CASE IncrMinute(p)
      <4>1. PICK n : req'[p] = MinuteCounted(p, n)
        BY <1>0, <1>1, <3>2, IncrMinuteEffect
      <4>2. /\ req'[p].pc = IF n = 1 THEN "expireMinute" ELSE AfterMinute(n)
            /\ req'[p].seen = req[p].seen
        BY <1>0, <4>1 DEF MinuteCounted, Request
      <4> QED BY <1>4, <3>1, <4>2
    <3>3. CASE ExpireMinute(p)
      <4>1. req'[p] = [req[p] EXCEPT !.pc = AfterMinute(req[p].rank["minute"]),
                         !.at = [req[p].at EXCEPT !["day"] = Current("day")]]
        BY <1>0, <1>1, <3>3, ExpireMinuteEffect
      <4> QED BY <1>0, <1>4, <3>1, <4>1 DEF Request
    <3> QED BY <1>11, <3>2, <3>3
  <2> QED BY <1>4, <1>11, <2>1 DEF IncrMinute, ExpireMinute
<1>12. CASE ExpireDay(p)
  <2>1. req'[p] = [req[p] EXCEPT !.pc = "incrMonth",
                     !.at = [req[p].at EXCEPT !["month"] = Current("month")]]
    BY <1>0, <1>1, <1>12, ExpireDayEffect
  <2>2. req'[p].pc = "incrMonth" /\ req'[p].seen = req[p].seen
    BY <1>0, <2>1 DEF Request
  <2>3. cache' = cache
    BY <1>12 DEF ExpireDay
  <2> QED BY <1>4, <2>2, <2>3
<1>13. CASE IncrMonth(p) \/ ExpireMonth(p)
  <2>1. \A n : AfterMonth(req[p].kind, "open", n) \in {"authenticate", "endpoint", "mark"}
    BY DEF AfterMonth, Admit
  <2>2. /\ req'[p].seen = "open"
        /\ req'[p].pc \in {"expireMonth", "authenticate", "endpoint", "mark"}
    <3>1. CASE IncrMonth(p)
      <4>1. PICK n : req'[p] = MonthCounted(p, n)
        BY <1>0, <1>1, <3>1, IncrMonthEffect
      <4>2. /\ req'[p].pc = IF n = 1 THEN "expireMonth"
                            ELSE AfterMonth(req[p].kind, req[p].seen, n)
            /\ req'[p].seen = req[p].seen
        BY <1>0, <4>1 DEF MonthCounted, Request
      <4> QED BY <1>4, <2>1, <4>2
    <3>2. CASE ExpireMonth(p)
      BY <1>4, <1>5, <2>1, <3>2 DEF ExpireMonth
    <3> QED BY <1>13, <3>1, <3>2
  <2> QED BY <1>4, <1>13, <2>2 DEF IncrMonth, ExpireMonth
<1>14. CASE RotateKey(p)
  <2>1. req'[p] = [req[p] EXCEPT !.pc = "evict", !.newKey = newest']
    BY <1>0, <1>1, <1>14, RotateKeyEffect
  <2>2. req'[p].pc = "evict" /\ req'[p].seen = req[p].seen
    BY <1>0, <2>1 DEF Request
  <2>3. cache' = cache
    BY <1>14 DEF RotateKey
  <2> QED BY <1>4, <2>2, <2>3
<1>15. CASE Evict(p)
  BY <1>1, <1>4, <1>5, <1>15 DEF Evict
<1>16. CASE IncrDay(p) \/ Authenticate(p) \/ Serve(p) \/ Reply(p) \/ Fail(p)
  BY <1>4, <1>5, <1>16 DEF IncrDay, Authenticate, Serve, Reply, Fail, store
<1>17. ~Uncache(p)
  BY <1>4 DEF Uncache
<1> QED BY <1>2, <1>7, <1>8, <1>9, <1>10, <1>11, <1>12, <1>13, <1>14, <1>15, <1>16, <1>17
        DEF Move, Step

\* No order is refused for the quota before the tenant is marked.
THEOREM RefusalExplainedHolds == Spec => []RefusalExplained
<1>1. Init => Unmarked
  BY DEF Init, Unmarked
<1>2. TypeOK /\ Unmarked /\ [Next]_vars => Unmarked'
  <2> SUFFICES ASSUME TypeOK, Unmarked, [Next]_vars PROVE Unmarked'
    OBVIOUS
  <2>1. CASE Tick \/ UNCHANGED vars \/ \E t \in Minutes : ExpireCounter(t)
    BY <2>1 DEF ExpireCounter, Tick, vars, Unmarked
  <2>2. ASSUME NEW k \in Keys, ExpireEntry(k) PROVE Unmarked'
    BY <2>2 DEF ExpireEntry, Unmarked, TypeOK
  <2> QED BY <2>1, <2>2, UnmarkedMove DEF Next, Move
<1>3. TypeOK /\ Unmarked => RefusalExplained
  BY DEF TypeOK, Unmarked, RefusalExplained, Marks
<1> QED BY MeteringTypes, <1>1, <1>2, <1>3, PTL DEF Spec

-----------------------------------------------------------------------------
(* The fields of a request *)

\* Who makes the request, and what the rotation has generated, stay.
SameCaller(p) ==
  /\ req'[p].kind = req[p].kind /\ req'[p].key = req[p].key
  /\ req'[p].deadOnArrival = req[p].deadOnArrival
SameCounts(p) ==
  req'[p].at = req[p].at /\ req'[p].rank = req[p].rank /\ req'[p].counted = req[p].counted

LEMMA ReqTyped == TypeOK => req \in [Requests -> Request]
BY DEF TypeOK, Request, PcNames

LEMMA GotoFields ==
  ASSUME TypeOK, NEW p \in Requests, NEW pc, Goto(p, pc)
  PROVE  /\ req'[p].pc = pc /\ req'[p].newKey = req[p].newKey
         /\ SameCaller(p) /\ SameCounts(p)
<1>1. req'[p] = [req[p] EXCEPT !.pc = pc] /\ req[p] \in Request
  BY ReqTyped, GotoEffect DEF Becomes
<1> QED BY <1>1 DEF Request, SameCaller, SameCounts

LEMMA ArriveFields ==
  ASSUME TypeOK, NEW p \in Requests, Arrive(p)
  PROVE  /\ req'[p].pc = "lookup" /\ req'[p].newKey = req[p].newKey
         /\ req'[p].key \in Held /\ req'[p].deadOnArrival = (req'[p].key # apiKey)
         /\ SameCounts(p) /\ req[p].pc = "new"
<1>1. req[p] \in Request /\ \A r : Becomes(p, r) => req'[p] = r
  BY ReqTyped DEF Becomes
<1>2. PICK k \in Held, kind \in Kinds :
        req'[p] = [req[p] EXCEPT !.pc = "lookup", !.kind = kind, !.key = k,
                                 !.deadOnArrival = (k # apiKey)]
  BY <1>1, ReqTyped, ArriveEffect
<1> DEFINE dead == k # apiKey
<1>3. dead \in BOOLEAN /\ req'[p] = [req[p] EXCEPT !.pc = "lookup", !.kind = kind,
                                       !.key = k, !.deadOnArrival = dead]
  BY <1>2
<1> HIDE DEF dead
<1>4. /\ req'[p].pc = "lookup" /\ req'[p].newKey = req[p].newKey /\ req'[p].key = k
      /\ SameCounts(p)
  BY <1>1, <1>3 DEF Request, SameCounts
<1>5. req'[p].deadOnArrival = dead
  BY <1>1, <1>3, Zenon DEF Request
<1> QED BY <1>2, <1>4, <1>5 DEF dead, Arrive

LEMMA IdentifiedFields ==
  ASSUME TypeOK, NEW p \in Requests, NEW m, Identified(p, m)
  PROVE  /\ req'[p].pc = "incrMinute" /\ req'[p].newKey = req[p].newKey
         /\ SameCaller(p) /\ req'[p].rank = req[p].rank
         /\ req'[p].counted = req[p].counted
         /\ req'[p].at = [req[p].at EXCEPT !["minute"] = Current("minute")]
<1>0. req \in [Requests -> Request] /\ req[p] \in Request
  BY ReqTyped
<1>1. Becomes(p, [req[p] EXCEPT !.pc = "incrMinute", !.seen = m,
                    !.at = [req[p].at EXCEPT !["minute"] = Current("minute")]])
  BY <1>0, IdentifiedEffect
<1>2. req'[p] = [req[p] EXCEPT !.pc = "incrMinute", !.seen = m,
                   !.at = [req[p].at EXCEPT !["minute"] = Current("minute")]]
  BY <1>0, <1>1 DEF Becomes
<1> QED BY <1>0, <1>2 DEF Request, SameCaller

LEMMA SelectFields ==
  ASSUME TypeOK, NEW p \in Requests, SelectTenant(p)
  PROVE  /\ req'[p].pc \in {"fill", "unauthorized"} /\ req'[p].newKey = req[p].newKey
         /\ SameCaller(p) /\ SameCounts(p) /\ req[p].pc = "select"
<1>1. CASE req[p].key = apiKey
  <2>1. req'[p] = [req[p] EXCEPT !.pc = "fill", !.seen = mark] /\ req[p] \in Request
    BY <1>1, ReqTyped, SelectEffect DEF Becomes
  <2> QED BY <2>1 DEF Request, SameCaller, SameCounts, SelectTenant
<1>2. CASE req[p].key # apiKey
  BY <1>2, GotoFields DEF SelectTenant
<1> QED BY <1>1, <1>2

LEMMA IncrMinuteFields ==
  ASSUME TypeOK, NEW p \in Requests, IncrMinute(p)
  PROVE  LET n == count[Counter(p, "minute")] + 1 IN
         /\ req'[p].pc = IF n = 1 THEN "expireMinute" ELSE AfterMinute(n)
         /\ req'[p].newKey = req[p].newKey /\ SameCaller(p)
         /\ req'[p].at = [req[p].at EXCEPT !["day"] = Current("day")]
         /\ req'[p].rank = [req[p].rank EXCEPT !["minute"] = n] /\ req'[p].counted = now
<1> DEFINE n == count[Counter(p, "minute")] + 1
<1>1. req'[p] = MinuteCounted(p, n) /\ req[p] \in Request
  BY ReqTyped, IncrMinuteEffect DEF Becomes
<1> HIDE DEF n
<1>2. /\ req'[p].pc = IF n = 1 THEN "expireMinute" ELSE AfterMinute(n)
      /\ req'[p].newKey = req[p].newKey /\ SameCaller(p)
      /\ req'[p].at = [req[p].at EXCEPT !["day"] = Current("day")]
      /\ req'[p].rank = [req[p].rank EXCEPT !["minute"] = n] /\ req'[p].counted = now
  BY <1>1 DEF Request, SameCaller, MinuteCounted
<1> QED BY <1>2 DEF n

LEMMA ExpireMinuteFields ==
  ASSUME TypeOK, NEW p \in Requests, ExpireMinute(p)
  PROVE  /\ req'[p].pc = AfterMinute(req[p].rank["minute"])
         /\ req'[p].newKey = req[p].newKey /\ SameCaller(p)
         /\ req'[p].at = [req[p].at EXCEPT !["day"] = Current("day")]
         /\ req'[p].rank = req[p].rank /\ req'[p].counted = req[p].counted
<1>1. req'[p] = [req[p] EXCEPT !.pc = AfterMinute(req[p].rank["minute"]),
                   !.at = [req[p].at EXCEPT !["day"] = Current("day")]]
      /\ req[p] \in Request
  BY ReqTyped, ExpireMinuteEffect DEF Becomes
<1> QED BY <1>1 DEF Request, SameCaller

LEMMA ExpireDayFields ==
  ASSUME TypeOK, NEW p \in Requests, ExpireDay(p)
  PROVE  /\ req'[p].pc = "incrMonth" /\ req'[p].newKey = req[p].newKey /\ SameCaller(p)
         /\ req'[p].at = [req[p].at EXCEPT !["month"] = Current("month")]
         /\ req'[p].rank = req[p].rank /\ req'[p].counted = req[p].counted
<1>1. req'[p] = [req[p] EXCEPT !.pc = "incrMonth",
                   !.at = [req[p].at EXCEPT !["month"] = Current("month")]]
      /\ req[p] \in Request
  BY ReqTyped, ExpireDayEffect DEF Becomes
<1> QED BY <1>1 DEF Request, SameCaller

LEMMA IncrMonthFields ==
  ASSUME TypeOK, NEW p \in Requests, IncrMonth(p)
  PROVE  LET n == count[Counter(p, "month")] + 1 IN
         /\ req'[p].pc = IF n = 1 THEN "expireMonth"
                         ELSE AfterMonth(req[p].kind, req[p].seen, n)
         /\ req'[p].newKey = req[p].newKey /\ SameCaller(p)
         /\ req'[p].at = req[p].at /\ req'[p].counted = req[p].counted
         /\ req'[p].rank = [req[p].rank EXCEPT !["month"] = n]
<1> DEFINE n == count[Counter(p, "month")] + 1
<1>1. req'[p] = MonthCounted(p, n) /\ req[p] \in Request
  BY ReqTyped, IncrMonthEffect DEF Becomes
<1> HIDE DEF n
<1>2. /\ req'[p].pc = IF n = 1 THEN "expireMonth"
                      ELSE AfterMonth(req[p].kind, req[p].seen, n)
      /\ req'[p].newKey = req[p].newKey /\ SameCaller(p)
      /\ req'[p].at = req[p].at /\ req'[p].counted = req[p].counted
      /\ req'[p].rank = [req[p].rank EXCEPT !["month"] = n]
  BY <1>1 DEF Request, SameCaller, MonthCounted
<1> QED BY <1>2 DEF n

LEMMA RotateKeyFields ==
  ASSUME TypeOK, NEW p \in Requests, RotateKey(p)
  PROVE  /\ req'[p].pc = "evict" /\ req'[p].newKey = newest'
         /\ SameCaller(p) /\ SameCounts(p)
<1>1. req'[p] = [req[p] EXCEPT !.pc = "evict", !.newKey = newest'] /\ req[p] \in Request
  BY ReqTyped, RotateKeyEffect DEF Becomes
<1> QED BY <1>1 DEF Request, SameCaller, SameCounts

-----------------------------------------------------------------------------
(* The keys *)

Inside == {"endpoint", "evict", "reply", "served"}

\* Every key in use was generated, and the key of a request that was dead when it
\* arrived is dead for good, so that the database refuses it, where it is asked.
DeadForGood ==
  \A p \in Requests :
    /\ req[p].key <= newest /\ req[p].newKey <= newest
    /\ req[p].deadOnArrival =>
         req[p].key # apiKey /\ (req[p].kind = "driver" \/ req[p].pc \notin Inside)

LEMMA DeadForGoodMove ==
  ASSUME TypeOK, DeadForGood, NEW p \in Requests, Move(p), ~RotateKey(p)
  PROVE  DeadForGood'
<1>1. UNCHANGED <<newest, apiKey>>
  BY DEF Move, Step, Arrive, Fail, Lookup, SelectTenant, Fill, IncrMinute, ExpireMinute,
         IncrDay, ExpireDay, IncrMonth, ExpireMonth, MarkExceeded, Uncache, Authenticate,
         Serve, Evict, Reply, store
<1>2. \A q \in Requests \ {p} : req'[q] = req[q]
  BY MoveTouchesOne
<1>3. CASE Arrive(p)
  <2>1. \A k \in Held : k <= newest
    BY MeteringAssumption DEF Held, DeadForGood, TypeOK, Keys
  <2>2. /\ req'[p].key <= newest /\ req'[p].newKey <= newest
        /\ req'[p].deadOnArrival => req'[p].key # apiKey /\ req'[p].pc \notin Inside
    BY <1>3, <2>1, ArriveFields DEF DeadForGood, Inside
  <2> QED BY <1>1, <1>2, <2>2 DEF DeadForGood
<1>4. CASE SameCaller(p) /\ req'[p].newKey = req[p].newKey
           /\ (req'[p].pc \in Inside => \/ req[p].pc \in Inside \/ req[p].key = apiKey
                                       \/ req[p].kind = "driver")
  BY <1>1, <1>2, <1>4 DEF DeadForGood, SameCaller
<1>5. \A pc : Goto(p, pc) => SameCaller(p) /\ req'[p].newKey = req[p].newKey /\ req'[p].pc = pc
  BY GotoFields
<1>6. CASE Lookup(p) \/ Fill(p)
  <2>1. \A m : Identified(p, m) =>
          SameCaller(p) /\ req'[p].newKey = req[p].newKey /\ req'[p].pc = "incrMinute"
    BY IdentifiedFields
  <2> QED BY <1>4, <1>5, <1>6, <2>1 DEF Lookup, Fill, Inside
<1>7. CASE SelectTenant(p)
  BY <1>4, <1>7, SelectFields DEF Inside
<1>8. CASE IncrMinute(p) \/ ExpireMinute(p)
  <2>1. "expireMinute" \notin Inside /\ \A n : AfterMinute(n) \notin Inside
    BY DEF AfterMinute, Inside
  <2>2. CASE IncrMinute(p)
    <3>1. req'[p].pc = "expireMinute" \/ \E n : req'[p].pc = AfterMinute(n)
      BY <2>2, IncrMinuteFields
    <3>2. SameCaller(p) /\ req'[p].newKey = req[p].newKey
      BY <2>2, IncrMinuteFields
    <3>3. req'[p].pc \notin Inside
      BY <2>1, <3>1
    <3> QED BY <1>4, <3>2, <3>3
  <2>3. CASE ExpireMinute(p)
    <3>1. SameCaller(p) /\ req'[p].newKey = req[p].newKey
      BY <2>3, ExpireMinuteFields
    <3>2. req'[p].pc = AfterMinute(req[p].rank["minute"])
      BY <2>3, ExpireMinuteFields
    <3>3. req'[p].pc \notin Inside
      BY <2>1, <3>2
    <3> QED BY <1>4, <3>1, <3>3
  <2> QED BY <1>8, <2>2, <2>3
<1>9. CASE ExpireDay(p)
  BY <1>4, <1>9, ExpireDayFields DEF Inside
<1>10. CASE IncrMonth(p) \/ ExpireMonth(p) \/ Uncache(p)
  <2>1. \A kind, seen, n : kind # "driver" => /\ AfterMonth(kind, seen, n) \notin Inside
                                               /\ Verdict(kind) \notin Inside
    BY DEF AfterMonth, Verdict, Admit, Inside
  <2>2. "expireMonth" \notin Inside
    BY DEF Inside
  <2>3. CASE IncrMonth(p)
    <3>1. \/ req'[p].pc = "expireMonth"
          \/ \E n : req'[p].pc = AfterMonth(req[p].kind, req[p].seen, n)
      BY <2>3, IncrMonthFields
    <3>2. SameCaller(p) /\ req'[p].newKey = req[p].newKey
      BY <2>3, IncrMonthFields
    <3> QED BY <1>4, <2>1, <2>2, <3>1, <3>2
  <2>4. CASE ExpireMonth(p) \/ Uncache(p)
    BY <1>4, <1>5, <2>1, <2>4 DEF ExpireMonth, Uncache
  <2> QED BY <1>10, <2>3, <2>4
<1>11. CASE Authenticate(p)
  BY <1>4, <1>5, <1>11 DEF Authenticate, Inside
<1>12. CASE IncrDay(p) \/ MarkExceeded(p) \/ Serve(p) \/ Evict(p) \/ Reply(p) \/ Fail(p)
  BY <1>4, <1>5, <1>12 DEF IncrDay, MarkExceeded, Serve, Evict, Reply, Fail, Inside
<1> QED BY <1>3, <1>6, <1>7, <1>8, <1>9, <1>10, <1>11, <1>12 DEF Move, Step

\* A rotation makes the keys of all requests dead, and its own request had a
\* living one.
LEMMA DeadForGoodRotate ==
  ASSUME TypeOK, DeadForGood, NEW p \in Requests, RotateKey(p) PROVE DeadForGood'
<1>1. newest' = newest + 1 /\ apiKey' = newest + 1 /\ newest \in Nat
  BY DEF RotateKey, TypeOK, Keys
<1>2. \A q \in Requests \ {p} : req'[q] = req[q]
  BY MoveTouchesOne DEF Move, Step
<1>3. req[p].pc \in Inside
  BY DEF RotateKey, Inside
<1>4. \A q \in Requests : req[q].key \in Nat /\ req[q].newKey \in Nat
  BY DEF TypeOK, Keys
<1> QED BY <1>1, <1>2, <1>3, <1>4, RotateKeyFields DEF DeadForGood, SameCaller

\* A request that arrives with a dead key reaches no endpoint that asks for the
\* tenant.
THEOREM DeadKeyRefusedHolds == Spec => []DeadKeyRefused
<1>1. Init => DeadForGood
  BY MeteringAssumption DEF Init, DeadForGood
<1>2. TypeOK /\ DeadForGood /\ [Next]_vars => DeadForGood'
  <2> SUFFICES ASSUME TypeOK, DeadForGood, [Next]_vars PROVE DeadForGood'
    OBVIOUS
  <2>1. CASE \/ Tick \/ UNCHANGED vars \/ (\E k \in Keys : ExpireEntry(k))
             \/ (\E t \in Minutes : ExpireCounter(t))
    BY <2>1 DEF ExpireCounter, Tick, ExpireEntry, vars, DeadForGood
  <2> QED BY <2>1, DeadForGoodMove, DeadForGoodRotate DEF Next, Move
<1>3. DeadForGood => DeadKeyRefused
  BY DEF DeadForGood, DeadKeyRefused, Inside
<1> QED BY MeteringTypes, <1>1, <1>2, <1>3, PTL DEF Spec

-----------------------------------------------------------------------------
(* The counters grow *)

\* One more in counter c.
CountGrowsAt(c) == count' = [count EXCEPT ![c] = @ + 1]

\* No request lowers a counter.
LEMMA CountGrows ==
  ASSUME TypeOK, NEW p \in Requests, Move(p)
  PROVE  \A c \in Counters : count'[c] \in Nat /\ count[c] \in Nat /\ count[c] <= count'[c]
<1>1. \A c \in Counters : count[c] \in Nat
  BY DEF TypeOK
<1>2. CASE UNCHANGED count
  BY <1>1, <1>2
<1>3. CASE \E c : CountGrowsAt(c)
  <2>1. count \in [Counters -> Nat]
    BY DEF TypeOK
  <2> QED BY <1>3, <2>1 DEF CountGrowsAt
<1>4. UNCHANGED count \/ \E c : CountGrowsAt(c)
  <2>1. CASE IncrMinute(p)
    <3>1. count' = [count EXCEPT ![Counter(p, "minute")] = count[Counter(p, "minute")] + 1]
      BY <2>1 DEF IncrMinute
    <3> QED BY <3>1 DEF CountGrowsAt
  <2>2. CASE IncrMonth(p)
    <3>1. count' = [count EXCEPT ![Counter(p, "month")] = count[Counter(p, "month")] + 1]
      BY <2>2 DEF IncrMonth
    <3> QED BY <3>1 DEF CountGrowsAt
  <2>3. CASE IncrDay(p)
    BY <2>3 DEF IncrDay, CountGrowsAt
  <2> QED BY <2>1, <2>2, <2>3
          DEF Move, Step, Arrive, Fail, Lookup, SelectTenant, Fill, ExpireMinute, ExpireDay,
              ExpireMonth, MarkExceeded, Uncache, Authenticate, Serve, RotateKey, Evict,
              Reply, store
<1> QED BY <1>2, <1>3, <1>4

-----------------------------------------------------------------------------
(* The expiry of the counters *)

\* Where a request that has counted first in a window stands.
ExpireOf == [w \in Windows |-> IF w = "minute" THEN "expireMinute"
                               ELSE IF w = "day" THEN "expireDay" ELSE "expireMonth"]

LEMMA ExpireOfNames ==
  /\ ExpireOf["minute"] = "expireMinute" /\ ExpireOf["day"] = "expireDay"
  /\ ExpireOf["month"] = "expireMonth"
BY DEF ExpireOf, Windows

\* Request p is about to set the expiry of counter t of window w, or has failed.
Due(p, w, t) == req[p].at[w] = t /\ req[p].pc \in {ExpireOf[w], "failed"}

AllDue ==
  \A w \in Windows, t \in Minutes :
    <<w, t>> \in expiring \/ count[<<w, t>>] = 0 \/ \E p \in Requests : Due(p, w, t)

LEMMA ExpiringGrows == ASSUME NEW p \in Requests, Move(p) PROVE expiring \subseteq expiring'
BY DEF Move, Step, Arrive, Fail, Lookup, SelectTenant, Fill, IncrMinute, ExpireMinute,
       IncrDay, ExpireDay, IncrMonth, ExpireMonth, MarkExceeded, Uncache, Authenticate,
       Serve, RotateKey, Evict, Reply, store

\* A request that has failed takes no step.
LEMMA FailedStays ==
  ASSUME NEW p \in Requests, Move(p) PROVE req[p].pc # "failed"
BY DEF Move, Step, Arrive, Fail, Lookup, SelectTenant, Fill, IncrMinute, ExpireMinute,
       IncrDay, ExpireDay, IncrMonth, ExpireMonth, MarkExceeded, Uncache, Authenticate,
       Serve, RotateKey, Evict, Reply, Awaiting

LEMMA ExpireSteps ==
  ASSUME TypeOK, NEW p \in Requests, Move(p), NEW w \in Windows, req[p].pc = ExpireOf[w]
  PROVE  Counter(p, w) \in expiring' \/ Fail(p)
<1>1. CASE w = "minute"
  <2>1. ExpireMinute(p) \/ Fail(p)
    BY <1>1, ExpireOfNames
       DEF Move, Step, Arrive, Lookup, SelectTenant, Fill, IncrMinute, IncrDay, ExpireDay,
           IncrMonth, ExpireMonth, MarkExceeded, Uncache, Authenticate, Serve, RotateKey,
           Evict, Reply
  <2> QED BY <1>1, <2>1 DEF ExpireMinute
<1>2. CASE w = "day"
  <2>1. ExpireDay(p) \/ Fail(p)
    BY <1>2, ExpireOfNames
       DEF Move, Step, Arrive, Lookup, SelectTenant, Fill, IncrMinute, ExpireMinute, IncrDay,
           IncrMonth, ExpireMonth, MarkExceeded, Uncache, Authenticate, Serve, RotateKey,
           Evict, Reply
  <2> QED BY <1>2, <2>1 DEF ExpireDay
<1>3. CASE w = "month"
  <2>1. ExpireMonth(p) \/ Fail(p)
    BY <1>3, ExpireOfNames
       DEF Move, Step, Arrive, Lookup, SelectTenant, Fill, IncrMinute, ExpireMinute, IncrDay,
           ExpireDay, IncrMonth, MarkExceeded, Uncache, Authenticate, Serve, RotateKey,
           Evict, Reply
  <2> QED BY <1>3, <2>1 DEF ExpireMonth
<1> QED BY <1>1, <1>2, <1>3 DEF Windows

\* The expiry stays due until it is set.
LEMMA DueStays ==
  ASSUME TypeOK, NEW p \in Requests, Move(p), NEW q \in Requests, NEW w \in Windows,
         NEW t \in Minutes, Due(q, w, t)
  PROVE  <<w, t>> \in expiring' \/ Due(q, w, t)'
<1>1. CASE q # p
  <2>1. req'[q] = req[q]
    BY <1>1, MoveTouchesOne
  <2> QED BY <2>1 DEF Due
<1>2. CASE q = p
  <2>1. req[p].pc = ExpireOf[w]
    BY <1>2, FailedStays DEF Due
  <2>2. Counter(p, w) = <<w, t>>
    BY <1>2 DEF Due, Counter
  <2>3. CASE Fail(p)
    <3>1. req'[p].pc = "failed" /\ req'[p].at = req[p].at
      BY <2>3, GotoFields DEF Fail, SameCounts
    <3> QED BY <1>2, <3>1 DEF Due
  <2> QED BY <2>1, <2>2, <2>3, ExpireSteps
<1> QED BY <1>1, <1>2

\* The request that counts first is about to set the expiry.
LEMMA FirstIsDue ==
  ASSUME TypeOK, NEW p \in Requests, Move(p), NEW w \in Windows, NEW t \in Minutes,
         count[<<w, t>>] = 0
  PROVE  count'[<<w, t>>] = 0 \/ Due(p, w, t)'
<1>0. count \in [Counters -> Nat] /\ <<w, t>> \in Counters
      /\ "minute" # "day" /\ "minute" # "month" /\ "day" # "month"
  BY DEF TypeOK, Counters
<1>1. ASSUME NEW v \in Windows, NEW n, count' = [count EXCEPT ![Counter(p, v)] = n],
             <<w, t>> # Counter(p, v)
      PROVE  count'[<<w, t>>] = 0
  BY <1>0, <1>1
<1>2. ASSUME NEW v \in Windows, <<w, t>> = Counter(p, v) PROVE v = w /\ req[p].at[w] = t
  BY <1>2 DEF Counter
<1>3. CASE IncrMinute(p)
  <2>1. CASE <<w, t>> = Counter(p, "minute")
    <3>1. w = "minute" /\ req[p].at["minute"] = t
      BY <1>2, <2>1, WindowNames
    <3>2. count[Counter(p, "minute")] + 1 = 1
      BY <2>1
    <3>3. /\ req'[p].pc = "expireMinute"
          /\ req'[p].at = [req[p].at EXCEPT !["day"] = Current("day")]
      BY <1>3, <3>2, IncrMinuteFields
    <3>4. req'[p].at["minute"] = t
      BY <3>1, <3>3, ReqTyped, WindowNames DEF Request
    <3> QED BY <3>1, <3>3, <3>4, ExpireOfNames DEF Due
  <2>2. CASE <<w, t>> # Counter(p, "minute")
    BY <1>1, <1>3, <2>2, WindowNames DEF IncrMinute
  <2> QED BY <2>1, <2>2
<1>4. CASE IncrDay(p)
  <2>1. CASE <<w, t>> = Counter(p, "day")
    <3>1. w = "day" /\ req[p].at["day"] = t
      BY <1>2, <2>1, WindowNames
    <3>2. req'[p].pc = "expireDay" /\ req'[p].at = req[p].at
      BY <1>4, GotoFields DEF IncrDay, SameCounts
    <3> QED BY <3>1, <3>2, ExpireOfNames DEF Due
  <2>2. CASE <<w, t>> # Counter(p, "day")
    BY <1>1, <1>4, <2>2, WindowNames DEF IncrDay
  <2> QED BY <2>1, <2>2
<1>5. CASE IncrMonth(p)
  <2>1. CASE <<w, t>> = Counter(p, "month")
    <3>1. w = "month" /\ req[p].at["month"] = t
      BY <1>2, <2>1, WindowNames
    <3>2. count[Counter(p, "month")] + 1 = 1
      BY <2>1
    <3>3. req'[p].pc = "expireMonth" /\ req'[p].at = req[p].at
      BY <1>5, <3>2, IncrMonthFields
    <3> QED BY <3>1, <3>3, ExpireOfNames DEF Due
  <2>2. CASE <<w, t>> # Counter(p, "month")
    BY <1>1, <1>5, <2>2, WindowNames DEF IncrMonth
  <2> QED BY <2>1, <2>2
<1>6. CASE ~(IncrMinute(p) \/ IncrDay(p) \/ IncrMonth(p))
  BY <1>6 DEF Move, Step, Arrive, Fail, Lookup, SelectTenant, Fill, ExpireMinute, ExpireDay,
              ExpireMonth, MarkExceeded, Uncache, Authenticate, Serve, RotateKey, Evict,
              Reply, store
<1> QED BY <1>3, <1>4, <1>5, <1>6

\* A counter stays without an expiry only for a request that is about to set it
\* or has failed.
THEOREM CountersExpireHolds == Spec => []CountersExpire
<1>1. Init => AllDue
  BY DEF Init, AllDue, Counters
<1>2. TypeOK /\ AllDue /\ [Next]_vars => AllDue'
  <2> SUFFICES ASSUME TypeOK, AllDue, [Next]_vars PROVE AllDue'
    OBVIOUS
  <2>1. CASE Tick \/ UNCHANGED vars \/ \E k \in Keys : ExpireEntry(k)
    <3>1. UNCHANGED <<count, expiring, req>>
      BY <2>1 DEF Tick, ExpireEntry, vars
    <3> QED BY <3>1 DEF AllDue, Due
  <2>4. ASSUME NEW t \in Minutes, ExpireCounter(t) PROVE AllDue'
    <3>1. /\ count' = [count EXCEPT ![<<"minute", t>>] = 0] /\ req' = req
          /\ expiring' = expiring \ {<<"minute", t>>} /\ count \in [Counters -> Nat]
      BY <2>4 DEF ExpireCounter, TypeOK
    <3>2. ASSUME NEW w \in Windows, NEW u \in Minutes
          PROVE  \/ <<w, u>> \in expiring' \/ count'[<<w, u>>] = 0
                 \/ \E q \in Requests : Due(q, w, u)'
      <4>1. <<w, u>> \in Counters
        BY DEF Counters
      <4>2. CASE <<w, u>> = <<"minute", t>>
        BY <3>1, <4>1, <4>2
      <4>3. CASE <<w, u>> # <<"minute", t>>
        BY <3>1, <4>1, <4>3 DEF AllDue, Due
      <4> QED BY <4>2, <4>3
    <3> QED BY <3>2 DEF AllDue, Due
  <2>2. ASSUME NEW p \in Requests, Move(p), NEW w \in Windows, NEW t \in Minutes
        PROVE  \/ <<w, t>> \in expiring' \/ count'[<<w, t>>] = 0
               \/ \E q \in Requests : Due(q, w, t)'
    BY <2>2, ExpiringGrows, DueStays, FirstIsDue DEF AllDue
  <2>3. CASE \E p \in Requests : Move(p)
    BY <2>2, <2>3 DEF AllDue, Due
  <2> QED BY <2>1, <2>3, <2>4 DEF Next, Move
<1>3. TypeOK /\ AllDue => CountersExpire
  <2> SUFFICES ASSUME TypeOK, AllDue, NEW c \in Counters \ expiring, count[c] > 0
               PROVE  \E p \in Requests :
                        /\ Counter(p, c[1]) = c
                        /\ req[p].pc \in {"expireMinute", "expireDay", "expireMonth", "failed"}
    BY DEF CountersExpire
  <2>1. PICK w \in Windows, t \in Minutes : c = <<w, t>>
    BY DEF Counters
  <2>2. PICK p \in Requests : Due(p, w, t)
    BY <2>1 DEF AllDue
  <2>3. ExpireOf[w] \in {"expireMinute", "expireDay", "expireMonth"}
    BY DEF ExpireOf
  <2>4. req[p].at[w] = t /\ req[p].pc \in {ExpireOf[w], "failed"}
    BY <2>2 DEF Due
  <2>5. Counter(p, c[1]) = c
    BY <2>1, <2>4 DEF Counter
  <2>6. req[p].pc \in {"expireMinute", "expireDay", "expireMonth", "failed"}
    BY <2>3, <2>4
  <2> QED BY <2>5, <2>6
<1> QED BY MeteringTypes, <1>1, <1>2, <1>3, PTL DEF Spec

-----------------------------------------------------------------------------
(* The rank of a request in its counters *)

\* Before the INCR of the minute, before that of the month, past the rate limit,
\* and past the quota.
Uncounted == {"new", "lookup", "select", "fill", "incrMinute"}
Unmetered == Uncounted \cup {"expireMinute", "incrDay", "expireDay", "incrMonth"}
Through   == {"authenticate", "endpoint", "evict", "reply", "served"}
Admitted  == Through \cup {"incrDay", "expireDay", "incrMonth", "expireMonth", "mark",
                           "uncache"}

\* What a request's ranks say of where it stands.
OwnRank(r) ==
  /\ r.pc \in Uncounted => r.rank["minute"] = 0
  /\ r.pc \in Unmetered => r.rank["month"] = 0
  /\ r.pc = "expireMinute" => r.rank["minute"] >= 1
  /\ r.pc = "expireMonth" => r.rank["month"] >= 1
  /\ r.pc \in Admitted => r.rank["minute"] \in 1..RateLimit
  /\ r.pc \in Through /\ r.kind = "create" => r.rank["month"] \in 1..MonthlyQuota

\* Requests that were counted in the window they have the name of, and windows
\* whose counter has not expired.
InTime(r, w)   == w = "month" \/ r.counted = r.at["minute"]
Standing(t, w) == w = "month" \/ now <= t

\* INCR has returned each value of a counter to one request only, as long as the
\* counter is sure to be there.
RanksDiffer(w) ==
  /\ \A p \in Requests :
       InTime(req[p], w) /\ Standing(req[p].at[w], w)
         => req[p].rank[w] <= count[Counter(p, w)]
  /\ \A p, q \in Requests :
       /\ p # q /\ req[p].at[w] = req[q].at[w] /\ req[p].rank[w] = req[q].rank[w]
       /\ InTime(req[p], w) /\ InTime(req[q], w)
       => req[p].rank[w] = 0

Ranked ==
  /\ \A p \in Requests : OwnRank(req[p])
  /\ RanksDiffer("minute") /\ RanksDiffer("month")

LEMMA RankTypes ==
  ASSUME TypeOK, NEW p \in Requests, NEW w \in Windows
  PROVE  req[p].rank[w] \in Nat /\ req[p].at[w] \in Minutes
         /\ Counter(p, w) \in Counters /\ count[Counter(p, w)] \in Nat
<1>1. req[p] \in Request /\ count \in [Counters -> Nat]
  BY ReqTyped DEF TypeOK
<1> QED BY <1>1, CountersAreTyped DEF Request

LEMMA OwnRankGoto ==
  ASSUME TypeOK, NEW p \in Requests, NEW pc, Goto(p, pc), OwnRank(req[p]),
         pc \in Uncounted => req[p].pc \in Uncounted,
         pc \in Unmetered => req[p].pc \in Unmetered,
         pc \notin {"expireMinute", "expireMonth"},
         pc \in Admitted => req[p].pc \in Admitted,
         pc \in Through /\ req[p].kind = "create"
           => req[p].pc \in Through \/ req[p].rank["month"] \in 1..MonthlyQuota
  PROVE  OwnRank(req'[p])
<1>1. /\ req'[p].pc = pc /\ req'[p].rank = req[p].rank /\ req'[p].kind = req[p].kind
  BY GotoFields DEF SameCaller, SameCounts
<1> QED BY <1>1 DEF OwnRank

LEMMA OwnRankLookup ==
  ASSUME TypeOK, NEW p \in Requests, OwnRank(req[p]),
         Arrive(p) \/ Lookup(p) \/ SelectTenant(p) \/ Fill(p)
  PROVE  OwnRank(req'[p])
<1> USE DEF Uncounted, Unmetered, Through, Admitted
<1>1. CASE req[p].pc \in Uncounted /\ req'[p].rank = req[p].rank
           /\ req'[p].pc \in {"lookup", "select", "fill", "incrMinute", "unauthorized"}
  BY <1>1 DEF OwnRank
<1>2. CASE Arrive(p)
  BY <1>1, <1>2, ArriveFields DEF SameCounts
<1>3. CASE Lookup(p)
  <2>1. \A m : Identified(p, m) => req'[p].rank = req[p].rank /\ req'[p].pc = "incrMinute"
    BY IdentifiedFields
  <2>2. Goto(p, "select") => req'[p].rank = req[p].rank /\ req'[p].pc = "select"
    BY GotoFields DEF SameCounts
  <2> QED BY <1>1, <1>3, <2>1, <2>2 DEF Lookup
<1>4. CASE SelectTenant(p)
  BY <1>1, <1>4, SelectFields DEF SameCounts
<1>5. CASE Fill(p)
  BY <1>1, <1>5, IdentifiedFields DEF Fill
<1> QED BY <1>2, <1>3, <1>4, <1>5

LEMMA OwnRankMinute ==
  ASSUME TypeOK, NEW p \in Requests, OwnRank(req[p]),
         IncrMinute(p) \/ ExpireMinute(p)
  PROVE  OwnRank(req'[p])
<1>1. ASSUME NEW n \in Nat, n >= 1, req'[p].rank["minute"] = n, req'[p].rank["month"] = 0,
             req'[p].pc \in {"expireMinute", AfterMinute(n)}
      PROVE  OwnRank(req'[p])
  <2>1. CASE req'[p].pc = "expireMinute" \/ req'[p].pc = "limited"
    BY <1>1, <2>1 DEF OwnRank, Uncounted, Unmetered, Through, Admitted
  <2>2. CASE req'[p].pc = "incrDay" /\ n <= RateLimit
    <3>1. n \in 1..RateLimit
      BY <1>1, <2>2, MeteringAssumption
    <3> QED BY <1>1, <2>2, <3>1 DEF OwnRank, Uncounted, Unmetered, Through, Admitted
  <2> QED BY <1>1, <2>1, <2>2, MeteringAssumption DEF AfterMinute
<1>2. req[p] \in Request
  BY ReqTyped
<1>3. CASE IncrMinute(p)
  <2> DEFINE n == count[Counter(p, "minute")] + 1
  <2>1. n \in Nat /\ n >= 1
    BY RankTypes, WindowNames
  <2>2. /\ req'[p].pc \in {"expireMinute", AfterMinute(n)}
        /\ req'[p].rank = [req[p].rank EXCEPT !["minute"] = n]
    BY <1>3, IncrMinuteFields
  <2>3. req[p].rank["month"] = 0
    BY <1>3 DEF IncrMinute, OwnRank, Uncounted, Unmetered
  <2> HIDE DEF n
  <2>4. req'[p].rank["minute"] = n /\ req'[p].rank["month"] = 0
    BY <1>2, <2>2, <2>3, WindowNames DEF Request
  <2> QED BY <1>1, <2>1, <2>2, <2>4
<1>4. CASE ExpireMinute(p)
  <2>1. req[p].pc = "expireMinute"
    BY <1>4 DEF ExpireMinute
  <2>2. req[p].rank["minute"] >= 1 /\ req[p].rank["month"] = 0
    BY <2>1 DEF OwnRank, Unmetered
  <2> QED BY <1>1, <1>4, <2>2, ExpireMinuteFields, RankTypes, WindowNames
<1> QED BY <1>3, <1>4

LEMMA OwnRankMonth ==
  ASSUME TypeOK, NEW p \in Requests, OwnRank(req[p]),
         IncrDay(p) \/ ExpireDay(p) \/ IncrMonth(p) \/ ExpireMonth(p)
  PROVE  OwnRank(req'[p])
<1>1. ASSUME NEW n \in Nat, n >= 1, req'[p].rank["month"] = n,
             req'[p].rank["minute"] \in 1..RateLimit,
             req'[p].pc \in {"expireMonth", AfterMonth(req'[p].kind, req[p].seen, n)}
      PROVE  OwnRank(req'[p])
  <2>1. CASE req'[p].pc \in {"expireMonth", "mark", "blocked"}
             \/ (req'[p].pc \in {"authenticate", "endpoint"} /\ req'[p].kind # "create")
    BY <1>1, <2>1 DEF OwnRank, Uncounted, Unmetered, Through, Admitted
  <2>2. CASE req'[p].pc \in {"authenticate", "endpoint"} /\ n <= MonthlyQuota
    <3>1. n \in 1..MonthlyQuota
      BY <1>1, <2>2, MeteringAssumption
    <3> QED BY <1>1, <2>2, <3>1 DEF OwnRank, Uncounted, Unmetered, Through, Admitted
  <2> QED BY <1>1, <2>1, <2>2 DEF AfterMonth, Verdict, Admit
<1>2. req[p] \in Request
  BY ReqTyped
<1>3. CASE IncrMonth(p)
  <2> DEFINE n == count[Counter(p, "month")] + 1
  <2>1. n \in Nat /\ n >= 1
    BY RankTypes, WindowNames
  <2>2. /\ req'[p].pc \in {"expireMonth", AfterMonth(req[p].kind, req[p].seen, n)}
        /\ req'[p].rank = [req[p].rank EXCEPT !["month"] = n]
        /\ req'[p].kind = req[p].kind
    BY <1>3, IncrMonthFields DEF SameCaller
  <2>3. req[p].rank["minute"] \in 1..RateLimit
    BY <1>3 DEF IncrMonth, OwnRank, Admitted
  <2> HIDE DEF n
  <2>4. req'[p].rank["month"] = n /\ req'[p].rank["minute"] \in 1..RateLimit
    BY <1>2, <2>2, <2>3, WindowNames DEF Request
  <2> QED BY <1>1, <2>1, <2>2, <2>4
<1>4. CASE ExpireMonth(p)
  <2>1. req[p].pc = "expireMonth"
    BY <1>4 DEF ExpireMonth
  <2>2. req[p].rank["month"] >= 1 /\ req[p].rank["minute"] \in 1..RateLimit
    BY <2>1 DEF OwnRank, Admitted
  <2>3. /\ req'[p].pc = AfterMonth(req[p].kind, req[p].seen, req[p].rank["month"])
        /\ req'[p].rank = req[p].rank /\ req'[p].kind = req[p].kind
    BY <1>4, GotoFields DEF ExpireMonth, SameCaller, SameCounts
  <2>4. req[p].rank["month"] \in Nat
    BY RankTypes, WindowNames
  <2> QED BY <1>1, <2>2, <2>3, <2>4
<1>5. CASE IncrDay(p)
  BY <1>5, OwnRankGoto DEF IncrDay, Uncounted, Unmetered, Through, Admitted
<1>6. CASE ExpireDay(p)
  <2>1. req[p].pc = "expireDay" /\ req'[p].pc = "incrMonth" /\ req'[p].rank = req[p].rank
    BY <1>6, ExpireDayFields DEF ExpireDay
  <2> QED BY <2>1 DEF OwnRank, Uncounted, Unmetered, Through, Admitted
<1> QED BY <1>3, <1>4, <1>5, <1>6

LEMMA OwnRankEndpoint ==
  ASSUME TypeOK, NEW p \in Requests, OwnRank(req[p]),
         \/ MarkExceeded(p) \/ Uncache(p) \/ Authenticate(p) \/ Serve(p)
         \/ RotateKey(p) \/ Evict(p) \/ Reply(p) \/ Fail(p)
  PROVE  OwnRank(req'[p])
<1> USE DEF Uncounted, Unmetered, Through, Admitted
<1>1. CASE MarkExceeded(p)
  BY <1>1, OwnRankGoto DEF MarkExceeded
<1>2. CASE Uncache(p)
  BY <1>2, OwnRankGoto DEF Uncache, Verdict, Admit
<1>3. CASE Authenticate(p)
  BY <1>3, OwnRankGoto DEF Authenticate, OwnRank
<1>4. CASE Serve(p) \/ Reply(p)
  BY <1>4, OwnRankGoto DEF Serve, Reply
<1>5. CASE Evict(p)
  BY <1>5, OwnRankGoto DEF Evict
<1>6. CASE Fail(p)
  BY <1>6, OwnRankGoto DEF Fail
<1>7. CASE RotateKey(p)
  <2>1. /\ req[p].pc = "endpoint" /\ req'[p].pc = "evict" /\ req'[p].kind = req[p].kind
        /\ req'[p].rank = req[p].rank
    BY <1>7, RotateKeyFields DEF RotateKey, SameCaller, SameCounts
  <2> QED BY <2>1 DEF OwnRank
<1> QED BY <1>1, <1>2, <1>3, <1>4, <1>5, <1>6, <1>7

LEMMA OwnRankMove ==
  ASSUME TypeOK, NEW p \in Requests, Move(p), OwnRank(req[p]) PROVE OwnRank(req'[p])
BY OwnRankLookup, OwnRankMinute, OwnRankMonth, OwnRankEndpoint DEF Move, Step

\* In the counter of window w a step leaves the request's rank, or takes the next
\* one.
LEMMA RankStep ==
  ASSUME TypeOK, NEW p \in Requests, Move(p), OwnRank(req[p]),
         NEW w \in {"minute", "month"}
  PROVE  \/ /\ req'[p].rank[w] = req[p].rank[w] /\ req'[p].at[w] = req[p].at[w]
            /\ w = "month" \/ req'[p].counted = req[p].counted
         \/ req'[p].rank[w] = 0
         \/ /\ req'[p].at[w] = req[p].at[w] /\ (w = "month" \/ req'[p].counted = now)
            /\ req'[p].rank[w] = count[Counter(p, w)] + 1
            /\ count' = [count EXCEPT ![Counter(p, w)] = count[Counter(p, w)] + 1]
<1>1. CASE SameCounts(p)
  BY <1>1 DEF SameCounts
<1>2. \A pc : Goto(p, pc) => SameCounts(p)
  BY GotoFields
<1>3. req[p] \in Request /\ w \in Windows /\ "minute" # "month" /\ "day" # w
  BY ReqTyped, WindowNames
<1>4. CASE Arrive(p) \/ SelectTenant(p) \/ RotateKey(p)
  BY <1>1, <1>4, ArriveFields, SelectFields, RotateKeyFields
<1>5. CASE Lookup(p) \/ Fill(p)
  <2>1. CASE \E m : Identified(p, m)
    <3>1. /\ req'[p].rank = req[p].rank
          /\ req'[p].at = [req[p].at EXCEPT !["minute"] = Current("minute")]
      BY <2>1, IdentifiedFields
    <3>2. req[p].rank["minute"] = 0
      BY <1>5 DEF Lookup, Fill, OwnRank, Uncounted
    <3> QED BY <1>3, <3>1, <3>2 DEF Request
  <2> QED BY <1>1, <1>2, <1>5, <2>1 DEF Lookup, Fill
<1>6. CASE IncrMinute(p)
  <2> DEFINE n == count[Counter(p, "minute")] + 1
  <2>1. /\ req'[p].at = [req[p].at EXCEPT !["day"] = Current("day")]
        /\ req'[p].rank = [req[p].rank EXCEPT !["minute"] = n] /\ req'[p].counted = now
        /\ count' = [count EXCEPT ![Counter(p, "minute")] = n]
    BY <1>6, IncrMinuteFields DEF IncrMinute
  <2> HIDE DEF n
  <2>2. req'[p].at[w] = req[p].at[w]
    BY <1>3, <2>1 DEF Request
  <2>3. CASE w = "minute"
    <3>1. req'[p].rank[w] = n
      BY <1>3, <2>1, <2>3 DEF Request
    <3> QED BY <2>1, <2>2, <2>3, <3>1 DEF n
  <2>4. CASE w = "month"
    <3>1. req'[p].rank[w] = req[p].rank[w]
      BY <1>3, <2>1, <2>4 DEF Request
    <3> QED BY <2>2, <2>4, <3>1
  <2> QED BY <2>3, <2>4
<1>7. CASE ExpireMinute(p)
  <2>1. /\ req'[p].at = [req[p].at EXCEPT !["day"] = Current("day")]
        /\ req'[p].rank = req[p].rank /\ req'[p].counted = req[p].counted
    BY <1>7, ExpireMinuteFields
  <2> QED BY <1>3, <2>1 DEF Request
<1>8. CASE ExpireDay(p)
  <2>1. /\ req'[p].at = [req[p].at EXCEPT !["month"] = Current("month")]
        /\ req'[p].rank = req[p].rank /\ req'[p].counted = req[p].counted
    BY <1>8, ExpireDayFields
  <2>2. req[p].rank["month"] = 0
    BY <1>8 DEF ExpireDay, OwnRank, Uncounted, Unmetered
  <2> QED BY <1>3, <2>1, <2>2 DEF Request
<1>9. CASE IncrMonth(p)
  <2> DEFINE n == count[Counter(p, "month")] + 1
  <2>1. /\ req'[p].at = req[p].at /\ req'[p].counted = req[p].counted
        /\ req'[p].rank = [req[p].rank EXCEPT !["month"] = n]
        /\ count' = [count EXCEPT ![Counter(p, "month")] = n]
    BY <1>9, IncrMonthFields DEF IncrMonth
  <2> HIDE DEF n
  <2>2. CASE w = "month"
    <3>1. req'[p].rank[w] = n
      BY <1>3, <2>1, <2>2 DEF Request
    <3> QED BY <2>1, <2>2, <3>1 DEF n
  <2>3. CASE w = "minute"
    <3>1. req'[p].rank[w] = req[p].rank[w]
      BY <1>3, <2>1, <2>3 DEF Request
    <3> QED BY <2>1, <3>1
  <2> QED BY <2>2, <2>3
<1>10. CASE \/ IncrDay(p) \/ ExpireMonth(p) \/ MarkExceeded(p) \/ Uncache(p)
            \/ Authenticate(p) \/ Serve(p) \/ Evict(p) \/ Reply(p) \/ Fail(p)
  BY <1>1, <1>2, <1>10
     DEF IncrDay, ExpireMonth, MarkExceeded, Uncache, Authenticate, Serve, Evict, Reply, Fail
<1> QED BY <1>4, <1>5, <1>6, <1>7, <1>8, <1>9, <1>10 DEF Move, Step

LEMMA RanksDifferMove ==
  ASSUME TypeOK, TypeOK', NEW p \in Requests, Move(p), OwnRank(req[p]),
         NEW w \in {"minute", "month"}, RanksDiffer(w)
  PROVE  RanksDiffer(w)'
<1>1. w \in Windows
  BY DEF Windows
<1>2. \A q \in Requests \ {p} : req'[q] = req[q]
  BY MoveTouchesOne
<1>3. \A q \in Requests :
        /\ req[q].rank[w] \in Nat /\ req'[q].rank[w] \in Nat
        /\ Counter(q, w) \in Counters /\ count[Counter(q, w)] \in Nat
        /\ count[Counter(q, w)] <= count'[Counter(q, w)]
        /\ Counter(q, w) = <<w, req[q].at[w]>> /\ Counter(q, w)' = <<w, req'[q].at[w]>>
        /\ count'[Counter(q, w)'] \in Nat
  <2>2. \A q \in Requests : req'[q] \in Request /\ Counter(q, w)' \in Counters
    BY <1>1 DEF TypeOK, Request, PcNames, Counter, Counters
  <2>3. \A q \in Requests : req'[q].rank[w] \in Nat
    BY <1>1, <2>2 DEF Request
  <2>4. \A q \in Requests : count'[Counter(q, w)'] \in Nat
    BY <2>2 DEF TypeOK
  <2>5. \A q \in Requests : Counter(q, w) = <<w, req[q].at[w]>>
                            /\ Counter(q, w)' = <<w, req'[q].at[w]>>
    BY DEF Counter
  <2> QED BY <1>1, <2>3, <2>4, <2>5, RankTypes, CountGrows
<1>4. now' = now
  BY DEF Move, Step, Arrive, Fail, Lookup, SelectTenant, Fill, IncrMinute, ExpireMinute,
         IncrDay, ExpireDay, IncrMonth, ExpireMonth, MarkExceeded, Uncache, Authenticate,
         Serve, RotateKey, Evict, Reply, store
<1>5. ASSUME NEW q \in Requests, req'[q].rank[w] = req[q].rank[w],
             req'[q].at[w] = req[q].at[w], w = "month" \/ req'[q].counted = req[q].counted
      PROVE  /\ Counter(q, w)' = Counter(q, w)
             /\ InTime(req'[q], w) => InTime(req[q], w)
             /\ InTime(req'[q], w) /\ Standing(req[q].at[w], w)'
                  => req'[q].rank[w] <= count'[Counter(q, w)']
  <2>1. Counter(q, w)' = Counter(q, w)
    BY <1>3, <1>5
  <2>2. InTime(req'[q], w) => InTime(req[q], w)
    BY <1>5 DEF InTime
  <2>3. ASSUME InTime(req[q], w), Standing(req[q].at[w], w)'
        PROVE  req[q].rank[w] <= count[Counter(q, w)]
    BY <1>4, <1>5, <2>3 DEF RanksDiffer, Standing
  <2> QED BY <1>3, <1>5, <2>1, <2>2, <2>3
<1>6. ASSUME InTime(req'[p], w) /\ Standing(req[p].at[w], w)'
               => req'[p].rank[w] <= count'[Counter(p, w)'],
             \A q \in Requests \ {p} :
               /\ req'[p].at[w] = req[q].at[w] /\ req'[p].rank[w] = req[q].rank[w]
               /\ InTime(req'[p], w) /\ InTime(req[q], w)
               => req'[p].rank[w] = 0
      PROVE  RanksDiffer(w)'
  <2>1. ASSUME NEW q \in Requests, InTime(req'[q], w), Standing(req[q].at[w], w)'
        PROVE  req'[q].rank[w] <= count'[Counter(q, w)']
    BY <1>2, <1>5, <1>6, <2>1
  <2>2. ASSUME NEW q \in Requests, NEW r \in Requests, q # r,
               req'[q].at[w] = req'[r].at[w], req'[q].rank[w] = req'[r].rank[w],
               InTime(req'[q], w), InTime(req'[r], w)
        PROVE  req'[q].rank[w] = 0
    <3>1. CASE q = p \/ r = p
      BY <1>2, <1>6, <2>2, <3>1
    <3>2. CASE q # p /\ r # p
      <4>1. req'[q] = req[q] /\ req'[r] = req[r]
        BY <1>2, <3>2
      <4>2. /\ req[q].at[w] = req[r].at[w] /\ req[q].rank[w] = req[r].rank[w]
            /\ InTime(req[q], w) /\ InTime(req[r], w)
        BY <2>2, <4>1
      <4>3. req[q].rank[w] = 0
        BY <2>2, <4>2 DEF RanksDiffer
      <4> QED BY <4>1, <4>3
    <3> QED BY <3>1, <3>2
  <2> QED BY <2>1, <2>2 DEF RanksDiffer, InTime
<1>7. CASE /\ req'[p].rank[w] = req[p].rank[w] /\ req'[p].at[w] = req[p].at[w]
           /\ w = "month" \/ req'[p].counted = req[p].counted
  <2>1. \A q \in Requests \ {p} :
          /\ req'[p].at[w] = req[q].at[w] /\ req'[p].rank[w] = req[q].rank[w]
          /\ InTime(req'[p], w) /\ InTime(req[q], w)
          => req'[p].rank[w] = 0
    BY <1>5, <1>7 DEF RanksDiffer
  <2> QED BY <1>5, <1>6, <1>7, <2>1
<1>8. CASE req'[p].rank[w] = 0
  BY <1>3, <1>6, <1>8
<1>9. CASE /\ req'[p].at[w] = req[p].at[w] /\ (w = "month" \/ req'[p].counted = now)
           /\ req'[p].rank[w] = count[Counter(p, w)] + 1
           /\ count' = [count EXCEPT ![Counter(p, w)] = count[Counter(p, w)] + 1]
  <2>1. Counter(p, w)' = Counter(p, w)
    BY <1>3, <1>9
  <2>2. count'[Counter(p, w)] = count[Counter(p, w)] + 1
    BY <1>3, <1>9 DEF TypeOK
  <2>3. req'[p].rank[w] <= count'[Counter(p, w)']
    BY <1>3, <1>9, <2>1, <2>2
  <2>4. ASSUME NEW q \in Requests \ {p}, req'[p].at[w] = req[q].at[w],
               req'[p].rank[w] = req[q].rank[w], InTime(req'[p], w), InTime(req[q], w)
        PROVE  FALSE
    <3>1. Counter(q, w) = Counter(p, w)
      BY <1>3, <1>9, <2>4
    <3>2. Standing(req[q].at[w], w)
      <4>1. CASE w = "month"
        BY <4>1 DEF Standing
      <4>2. CASE w = "minute"
        <5>1. now = req[q].at["minute"] /\ now \in Nat
          BY <1>9, <2>4, <4>2 DEF InTime, TypeOK, Minutes
        <5> QED BY <4>2, <5>1 DEF Standing
      <4> QED BY <4>1, <4>2
    <3>3. req[q].rank[w] <= count[Counter(p, w)]
      BY <2>4, <3>1, <3>2 DEF RanksDiffer
    <3> QED BY <1>3, <1>9, <2>4, <3>3
  <2> QED BY <1>6, <2>3, <2>4
<1> QED BY <1>7, <1>8, <1>9, RankStep

\* The clock and the expiry of a counter take from RanksDiffer only what it does
\* not say of windows that have passed.
LEMMA RanksDifferAway ==
  ASSUME TypeOK, NEW w \in {"minute", "month"}, RanksDiffer(w),
         Tick \/ \E t \in Minutes : ExpireCounter(t)
  PROVE  RanksDiffer(w)'
<1>0. w \in Windows /\ Minutes \subseteq Nat
  BY DEF Windows, Minutes
<1>1. /\ req' = req /\ now \in Nat /\ now' \in Nat /\ now <= now' /\ w \in Windows
      /\ \A q \in Requests : req[q].at[w] \in Nat /\ Counter(q, w) \in Counters
  <2>1. req' = req /\ now \in Nat /\ now' \in {now, now + 1}
    BY <1>0 DEF Tick, ExpireCounter, TypeOK
  <2>2. \A q \in Requests : req[q].at[w] \in Nat /\ Counter(q, w) \in Counters
    BY <1>0, RankTypes
  <2> QED BY <1>0, <2>1, <2>2
<1>2. \A t \in Nat : Standing(t, w)' => Standing(t, w)
  BY <1>1 DEF Standing
<1>3. ASSUME NEW q \in Requests, Standing(req[q].at[w], w)'
      PROVE  count'[Counter(q, w)] = count[Counter(q, w)]
  <2>1. CASE Tick
    BY <2>1 DEF Tick
  <2>2. ASSUME NEW t \in Minutes, ExpireCounter(t)
        PROVE  count'[Counter(q, w)] = count[Counter(q, w)]
    <3>1. /\ count' = [count EXCEPT ![<<"minute", t>>] = 0] /\ now > t /\ now' = now
          /\ t \in Nat
      BY <2>2 DEF ExpireCounter, Minutes
    <3>2. Counter(q, w) # <<"minute", t>>
      BY <1>1, <1>3, <3>1 DEF Counter, Standing
    <3> QED BY <1>1, <3>1, <3>2 DEF TypeOK
  <2> QED BY <2>1, <2>2
<1>4. ASSUME NEW q \in Requests, InTime(req[q], w), Standing(req[q].at[w], w)'
      PROVE  req[q].rank[w] <= count'[Counter(q, w)]
  BY <1>1, <1>2, <1>3, <1>4 DEF RanksDiffer
<1>5. \A q \in Requests : Counter(q, w)' = Counter(q, w)
  BY <1>1 DEF Counter
<1> QED BY <1>1, <1>4, <1>5 DEF RanksDiffer, InTime

LEMMA RankedNext ==
  ASSUME TypeOK, TypeOK', Ranked, [Next]_vars PROVE Ranked'
<1>1. CASE UNCHANGED vars \/ \E k \in Keys : ExpireEntry(k)
  <2>1. UNCHANGED <<count, req, now>>
    BY <1>1 DEF ExpireEntry, vars
  <2> QED BY <2>1 DEF Ranked, OwnRank, RanksDiffer, Counter, InTime, Standing
<1>2. CASE Tick \/ \E t \in Minutes : ExpireCounter(t)
  <2>1. req' = req
    BY <1>2 DEF Tick, ExpireCounter
  <2>2. RanksDiffer("minute")' /\ RanksDiffer("month")'
    BY <1>2, RanksDifferAway DEF Ranked
  <2> QED BY <2>1, <2>2 DEF Ranked, OwnRank
<1>3. ASSUME NEW p \in Requests, Move(p) PROVE Ranked'
  <2>1. OwnRank(req[p]) /\ RanksDiffer("minute") /\ RanksDiffer("month")
    BY DEF Ranked
  <2>2. \A q \in Requests : OwnRank(req'[q])
    BY <1>3, <2>1, OwnRankMove, MoveTouchesOne DEF Ranked
  <2>3. RanksDiffer("minute")' /\ RanksDiffer("month")'
    BY <1>3, <2>1, RanksDifferMove
  <2> QED BY <2>2, <2>3 DEF Ranked, OwnRank
<1> QED BY <1>1, <1>2, <1>3 DEF Next, Move

\* Requests of one counter that have ranks up to n are at most n.
LEMMA RankedAtMost ==
  ASSUME NEW w \in {"minute", "month"}, RanksDiffer(w), NEW t \in Minutes, NEW n \in Nat,
         NEW S \in SUBSET Requests,
         \A p \in S : /\ req[p].at[w] = t /\ req[p].rank[w] \in 1..n
                      /\ InTime(req[p], w)
  PROVE  Cardinality(S) <= n
<1> DEFINE f == [p \in S |-> req[p].rank[w]]
<1>1. f \in [S -> 1..n]
  OBVIOUS
<1>2. \A p, q \in S : f[p] = f[q] => p = q
  BY DEF RanksDiffer
<1>3. IsFiniteSet(1..n) /\ Cardinality(1..n) = n
  BY FS_Interval
<1>4. f \in Injection(S, 1..n)
  BY <1>1, <1>2 DEF Injection, IsInjective
<1> QED BY <1>3, <1>4, FS_Injection

\* No minute serves more requests counted in it than the rate limit, and no month
\* more orders than the quota, however many requests there are.
THEOREM LimitsRespectedHolds == Spec => []LimitsRespected
<1>1. Init => Ranked
  <2> SUFFICES ASSUME Init PROVE Ranked
    OBVIOUS
  <2>1. ASSUME NEW p \in Requests, NEW w \in Windows
        PROVE  /\ req[p].pc = "new" /\ req[p].rank[w] = 0 /\ req[p].at[w] = 0
               /\ Counter(p, w) = <<w, 0>>
    BY DEF Init, Counter
  <2>2. 0 \in Minutes
    BY MeteringAssumption DEF Minutes
  <2>3. \A w \in Windows : count[<<w, 0>>] = 0
    BY <2>2 DEF Init, Counters
  <2>4. \A w \in Windows : RanksDiffer(w)
    BY <2>1, <2>3 DEF RanksDiffer
  <2>5. \A p \in Requests : OwnRank(req[p])
    BY <2>1, WindowNames DEF OwnRank, Through, Admitted
  <2> QED BY <2>4, <2>5, WindowNames DEF Ranked
<1>2. TypeOK /\ TypeOK' /\ Ranked /\ [Next]_vars => Ranked'
  BY RankedNext
<1>3. TypeOK /\ Ranked => LimitsRespected
  <2> SUFFICES ASSUME TypeOK, Ranked, NEW t \in Minutes
               PROVE  /\ Cardinality({p \in Served("minute", t) : req[p].counted = t})
                           <= RateLimit
                      /\ Cardinality({p \in Served("month", t) : req[p].kind = "create"})
                           <= MonthlyQuota
    BY DEF LimitsRespected
  <2> DEFINE Passed == {p \in Served("minute", t) : req[p].counted = t}
  <2>1. /\ Passed \in SUBSET Requests
        /\ \A p \in Passed : /\ req[p].at["minute"] = t
                             /\ req[p].rank["minute"] \in 1..RateLimit
                             /\ InTime(req[p], "minute")
    BY DEF Served, Ranked, OwnRank, Admitted, Through, InTime
  <2> DEFINE Created == {p \in Served("month", t) : req[p].kind = "create"}
  <2>2. /\ Created \in SUBSET Requests
        /\ \A p \in Created :
             /\ req[p].at["month"] = t /\ req[p].rank["month"] \in 1..MonthlyQuota
             /\ InTime(req[p], "month")
    BY DEF Served, Ranked, OwnRank, Through, InTime
  <2> HIDE DEF Passed, Created
  <2>3. RanksDiffer("minute") /\ RanksDiffer("month")
    BY DEF Ranked
  <2>4. Cardinality(Passed) <= RateLimit
    BY <2>1, <2>3, RankedAtMost, MeteringAssumption
  <2>5. Cardinality(Created) <= MonthlyQuota
    BY <2>2, <2>3, RankedAtMost, MeteringAssumption
  <2> QED BY <2>4, <2>5 DEF Passed, Created
<1> QED BY MeteringTypes, <1>1, <1>2, <1>3, PTL DEF Spec
=============================================================================
