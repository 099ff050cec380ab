------------------------- MODULE ConnectionManager -------------------------
(***************************************************************************)
(* services/connection_manager.py and its endpoints api/websockets.py on   *)
(* one node: the clients that track one delivery, those of the fleet view, *)
(* and the listeners of the delivery's Redis channel.                      *)
(*                                                                         *)
(* Handlers and listeners are coroutines of one event loop: an action goes *)
(* from one await to the next.  delivery_connections[id] is a list object  *)
(* that is deleted when it is empty, and every new list has a listener of  *)
(* its own; both are named by the number of the list.  cancel() ends a     *)
(* listener where it next awaits.                                          *)
(***************************************************************************)
EXTENDS Naturals, Sequences, FiniteSets

CONSTANTS
  Trackers,     \* clients of /track/{delivery_id}
  Watchers,     \* clients of /fleet
  MaxMessages,  \* bound on the messages published to the channel
  MaxFailures   \* bound on the failures of Redis that a listener meets

ASSUME ConnectionAssumption ==
  /\ IsFiniteSet(Trackers) /\ IsFiniteSet(Watchers)
  /\ Trackers \cap Watchers = {}
  /\ MaxMessages \in Nat /\ MaxFailures \in Nat

Clients  == Trackers \cup Watchers
Lists    == 1..Cardinality(Trackers)
Messages == 1..MaxMessages

VARIABLES
  client,    \* the handler and the connection of each client
  lists,     \* the list objects
  current,   \* delivery_connections[id], 0 if there is none
  entry,     \* redis_tasks[id], 0 if there is none
  listener,  \* the listener of each list
  fleet,     \* fleet_connections
  published, \* the last message of the channel
  got,       \* the messages that each client was sent
  failures

vars == <<client, lists, current, entry, listener, fleet, published, got,
          failures>>

Elements(s) == {s[i] : i \in DOMAIN s}

\* The n-th of a set of positions.
Nth(K, n) == CHOOSE i \in K : Cardinality({j \in K : j <= i}) = n

\* s after the removal of the members of S; the others keep their order.
Without(s, S) ==
  LET K == {i \in DOMAIN s : s[i] \notin S}
  IN  [n \in 1..Cardinality(K) |-> s[Nth(K, n)]]

Stopped == {"none", "closing", "ended"}

Init ==
  /\ client = [c \in Clients |-> [pc |-> "new", alive |-> FALSE]]
  /\ lists = [g \in Lists |-> <<>>]
  /\ current = 0 /\ entry = 0
  /\ listener = [g \in Lists |->
                  [pc |-> "none", cancelled |-> FALSE, next |-> 0, at |-> 1,
                   stale |-> {}, left |-> 0]]
  /\ fleet = <<>>
  /\ published = 0
  /\ got = [c \in Clients |-> <<>>]
  /\ failures = 0

\* The list that a next connect would create.
Unused == Cardinality({g \in Lists : listener[g].pc # "none"}) + 1

-----------------------------------------------------------------------------
(* The handler of a client *)

\* accept() is awaited.
Connect(c) ==
  /\ client[c].pc = "new"
  /\ client' = [client EXCEPT ![c] = [pc |-> "accepting", alive |-> TRUE]]
  /\ UNCHANGED <<lists, current, entry, listener, fleet, published, got, failures>>

\* accept() raises, outside of the try.
AcceptFails(c) ==
  /\ client[c].pc = "accepting"
  /\ client' = [client EXCEPT ![c] = [pc |-> "refused", alive |-> FALSE]]
  /\ UNCHANGED <<lists, current, entry, listener, fleet, published, got, failures>>

\* connect_track after accept(): the first client of a list starts its listener.
ConnectTrack(c) ==
  /\ client[c].pc = "accepting"
  /\ client' = [client EXCEPT ![c].pc = "open"]
  /\ LET g == IF current = 0 THEN Unused ELSE current IN
       /\ current' = g
       /\ lists' = [lists EXCEPT ![g] = Append(@, c)]
       /\ IF Len(lists'[g]) = 1
          THEN entry' = g /\ listener' = [listener EXCEPT ![g].pc = "created"]
          ELSE UNCHANGED <<entry, listener>>
  /\ UNCHANGED <<fleet, published, got, failures>>

\* connect_fleet after accept().
ConnectFleet(c) ==
  /\ client[c].pc = "accepting"
  /\ client' = [client EXCEPT ![c].pc = "open"]
  /\ fleet' = Append(fleet, c)
  /\ UNCHANGED <<lists, current, entry, listener, published, got, failures>>

\* The connection of a client breaks; its handler learns of it later.
Drop(c) ==
  /\ client[c].alive
  /\ client' = [client EXCEPT ![c].alive = FALSE]
  /\ UNCHANGED <<lists, current, entry, listener, fleet, published, got, failures>>

\* Mutant: the listener of a list that is empty is forgotten, not cancelled.
LeaveTrack_Forgets(c) ==
  /\ client[c].pc = "open" /\ ~client[c].alive
  /\ client' = [client EXCEPT ![c].pc = "closed"]
  /\ IF current = 0 THEN UNCHANGED <<lists, current, entry, listener>>
     ELSE LET rest == Without(lists[current], {c})
              gone == Len(lists[current]) - Len(rest) IN
          /\ lists' = [lists EXCEPT ![current] = rest]
          /\ IF rest = <<>>
             THEN /\ current' = 0 /\ entry' = 0
                  /\ UNCHANGED listener
             ELSE /\ listener' = [listener EXCEPT ![current].left = @ + gone]
                  /\ UNCHANGED <<current, entry>>
  /\ UNCHANGED <<fleet, published, got, failures>>

\* Mutant: the key is deleted whatever the list still holds.
LeaveTrack_Deletes(c) ==
  /\ client[c].pc = "open" /\ ~client[c].alive
  /\ client' = [client EXCEPT ![c].pc = "closed"]
  /\ IF current = 0 THEN UNCHANGED <<lists, current, entry, listener>>
     ELSE LET rest == Without(lists[current], {c})
              gone == Len(lists[current]) - Len(rest) IN
          /\ lists' = [lists EXCEPT ![current] = rest]
          /\ IF gone = 1
             THEN /\ current' = 0 /\ entry' = 0
                  /\ listener' = [listener EXCEPT ![entry].cancelled = TRUE]
             ELSE /\ listener' = [listener EXCEPT ![current].left = @ + gone]
                  /\ UNCHANGED <<current, entry>>
  /\ UNCHANGED <<fleet, published, got, failures>>

\* receive_text raises: disconnect_track.  The last client takes the list with it,
\* and cancels the listener.
LeaveTrack(c) ==
  /\ client[c].pc = "open" /\ ~client[c].alive
  /\ client' = [client EXCEPT ![c].pc = "closed"]
  /\ IF current = 0 THEN UNCHANGED <<lists, current, entry, listener>>
     ELSE LET rest == Without(lists[current], {c})
              gone == Len(lists[current]) - Len(rest) IN
          /\ lists' = [lists EXCEPT ![current] = rest]
          /\ IF rest = <<>>
             THEN /\ current' = 0 /\ entry' = 0
                  /\ listener' = [listener EXCEPT ![entry].cancelled = TRUE]
             ELSE /\ listener' = [listener EXCEPT ![current].left = @ + gone]
                  /\ UNCHANGED <<current, entry>>
  /\ UNCHANGED <<fleet, published, got, failures>>

\* The same for disconnect_fleet.
LeaveFleet(c) ==
  /\ client[c].pc = "open" /\ ~client[c].alive
  /\ client' = [client EXCEPT ![c].pc = "closed"]
  /\ fleet' = Without(fleet, {c})
  /\ UNCHANGED <<lists, current, entry, listener, published, got, failures>>

-----------------------------------------------------------------------------
(* The listener of a list *)

Active(g, pc) == listener[g].pc = pc /\ ~listener[g].cancelled

\* Mutant: the listener begins with what was published before.
Subscribe_Replays(g) ==
  /\ Active(g, "created")
  /\ listener' = [listener EXCEPT ![g].pc = "listen", ![g].next = 1]
  /\ UNCHANGED <<client, lists, current, entry, fleet, published, got, failures>>

\* SUBSCRIBE: it hears what is published from now on.
Subscribe(g) ==
  /\ Active(g, "created")
  /\ listener' = [listener EXCEPT ![g].pc = "listen", ![g].next = published + 1]
  /\ UNCHANGED <<client, lists, current, entry, fleet, published, got, failures>>

\* A message: broadcast_delivery begins with the clients of the list.
Receive(g) ==
  /\ Active(g, "listen") /\ listener[g].next <= published
  /\ listener' = [listener EXCEPT ![g].pc = "track", ![g].at = 1, ![g].stale = {},
                                  ![g].left = 0]
  /\ UNCHANGED <<client, lists, current, entry, fleet, published, got, failures>>

\* Mutant: the first send that raises ends the loop.
SendTo_Breaks(g, s) ==
  LET c == s[listener[g].at] IN
  /\ listener[g].at <= Len(s)
  /\ IF client[c].alive
     THEN /\ got' = [got EXCEPT ![c] = Append(@, listener[g].next)]
          /\ listener' = [listener EXCEPT ![g].at = @ + 1]
     ELSE /\ listener' = [listener EXCEPT ![g].at = Len(s) + 1, ![g].stale = @ \cup {c}]
          /\ UNCHANGED got

\* send_json to the next client of s, the list being iterated by position. To
\* a broken connection it raises, or is lost in a buffer.
SendTo(g, s) ==
  LET c == s[listener[g].at] IN
  /\ listener[g].at <= Len(s)
  /\ \/ /\ client[c].alive
        /\ got' = [got EXCEPT ![c] = Append(@, listener[g].next)]
        /\ listener' = [listener EXCEPT ![g].at = @ + 1]
     \/ /\ ~client[c].alive
        /\ \E S \in {{}, {c}} :
             listener' = [listener EXCEPT ![g].at = @ + 1, ![g].stale = @ \cup S]
        /\ UNCHANGED got

SendTrack(g) ==
  /\ Active(g, "track")
  /\ SendTo(g, lists[g])
  /\ UNCHANGED <<client, lists, current, entry, fleet, published, failures>>

\* The messages from i to j.
Span(i, j) == [k \in 1..(j + 1) - i |-> i + k - 1]

\* The listener has cancelled itself, and goes on until a send or a read suspends:
\* it sends all messages before last to the whole fleet, last to the first n of
\* it, and removes the clients whose send has raised after each of them.
RunOut(g) ==
  \E last \in listener[g].next..published, n \in 0..Len(fleet) :
    /\ got' = [c \in Clients |->
         IF ~client[c].alive \/ c \notin Elements(fleet) THEN got[c]
         ELSE IF c \in Elements(SubSeq(fleet, 1, n))
         THEN got[c] \o Span(listener[g].next, last)
         ELSE got[c] \o Span(listener[g].next, last - 1)]
    /\ \E S \in SUBSET {c \in Elements(fleet) : ~client[c].alive} :
         /\ last = listener[g].next /\ n < Len(fleet) => S = {}
         /\ fleet' = Without(fleet, S)

\* The clients whose send has raised are removed.  If no client is left, the list
\* goes and its listener is cancelled, by itself.
EndTrack(g) ==
  LET rest == Without(lists[g], listener[g].stale) IN
  /\ Active(g, "track") /\ listener[g].at > Len(lists[g])
  /\ lists' = [lists EXCEPT ![g] = rest]
  /\ IF rest # <<>>
     THEN /\ listener' = [listener EXCEPT ![g].pc = "fleet", ![g].at = 1, ![g].stale = {}]
          /\ UNCHANGED <<current, entry, fleet, got>>
     ELSE /\ current' = 0 /\ entry' = 0
          /\ listener' = [listener EXCEPT ![g].pc = "closing", ![g].cancelled = TRUE]
          /\ RunOut(g)
  /\ UNCHANGED <<client, published, failures>>

SendFleet(g) ==
  /\ Active(g, "fleet")
  /\ SendTo(g, fleet)
  /\ UNCHANGED <<client, lists, current, entry, fleet, published, failures>>

\* Mutant: what was published during a broadcast is passed over.
EndFleet_Skips(g) ==
  /\ Active(g, "fleet") /\ listener[g].at > Len(fleet)
  /\ fleet' = Without(fleet, listener[g].stale)
  /\ listener' = [listener EXCEPT ![g].pc = "listen", ![g].next = @ + published]
  /\ UNCHANGED <<client, lists, current, entry, published, got, failures>>

EndFleet(g) ==
  /\ Active(g, "fleet") /\ listener[g].at > Len(fleet)
  /\ fleet' = Without(fleet, listener[g].stale)
  /\ listener' = [listener EXCEPT ![g].pc = "listen", ![g].next = @ + 1]
  /\ UNCHANGED <<client, lists, current, entry, published, got, failures>>

\* CancelledError: a listener that has not begun is just dropped.
Cancelled(g) ==
  /\ listener[g].cancelled /\ listener[g].pc \notin Stopped
  /\ listener' = [listener EXCEPT
       ![g].pc = IF @ = "created" THEN "ended" ELSE "closing"]
  /\ UNCHANGED <<client, lists, current, entry, fleet, published, got, failures>>

\* The connection to Redis fails: in the subscribe the task ends, in the loop
\* it closes.  Its entry and its clients stay.
ListenerFails(g) ==
  /\ failures < MaxFailures
  /\ failures' = failures + 1
  /\ \/ Active(g, "created") /\ listener' = [listener EXCEPT ![g].pc = "ended"]
     \/ Active(g, "listen")  /\ listener' = [listener EXCEPT ![g].pc = "closing"]
  /\ UNCHANGED <<client, lists, current, entry, fleet, published, got>>

\* finally: UNSUBSCRIBE, and the connection is closed.
Close(g) ==
  /\ listener[g].pc = "closing"
  /\ listener' = [listener EXCEPT ![g].pc = "ended"]
  /\ UNCHANGED <<client, lists, current, entry, fleet, published, got, failures>>

-----------------------------------------------------------------------------
(* Specification *)

Publish ==
  /\ published < MaxMessages
  /\ published' = published + 1
  /\ UNCHANGED <<client, lists, current, entry, listener, fleet, got, failures>>

Listen(g) ==
  \/ Subscribe(g) \/ Receive(g) \/ SendTrack(g) \/ EndTrack(g) \/ SendFleet(g)
  \/ EndFleet(g) \/ Cancelled(g) \/ Close(g)

Handle(c) ==
  \/ c \in Trackers /\ (ConnectTrack(c) \/ LeaveTrack(c))
  \/ c \in Watchers /\ (ConnectFleet(c) \/ LeaveFleet(c))

Next ==
  \/ \E c \in Clients : Connect(c) \/ AcceptFails(c) \/ Drop(c) \/ Handle(c)
  \/ \E g \in Lists : Listen(g) \/ ListenerFails(g)
  \/ Publish

Spec == Init /\ [][Next]_vars

\* The event loop goes on with handlers and listeners. (A send that is stuck is
\* ended by the keepalive of the server: the connection is dropped.)
FairSpec ==
  /\ Spec
  /\ \A c \in Clients : WF_vars(Handle(c))
  /\ \A g \in Lists : WF_vars(Listen(g))

-----------------------------------------------------------------------------
(* Properties *)

TypeOK ==
  /\ client \in [Clients -> [pc : {"new", "accepting", "refused", "open", "closed"},
                             alive : BOOLEAN]]
  /\ lists \in [Lists -> Seq(Trackers)] /\ fleet \in Seq(Watchers)
  /\ current \in Lists \cup {0} /\ entry \in Lists \cup {0}
  /\ listener \in [Lists -> [pc : Stopped \cup {"created", "listen", "track", "fleet"},
                             cancelled : BOOLEAN, next : 0..MaxMessages + 1,
                             at : Nat \ {0}, stale : SUBSET Clients, left : Nat]]
  /\ published \in 0..MaxMessages
  /\ got \in [Clients -> Seq(Messages)]
  /\ failures \in 0..MaxFailures

\* While clients track the delivery, the entry is the one listener that was not
\* cancelled, and it has stopped only if Redis has failed it; without clients no
\* listener goes on.
OneListener ==
  /\ entry = current
  /\ current # 0 =>
       /\ lists[current] # <<>>
       /\ ~listener[current].cancelled
       /\ listener[current].pc \in Stopped => failures > 0
  /\ \A g \in Lists \ {current} :
       listener[g].cancelled \/ listener[g].pc \in Stopped

\* Connects, disconnects and the listener's clean-up do not lose a client, nor
\* keep one twice: a connected client is in the list that is served.
Registered ==
  /\ \A c \in Trackers :
       client[c].pc = "open" /\ client[c].alive =>
         current # 0 /\ c \in Elements(lists[current])
  /\ \A c \in Watchers :
       client[c].pc = "open" /\ client[c].alive => c \in Elements(fleet)
  /\ \A g \in Lists : Cardinality(Elements(lists[g])) = Len(lists[g])
  /\ Cardinality(Elements(fleet)) = Len(fleet)

\* A client sees updates in the order in which they were published, none twice,
\* though lists change under the iteration and listeners replace each other.
UpdatesInOrder ==
  \A c \in Clients : \A i, j \in DOMAIN got[c] : i < j => got[c][i] < got[c][j]

\* A broadcast misses connected clients of its list only if others have left it
\* meanwhile, at most one for each.
SkipsBounded ==
  \A g \in Lists :
    Active(g, "track") /\ listener[g].at > Len(lists[g]) =>
      Cardinality({c \in Elements(lists[g]) :
                     client[c].alive /\ listener[g].next \notin Elements(got[c])})
        <= listener[g].left

\* The fleet view is subscribed to the channel of a delivery, for as long as one
\* of its clients is connected.
FleetSubscribed ==
  \A c \in Watchers :
    c \in Elements(fleet) ~>
      ~client[c].alive \/ \E g \in Lists : listener[g].pc \in {"listen", "track", "fleet"}
=============================================================================
