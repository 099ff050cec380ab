--------------------------- MODULE OrderLifecycle ---------------------------
(***************************************************************************)
(* What becomes of one order: it is created once, and then changes only by *)
(* one of five moves, each of them atomic.  Four keep to the state machine *)
(* as of the status the order has at that moment.  The fifth, the end of a *)
(* search that found nobody, does not: README.md calls the state machine   *)
(* non-bypassable and lets an order get to NO_DRIVER_AVAILABLE from        *)
(* DRIVER_PENDING alone, the code takes it there from every status in      *)
(* which a search may start.                                               *)
(***************************************************************************)
EXTENDS OrderStateMachine

CONSTANTS Orders, Drivers, NoDriver
VARIABLE life

Unborn == [status |-> "ABSENT", driver |-> NoDriver]

Become(o, status, driver) ==
  life' = [life EXCEPT ![o] = [status |-> status, driver |-> driver]]

May(o, status) == life[o] # Unborn /\ ValidTransition(life[o].status, status)

Create(o) == life[o] = Unborn /\ Become(o, "CREATED", NoDriver)

\* The assignment engine proposes d.
Offer(o, d) == May(o, "DRIVER_PENDING") /\ Become(o, "DRIVER_PENDING", d)

\* It finds nobody.  A search may start in these statuses; its outcome is not
\* checked again, and two of the four moves are none of the state machine's.
Searched == {"CREATED", "DRIVER_PENDING", "ASSIGNED", "NO_DRIVER_AVAILABLE"}
Exhaust(o) == life[o].status \in Searched /\ Become(o, "NO_DRIVER_AVAILABLE", NoDriver)

\* The proposed driver accepts, or a dispatcher names one.
Accept(o) ==
  /\ life[o].status = "DRIVER_PENDING" /\ life[o].driver # NoDriver
  /\ Become(o, "ASSIGNED", life[o].driver)
Assign(o, d) == May(o, "ASSIGNED") /\ Become(o, "ASSIGNED", d)

\* The order moves on; picking it up puts it in transit at once.
Advance(o, status, d) ==
  /\ May(o, status)
  /\ Become(o, IF status = "PICKED_UP" THEN "IN_TRANSIT" ELSE status, d)

Init == life = [o \in Orders |-> Unborn]

Next ==
  \E o \in Orders :
    \/ Create(o) \/ Exhaust(o) \/ Accept(o)
    \/ \E d \in Drivers : Offer(o, d) \/ Assign(o, d)
    \/ \E status \in OrderStatus, d \in Drivers \cup {life[o].driver} :
         Advance(o, status, d)

Spec == Init /\ [][Next]_life
=============================================================================
