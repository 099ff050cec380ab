------------------------- MODULE OrderStateMachine -------------------------
(***************************************************************************)
(* The delivery life cycle of services/state_machine.py: the statuses an   *)
(* order can have and the relation that OrderStateMachine consults before  *)
(* a handler moves an order from one status to the next.                   *)
(***************************************************************************)

\* The OrderStatus enumeration of models/order.py.
OrderStatus ==
  { "CREATED", "DRIVER_PENDING", "ASSIGNED", "PICKED_UP", "IN_TRANSIT",
    "DELIVERED", "CANCELLED", "NO_DRIVER_AVAILABLE" }

\* The dictionary of allowed moves, as the relation it denotes.  DELIVERED and
\* CANCELLED map to the empty set and so have no outgoing edge.
VALID_TRANSITIONS ==
  { <<"CREATED", "DRIVER_PENDING">>,        <<"CREATED", "CANCELLED">>,
    <<"DRIVER_PENDING", "ASSIGNED">>,       <<"DRIVER_PENDING", "CANCELLED">>,
    <<"DRIVER_PENDING", "NO_DRIVER_AVAILABLE">>,
    <<"ASSIGNED", "PICKED_UP">>,            <<"ASSIGNED", "DRIVER_PENDING">>,
    <<"ASSIGNED", "CANCELLED">>,
    <<"PICKED_UP", "IN_TRANSIT">>,          <<"IN_TRANSIT", "DELIVERED">>,
    <<"NO_DRIVER_AVAILABLE", "DRIVER_PENDING">>,
    <<"NO_DRIVER_AVAILABLE", "CANCELLED">> }

\* validate_transition returns (TRUE) or raises InvalidTransitionError (FALSE):
\* asking for the status the order already has is always accepted.
ValidTransition(current, next) ==
  \/ next = current
  \/ <<current, next>> \in VALID_TRANSITIONS
=============================================================================
