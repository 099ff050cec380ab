---------------------------- MODULE MCAnalytics ----------------------------
(***************************************************************************)
(* Instances of Analytics for TLC.                                         *)
(***************************************************************************)
EXTENDS Analytics, TLC

CONSTANTS m1, m2, m3, m4, o1, o2, o3, d1, none

\* One order is dispatched twice.  Two have a driver, the same, and one has none:
\* tasks meet in the row of the driver, or in the tenant's alone.
OrderOfMessage == (m1 :> o1) @@ (m2 :> o1) @@ (m3 :> o2) @@ (m4 :> o3)
DriverOfOrder  == (o1 :> d1) @@ (o2 :> d1) @@ (o3 :> none)
=============================================================================
