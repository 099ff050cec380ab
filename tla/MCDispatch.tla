----------------------------- MODULE MCDispatch -----------------------------
(***************************************************************************)
(* Instances of Dispatch for TLC.                                          *)
(***************************************************************************)
EXTENDS Dispatch, TLC

CONSTANTS o1, o2, d1, d2, p1, p2

\* Both drivers are near every pickup.
AllInRange == [o \in Orders |-> Drivers]

\* Slots and orders are interchangeable; so are the drivers of an instance where
\* all of them start ONLINE.
SlotAndDriverSymmetry == Permutations(Procs) \cup Permutations(Drivers)
SlotAndOrderSymmetry == Permutations(Procs) \cup Permutations(Orders)
=============================================================================
