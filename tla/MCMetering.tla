----------------------------- MODULE MCMetering -----------------------------
(***************************************************************************)
(* Instances of Metering for TLC.                                          *)
(***************************************************************************)
EXTENDS Metering

\* The month turns while requests are under way, the day has two minutes.
Calendar == [minute |-> 1, day |-> 2, month |-> 1]
=============================================================================
