------------------------ MODULE MCConnectionManager ------------------------
(***************************************************************************)
(* Instances of ConnectionManager for TLC.                                 *)
(***************************************************************************)
EXTENDS ConnectionManager, TLC

CONSTANTS t1, t2, t3, w1

TrackerSymmetry == Permutations(Trackers)
=============================================================================
