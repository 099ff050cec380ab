-------------------------- MODULE MCNotifications --------------------------
(***************************************************************************)
(* Instances of Notifications for TLC.                                     *)
(***************************************************************************)
EXTENDS Notifications, TLC

CONSTANTS m1, m2

\* A tenant's own preferences: the channels that can fail come first.
ProvidersFirst == <<"PUSH", "EMAIL", "WEBSOCKET">>

\* The default preferences for ASSIGNED and PICKED_UP, and for DELIVERED.
TwoChannels   == <<"WEBSOCKET", "PUSH">>
ThreeChannels == <<"WEBSOCKET", "PUSH", "EMAIL">>

MessageSymmetry == Permutations(Messages)
=============================================================================
