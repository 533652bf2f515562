------------------------ MODULE MCNotificationQueue ------------------------
(***************************************************************************)
(* NotificationQueue with readings that differ in the fan's speed, so that *)
(* two jobs for one recommendation can be told apart.                      *)
(***************************************************************************)
EXTENDS NotificationQueue

CONSTANT Speeds

MCJob == [rec : Kind, speed : Speeds]

=============================================================================
