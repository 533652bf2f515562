----------------------- MODULE MCNotificationService -----------------------
(***************************************************************************)
(* NotificationService on a short day and readings on both sides of the    *)
(* house temperature.                                                      *)
(***************************************************************************)
EXTENDS NotificationService

MCJob == [rec : Kind, now : 0 .. MaxClock, speed : Speeds]

=============================================================================
