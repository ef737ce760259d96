------------------------- MODULE MCNotificationCrud -------------------------
(* A small instance of NotificationCrud for TLC. *)
EXTENDS NotificationCrud, MCNotificationWrite
=============================================================================
