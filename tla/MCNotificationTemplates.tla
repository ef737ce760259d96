---------------------- MODULE MCNotificationTemplates -----------------------
(* Small instances of NotificationTemplates for TLC. *)
EXTENDS NotificationTemplates
=============================================================================
