---------------------------- MODULE NotifChannel ----------------------------
(***************************************************************************)
(* The channels of a notification, and what QueueCommunicationPort has for *)
(* them.                                                                   *)
(***************************************************************************)

QueueChannel == {"email", "sms", "whatsapp"}

\* The channels dispatch has a queue for, and those whose queue gets the key.
Transported == {"email", "sms"}
ForwardsKey == {"sms"}
=============================================================================
