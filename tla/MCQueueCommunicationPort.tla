----------------------- MODULE MCQueueCommunicationPort ---------------------
(* An e-mail, two texts that read the same, one that no notification id     *)
(* stands behind, and a message for a channel without a queue.              *)
EXTENDS QueueCommunicationPort

CONSTANTS k1, k2, k3, k4, k5, hello, code

To(key, channel) ==
    [key |-> key, channel |-> channel, content |-> IF key = k4 THEN code ELSE hello]

MCDispatchRequest ==
    {To(k1, "email"), To(k2, "sms"), To(k3, "sms"), To(k4, "sms"), To(k5, "whatsapp")}
=============================================================================
