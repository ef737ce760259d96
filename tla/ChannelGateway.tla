--------------------------- MODULE ChannelGateway ---------------------------
(***************************************************************************)
(* What the engine relies on behind CommunicationPort, whoever implements  *)
(* it: callers dispatch requests, and each call is acknowledged with the   *)
(* id of a staged row that holds the very content asked for, or rejected.  *)
(* A row once staged stays; a rejection stages nothing, unless the answer  *)
(* was lost on its way.                                                    *)
(***************************************************************************)
EXTENDS Naturals, Sequences

CONSTANTS
    Caller,          \* the tasks that call dispatch
    DispatchRequest, \* the requests: records with a channel and a content
    Channel,
    Transported      \* the channels that have a transport

VARIABLES
    accepted,        \* channel -> sequence of the contents staged on it
    asked,           \* caller -> the set of at most one request it has in hand
    told             \* caller -> the answer, once there is one

gatewayVars == <<accepted, asked, told>>

Ack(id)    == [state |-> "accepted", id |-> id]
Rejected   == [state |-> "rejected", id |-> 0]
Unanswered == [state |-> "none", id |-> 0]

Open(c, q) == asked[c] = {q} /\ told[c] = Unanswered

Tell(c, a) == told' = [told EXCEPT ![c] = a] /\ UNCHANGED asked

GatewayInit ==
    /\ accepted = [ch \in Channel |-> <<>>]
    /\ asked = [c \in Caller |-> {}]
    /\ told = [c \in Caller |-> Unanswered]

Ask(c, q) ==
    /\ asked[c] = {}
    /\ asked' = [asked EXCEPT ![c] = {q}]
    /\ UNCHANGED <<accepted, told>>

StageRow(q) ==
    /\ q.channel \in Transported
    /\ accepted' = [accepted EXCEPT ![q.channel] = Append(@, q.content)]

\* A new row, or one staged before for the same content.
Accept(c, q) ==
    /\ Open(c, q)
    /\ \/ StageRow(q) /\ Tell(c, Ack(Len(accepted[q.channel]) + 1))
       \/ \E id \in DOMAIN accepted[q.channel] :
             /\ accepted[q.channel][id] = q.content
             /\ Tell(c, Ack(id))
             /\ UNCHANGED accepted

Refuse(c, q) == Open(c, q) /\ Tell(c, Rejected) /\ UNCHANGED accepted
Lose(c, q)   == Open(c, q) /\ Tell(c, Rejected) /\ StageRow(q)

\* The call returns, or its task dies.
Leave(c) ==
    /\ asked[c] # {}
    /\ asked' = [asked EXCEPT ![c] = {}]
    /\ told' = [told EXCEPT ![c] = Unanswered]
    /\ UNCHANGED accepted

GatewayNext ==
    \E c \in Caller :
        \/ Leave(c)
        \/ \E q \in DispatchRequest : Ask(c, q) \/ Accept(c, q) \/ Refuse(c, q) \/ Lose(c, q)

GatewaySpec == GatewayInit /\ [][GatewayNext]_gatewayVars
=============================================================================
