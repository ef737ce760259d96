--------------------- MODULE QueueCommunicationPortProofs -------------------
(***************************************************************************)
(* The queue port never acknowledges two notifications with one row, keeps *)
(* one text per notification, and implements the gateway's contract.       *)
(***************************************************************************)
EXTENDS QueueCommunicationPort, SequenceTheorems, TLAPS

\* A caller was given row i for request q, or is about to be.
Claim(q, i) ==
    \/ <<q, i>> \in acks
    \/ \E c \in Caller : /\ pc[c] \in {"staged", "answered"} /\ hand[c] = {q}
                         /\ got[c] = i /\ i # 0

Wanted(q) == [notification |-> NotificationId(q.key), content |-> q.content]

\* The row a request was given holds what it asked for.
ClaimsAreStaged ==
    \A q \in DispatchRequest, i \in Nat : Claim(q, i) =>
        /\ q.channel \in Transported
        /\ q.channel = "email" => i \in DOMAIN mails /\ mails[i] = q.content
        /\ q.channel = "sms" => i \in DOMAIN texts /\ texts[i] = Wanted(q)

ClaimsAreApart ==
    \A q, r \in DispatchRequest, i \in Nat :
        Claim(q, i) /\ Claim(r, i) /\ q.channel = r.channel => q = r

\* A text that serves a notification is the one that notification asked for, and
\* the queue keeps at most one.
TextsServe ==
    \A i \in DOMAIN texts : texts[i].notification \in Uuid =>
        /\ \E q \in DispatchRequest : q.channel = "sms" /\ q.key = texts[i].notification
                                         /\ texts[i] = Wanted(q)
        /\ \A j \in DOMAIN texts :
              SmsDedups /\ texts[j].notification = texts[i].notification => i = j

PortInv == PortTypeOK /\ ClaimsAreStaged /\ ClaimsAreApart /\ TextsServe

-----------------------------------------------------------------------------
(* Type correctness. *)

\* The queues only ever grow, by a row of their type.
LEMMA QueuesGrow ==
    ASSUME PortTypeOK, NEW c \in Caller, NEW q \in DispatchRequest, PortStep(c, q)
    PROVE  /\ \/ mails' = mails
              \/ q.channel = "email" /\ mails' = Append(mails, q.content)
           /\ \/ texts' = texts
              \/ /\ q.channel = "sms" /\ Queued(q.key) = {}
                 /\ texts' = Append(texts, Wanted(q))
<1>1. CASE PostMail(c, q)
  BY <1>1 DEF PostMail
<1>2. CASE Enqueue(c, q)
  BY <1>2 DEF Enqueue, Wanted
<1>3. CASE StageLost(c, q)
  BY <1>3 DEF StageLost, Wanted
<1>4. CASE /\ ~PostMail(c, q) /\ ~Enqueue(c, q) /\ ~StageLost(c, q)
  BY <1>4 DEF PortStep, Dispatch, NotComposed, PostWithoutMail, StageFailed, Answer
<1> QED BY <1>1, <1>2, <1>3, <1>4

LEMMA WantedIsText == ASSUME NEW q \in DispatchRequest
                      PROVE  Wanted(q) \in Text /\ q.content \in Content
BY QueueAssumption DEF Wanted, Text, NotificationId

LEMMA PortTypeStep == PortTypeOK /\ [PortNext]_portVars => PortTypeOK'
<1> SUFFICES ASSUME PortTypeOK, [PortNext]_portVars PROVE PortTypeOK'
  OBVIOUS
<1> USE DEF PortTypeOK
<1>1. ASSUME NEW c \in Caller, NEW q \in DispatchRequest, PortStep(c, q)
      PROVE  PortTypeOK'
  <2>1. mails' \in Seq(Content) /\ texts' \in Seq(Text)
    <3>1. mails' = mails \/ mails' = Append(mails, q.content)
      BY <1>1, QueuesGrow
    <3>2. texts' = texts \/ texts' = Append(texts, Wanted(q))
      BY <1>1, QueuesGrow
    <3>3. Wanted(q) \in Text /\ q.content \in Content
      BY WantedIsText
    <3>4. mails \in Seq(Content) /\ texts \in Seq(Text)
      OBVIOUS
    <3>5. Append(mails, q.content) \in Seq(Content)
      BY <3>3, <3>4, AppendProperties
    <3>6. Append(texts, Wanted(q)) \in Seq(Text)
      BY <3>3, <3>4, AppendProperties
    <3> QED BY <3>1, <3>2, <3>4, <3>5, <3>6
  <2>2. calls' \in 0..MaxCalls /\ qfaults' \in 0..MaxFaults
    BY <1>1, QueueAssumption DEF PortStep, Dispatch, NotComposed, PostMail, PostWithoutMail,
       Enqueue, StageFailed, StageLost, Answer, Goto, Fault
  <2>3. acks' \subseteq DispatchRequest \X Nat
    BY <1>1 DEF PortStep, Dispatch, NotComposed, PostMail, PostWithoutMail,
       Enqueue, StageFailed, StageLost, Answer
  <2>4. /\ pc' \in [Caller -> {"idle", "staging", "staged", "answered"}]
        /\ hand' \in [Caller -> SUBSET DispatchRequest]
        /\ \A d \in Caller : IF pc'[d] = "idle" THEN hand'[d] = {}
                              ELSE \E r \in DispatchRequest : hand'[d] = {r}
    <3>1. CASE Dispatch(c, q)
      BY <3>1 DEF Dispatch
    <3>2. CASE ~Dispatch(c, q)
      <4>1. /\ hand' = hand /\ pc[c] # "idle"
            /\ \E l \in {"staged", "answered"} : pc' = [pc EXCEPT ![c] = l]
        BY <1>1, <3>2 DEF PortStep, NotComposed, PostMail, PostWithoutMail, Enqueue,
           StageFailed, StageLost, Answer, Goto, At
      <4> QED BY <4>1
    <3> QED BY <3>1, <3>2
  <2>5. got' \in [Caller -> Nat]
    <3>1. Len(mails) + 1 \in Nat /\ Len(texts) + 1 \in Nat
      OBVIOUS
    <3>2. \A i \in Queued(q.key) : i \in Nat
      BY DEF Queued
    <3>3. got' = got \/ \E i \in Nat : got' = [got EXCEPT ![c] = i]
      BY <1>1, <3>1, <3>2 DEF PortStep, Dispatch, NotComposed, PostMail, PostWithoutMail,
         Enqueue, StageFailed, StageLost, Answer, Goto
    <3> QED BY <3>3
  <2> QED BY <2>1, <2>2, <2>3, <2>4, <2>5
<1>2. ASSUME NEW c \in Caller, Return(c) \/ Die(c)
      PROVE  PortTypeOK'
  <2>1. qfaults' \in 0..MaxFaults
    BY <1>2, QueueAssumption DEF Return, Die, Fault
  <2>2. Drop(c)
    BY <1>2 DEF Return, Die
  <2>3. /\ pc' \in [Caller -> {"idle", "staging", "staged", "answered"}]
        /\ got' \in [Caller -> Nat]
        /\ hand' \in [Caller -> SUBSET DispatchRequest]
        /\ \A d \in Caller : IF pc'[d] = "idle" THEN hand'[d] = {}
                              ELSE \E r \in DispatchRequest : hand'[d] = {r}
    BY <2>2 DEF Drop
  <2> QED BY <2>1, <2>2, <2>3 DEF Drop
<1>3. CASE UNCHANGED portVars
  BY <1>3 DEF portVars
<1> QED BY <1>1, <1>2, <1>3 DEF PortNext

-----------------------------------------------------------------------------
(* The inductive invariant. *)

LEMMA InitInv == PortInit => PortInv
BY QueueAssumption DEF PortInit, PortInv, PortTypeOK, ClaimsAreStaged, ClaimsAreApart,
   TextsServe, Claim

\* The request a caller dispatches is the one it has in hand.
LEMMA InHand ==
    ASSUME PortTypeOK, NEW c \in Caller, pc[c] # "idle"
    PROVE  \E q \in DispatchRequest : hand[c] = {q}
BY DEF PortTypeOK

\* Every step but a staged mail or text leaves each caller what it was given.
LEMMA ClaimsStay ==
    ASSUME PortTypeOK, [PortNext]_portVars,
           \A c \in Caller, q \in DispatchRequest : ~PostMail(c, q) /\ ~Enqueue(c, q),
           NEW r \in DispatchRequest, NEW i \in Nat, Claim(r, i)'
    PROVE  Claim(r, i)
<1>1. ASSUME NEW c \in Caller, NEW q \in DispatchRequest, PortStep(c, q)
      PROVE  Claim(r, i)
  <2> USE DEF PortTypeOK, Claim
  <2>1. CASE Dispatch(c, q)
    BY <2>1 DEF Dispatch
  <2>2. CASE Answer(c, q)
    <3>1. /\ pc[c] = "staged" /\ hand[c] = {q} /\ hand' = hand
          /\ acks' = IF got[c] # 0 THEN acks \cup {<<q, got[c]>>} ELSE acks
          /\ pc' = [pc EXCEPT ![c] = "answered"] /\ got' = [got EXCEPT ![c] = got[c]]
      BY <2>2 DEF Answer, At, Goto
    <3>2. CASE <<r, i>> \in acks'
      BY <3>1, <3>2
    <3>3. CASE <<r, i>> \notin acks'
      BY <3>1, <3>3
    <3> QED BY <3>2, <3>3
  <2>3. CASE NotComposed(c, q) \/ PostWithoutMail(c, q) \/ StageFailed(c, q) \/ StageLost(c, q)
    <3>1. /\ hand' = hand /\ acks' = acks /\ got' = [got EXCEPT ![c] = 0]
          /\ \E l \in {"staged", "answered"} : pc' = [pc EXCEPT ![c] = l]
      BY <2>3 DEF NotComposed, PostWithoutMail, StageFailed, StageLost, Goto
    <3> QED BY <3>1
  <2> QED BY <1>1, <2>1, <2>2, <2>3 DEF PortStep
<1>2. ASSUME NEW c \in Caller, Return(c) \/ Die(c)
      PROVE  Claim(r, i)
  <2>1. Drop(c)
    BY <1>2 DEF Return, Die
  <2> QED BY <2>1 DEF Drop, Claim, PortTypeOK
<1>3. CASE UNCHANGED portVars
  BY <1>3 DEF portVars, Claim
<1> QED BY <1>1, <1>2, <1>3 DEF PortNext

\* A staged mail or text is a claim of the caller's request on its row, and of
\* no other.
LEMMA ClaimsGrow ==
    ASSUME PortTypeOK, NEW c \in Caller, NEW q \in DispatchRequest,
           PostMail(c, q) \/ Enqueue(c, q),
           NEW r \in DispatchRequest, NEW i \in Nat, Claim(r, i)'
    PROVE  Claim(r, i) \/ (r = q /\ i = got'[c])
<1>1. /\ hand[c] = {q} /\ hand' = hand /\ acks' = acks
      /\ pc' = [pc EXCEPT ![c] = "staged"]
      /\ \E k : got' = [got EXCEPT ![c] = k]
  BY DEF PostMail, Enqueue, Goto, At
<1>2. CASE <<r, i>> \in acks
  BY <1>2 DEF Claim
<1>3. CASE <<r, i>> \notin acks
  <2>1. PICK d \in Caller : /\ pc'[d] \in {"staged", "answered"} /\ hand'[d] = {r}
                           /\ got'[d] = i /\ i # 0
    BY <1>1, <1>3 DEF Claim
  <2> QED BY <1>1, <2>1 DEF Claim, PortTypeOK
<1> QED BY <1>2, <1>3

\* What one append of q's row does to the queues.
LEMMA Appended ==
    ASSUME NEW s \in Seq(Text) \cup Seq(Content), NEW e
    PROVE  /\ DOMAIN Append(s, e) = DOMAIN s \cup {Len(s) + 1}
           /\ Append(s, e)[Len(s) + 1] = e
           /\ \A i \in DOMAIN s : Append(s, e)[i] = s[i] /\ i # Len(s) + 1
OBVIOUS

LEMMA TextsServeStep ==
    ASSUME PortTypeOK, TextsServe, NEW c \in Caller, NEW q \in DispatchRequest, PortStep(c, q)
    PROVE  TextsServe'
<1>1. CASE texts' = texts
  BY <1>1 DEF TextsServe
<1>2. CASE /\ q.channel = "sms" /\ Queued(q.key) = {}
           /\ texts' = Append(texts, Wanted(q))
  <2>1. /\ DOMAIN texts' = DOMAIN texts \cup {Len(texts) + 1}
        /\ texts'[Len(texts) + 1] = Wanted(q)
        /\ \A i \in DOMAIN texts : texts'[i] = texts[i]
    BY <1>2, Appended DEF PortTypeOK
  <2>2. Wanted(q).notification \in Uuid => Wanted(q).notification = q.key
    BY QueueAssumption DEF Wanted, NotificationId
  <2>3. \A i \in DOMAIN texts :
           SmsDedups /\ texts[i].notification \in Uuid => texts[i].notification # q.key
    BY <1>2 DEF Queued
  <2> QED BY <1>2, <2>1, <2>2, <2>3 DEF TextsServe
<1> QED BY <1>1, <1>2, QueuesGrow

\* A row once staged stays what it is.
LEMMA StagedStay ==
    ASSUME PortTypeOK, NEW c \in Caller, NEW q \in DispatchRequest, PortStep(c, q)
    PROVE  /\ \A i \in DOMAIN mails : i \in DOMAIN mails' /\ mails'[i] = mails[i]
           /\ \A i \in DOMAIN texts : i \in DOMAIN texts' /\ texts'[i] = texts[i]
<1>1. /\ mails' = mails \/ mails' = Append(mails, q.content)
      /\ texts' = texts \/ texts' = Append(texts, Wanted(q))
  BY QueuesGrow
<1>2. mails \in Seq(Content) /\ texts \in Seq(Text)
  BY DEF PortTypeOK
<1>3. \A i \in DOMAIN mails : i \in DOMAIN mails' /\ mails'[i] = mails[i]
  BY <1>1, <1>2, Appended
<1>4. \A i \in DOMAIN texts : i \in DOMAIN texts' /\ texts'[i] = texts[i]
  BY <1>1, <1>2, Appended
<1> QED BY <1>3, <1>4

\* The row a mail or text is given is new to the queue, or was staged for the
\* same request.
LEMMA NewClaim ==
    ASSUME PortInv, NEW c \in Caller, NEW q \in DispatchRequest,
           PostMail(c, q) \/ Enqueue(c, q)
    PROVE  LET i == got'[c] IN
           /\ q.channel \in {"email", "sms"}
           /\ q.channel = "email" => i \in DOMAIN mails' /\ mails'[i] = q.content
           /\ q.channel = "sms" => i \in DOMAIN texts' /\ texts'[i] = Wanted(q)
           /\ \A r \in DispatchRequest : Claim(r, i) /\ r.channel = q.channel => r = q
<1> USE DEF PortInv, PortTypeOK
<1>1. CASE PostMail(c, q)
  <2>1. /\ q.channel = "email" /\ mails' = Append(mails, q.content)
        /\ got'[c] = Len(mails) + 1
    BY <1>1 DEF PostMail, Goto
  <2>2. mails \in Seq(Content) /\ Len(mails) \in Nat
    OBVIOUS
  <2>3. \A r \in DispatchRequest : r.channel = "email" => ~Claim(r, Len(mails) + 1)
    BY <2>2, Appended DEF ClaimsAreStaged
  <2> QED BY <2>1, <2>2, <2>3, Appended
<1>2. CASE Enqueue(c, q)
  <2>1. texts \in Seq(Text) /\ Len(texts) \in Nat
    OBVIOUS
  <2>2. CASE texts' = Append(texts, Wanted(q)) /\ Goto(c, "staged", Len(texts) + 1)
    <3>1. q.channel = "sms" /\ got'[c] = Len(texts) + 1
      BY <1>2, <2>2 DEF Enqueue, Goto
    <3>2. \A r \in DispatchRequest : r.channel = "sms" => ~Claim(r, Len(texts) + 1)
      BY <2>1, Appended DEF ClaimsAreStaged
    <3> QED BY <2>1, <2>2, <3>1, <3>2, Appended
  <2>3. ASSUME NEW i \in Queued(q.key), Goto(c, "staged", i), texts' = texts
        PROVE  /\ q.channel = "sms" /\ got'[c] = i /\ i \in DOMAIN texts
               /\ texts[i] = Wanted(q)
               /\ \A r \in DispatchRequest : Claim(r, i) /\ r.channel = "sms" => r = q
    <3>1. /\ q.channel = "sms" /\ got'[c] = i /\ i \in DOMAIN texts
          /\ texts[i].notification = q.key /\ q.key \in Uuid
      BY <1>2, <2>3 DEF Enqueue, Goto, Queued
    <3>2. texts[i] = Wanted(q)
      BY <3>1, QueueAssumption DEF TextsServe
    <3>3. \A r \in DispatchRequest :
             Wanted(r).notification = q.key => r.key = q.key
      BY <3>1, QueueAssumption DEF Wanted, NotificationId
    <3>4. \A r \in DispatchRequest : Claim(r, i) /\ r.channel = "sms" => r = q
      BY <3>1, <3>2, <3>3, QueueAssumption DEF ClaimsAreStaged
    <3> QED BY <3>1, <3>2, <3>4
  <2> QED BY <1>2, <2>2, <2>3 DEF Enqueue, Wanted
<1> QED BY <1>1, <1>2

LEMMA InvStep == PortInv /\ [PortNext]_portVars => PortInv'
<1> SUFFICES ASSUME PortInv, [PortNext]_portVars PROVE PortInv'
  OBVIOUS
<1>0. PortTypeOK /\ PortTypeOK'
  BY PortTypeStep DEF PortInv
<1>1. ASSUME NEW c \in Caller, NEW q \in DispatchRequest, PostMail(c, q) \/ Enqueue(c, q)
      PROVE  PortInv'
  <2>1. PortStep(c, q)
    BY <1>1 DEF PortStep
  <2>2. TextsServe'
    BY <1>0, <2>1, TextsServeStep DEF PortInv
  <2>3. ClaimsAreStaged'
    <3> SUFFICES ASSUME NEW r \in DispatchRequest, NEW i \in Nat, Claim(r, i)'
                 PROVE  /\ r.channel \in Transported
                        /\ r.channel = "email" => i \in DOMAIN mails' /\ mails'[i] = r.content
                        /\ r.channel = "sms" => i \in DOMAIN texts' /\ texts'[i] = Wanted(r)
      BY DEF ClaimsAreStaged, Wanted, NotificationId
    <3>1. CASE Claim(r, i)
      BY <1>0, <2>1, <3>1, StagedStay DEF PortInv, ClaimsAreStaged
    <3>2. CASE r = q /\ i = got'[c]
      BY <1>1, <3>2, NewClaim DEF Transported
    <3> QED BY <1>0, <1>1, <3>1, <3>2, ClaimsGrow
  <2>4. ClaimsAreApart'
    <3> SUFFICES ASSUME NEW r \in DispatchRequest, NEW t \in DispatchRequest, NEW i \in Nat,
                        Claim(r, i)', Claim(t, i)', r.channel = t.channel
                 PROVE  r = t
      BY DEF ClaimsAreApart
    <3>1. /\ Claim(r, i) \/ (r = q /\ i = got'[c])
          /\ Claim(t, i) \/ (t = q /\ i = got'[c])
      BY <1>0, <1>1, ClaimsGrow
    <3>2. \A u \in DispatchRequest : Claim(u, got'[c]) /\ u.channel = q.channel => u = q
      BY <1>1, NewClaim
    <3> QED BY <3>1, <3>2 DEF PortInv, ClaimsAreApart
  <2> QED BY <1>0, <2>2, <2>3, <2>4 DEF PortInv
<1>2. CASE \A c \in Caller, q \in DispatchRequest : ~PostMail(c, q) /\ ~Enqueue(c, q)
  <2>1. \A r \in DispatchRequest, i \in Nat : Claim(r, i)' => Claim(r, i)
    BY <1>0, <1>2, ClaimsStay
  <2>2. /\ \A i \in DOMAIN mails : i \in DOMAIN mails' /\ mails'[i] = mails[i]
        /\ \A i \in DOMAIN texts : i \in DOMAIN texts' /\ texts'[i] = texts[i]
        /\ TextsServe'
    <3>1. CASE \E c \in Caller, q \in DispatchRequest : PortStep(c, q)
      BY <1>0, <3>1, StagedStay, TextsServeStep DEF PortInv
    <3>2. CASE mails' = mails /\ texts' = texts
      BY <3>2 DEF PortInv, TextsServe
    <3> QED BY <3>1, <3>2 DEF PortNext, Return, Die, Drop, portVars
  <2>3. ClaimsAreStaged' /\ ClaimsAreApart'
    BY <2>1, <2>2 DEF PortInv, ClaimsAreStaged, ClaimsAreApart, Wanted, NotificationId
  <2> QED BY <1>0, <2>2, <2>3 DEF PortInv
<1> QED BY <1>1, <1>2

-----------------------------------------------------------------------------
(* The theorems. *)

LEMMA AlwaysInv == PortSpec => []PortInv
BY InitInv, InvStep, PTL DEF PortSpec

(***************************************************************************)
(* Both queues, every call and every acknowledgement of dispatch are well  *)
(* typed.                                                                  *)
(***************************************************************************)
THEOREM PortTypeCorrect == PortSpec => []PortTypeOK
<1>1. PortInv => PortTypeOK
  BY DEF PortInv
<1> QED BY <1>1, AlwaysInv, PTL

(***************************************************************************)
(* dispatch never acknowledges two notifications with one row of a queue,  *)
(* so record_delivery's correlation on the message id is unambiguous.      *)
(***************************************************************************)
THEOREM AcksAreApart == PortSpec => []AcksCorrelate
<1>1. PortInv => AcksCorrelate
  <2> SUFFICES ASSUME PortInv, NEW a \in acks, NEW b \in acks,
                      a[1].channel = b[1].channel, a[2] = b[2]
               PROVE  a[1] = b[1]
    BY DEF AcksCorrelate
  <2>1. /\ a[1] \in DispatchRequest /\ b[1] \in DispatchRequest /\ a[2] \in Nat
        /\ a = <<a[1], a[2]>> /\ b = <<b[1], b[2]>>
    BY DEF PortInv, PortTypeOK
  <2>2. Claim(a[1], a[2]) /\ Claim(b[1], a[2])
    BY <2>1 DEF Claim
  <2> QED BY <2>1, <2>2 DEF PortInv, ClaimsAreApart
<1> QED BY <1>1, AlwaysInv, PTL

(***************************************************************************)
(* However often dispatch is called for a notification, an sms queue that  *)
(* dedups on the notification id acknowledges one row.                     *)
(***************************************************************************)
THEOREM TextsStaySingle == PortSpec => []OneTextPerNotification
<1>1. PortInv => OneTextPerNotification
  <2> SUFFICES ASSUME PortInv, NEW a \in acks, NEW b \in acks, SmsDedups,
                      a[1] = b[1], a[1].channel = "sms", a[1].key \in Uuid
               PROVE  a[2] = b[2]
    BY DEF OneTextPerNotification
  <2>1. /\ a[1] \in DispatchRequest /\ a[2] \in Nat /\ b[2] \in Nat
        /\ a = <<a[1], a[2]>> /\ b = <<a[1], b[2]>>
    BY DEF PortInv, PortTypeOK
  <2>2. Claim(a[1], a[2]) /\ Claim(a[1], b[2])
    BY <2>1 DEF Claim
  <2>3. /\ a[2] \in DOMAIN texts /\ texts[a[2]].notification = a[1].key
        /\ b[2] \in DOMAIN texts /\ texts[b[2]].notification = a[1].key
    <3>1. /\ a[2] \in DOMAIN texts /\ texts[a[2]] = Wanted(a[1])
          /\ b[2] \in DOMAIN texts /\ texts[b[2]] = Wanted(a[1])
      BY <2>1, <2>2 DEF PortInv, ClaimsAreStaged
    <3>2. Wanted(a[1]).notification = a[1].key
      BY DEF Wanted, NotificationId
    <3> QED BY <3>1, <3>2
  <2> QED BY <2>3 DEF PortInv, TextsServe
<1> QED BY <1>1, AlwaysInv, PTL

-----------------------------------------------------------------------------
(* The refinement. *)

Contents == [i \in DOMAIN texts |-> texts[i].content]
Accepted == [ch \in QueueChannel |-> IF ch = "email" THEN mails
                                       ELSE IF ch = "sms" THEN Contents ELSE <<>>]
Told     == [c \in Caller |-> AnswerOf(c)]

\* The gateway's state, by these names.
LEMMA GatewayState ==
    /\ Gateway!GatewayInit <=> /\ Accepted = [ch \in QueueChannel |-> <<>>]
                               /\ hand = [c \in Caller |-> {}]
                               /\ Told = [c \in Caller |-> Gateway!Unanswered]
    /\ UNCHANGED <<Accepted, hand, Told>> => UNCHANGED Gateway!gatewayVars
BY DEF Gateway!GatewayInit, Gateway!gatewayVars, Accepted, Contents, Told, Gateway!Unanswered

LEMMA ContentsOf ==
    ASSUME NEW s \in Seq(Text)
    PROVE  LET t == [i \in DOMAIN s |-> s[i].content] IN
           t \in Seq(Content) /\ Len(t) = Len(s) /\ DOMAIN t = 1..Len(s)
<1> DEFINE t == [i \in 1..Len(s) |-> s[i].content]
<1>1. Len(s) \in Nat /\ DOMAIN s = 1..Len(s)
  OBVIOUS
<1>2. \A i \in 1..Len(s) : s[i].content \in Content
  <2>1. \A i \in 1..Len(s) : s[i] \in Text
    BY <1>1, ElementOfSeq
  <2> QED BY <2>1 DEF Text
<1>3. t \in [1..Len(s) -> Content]
  BY <1>2
<1>4. t \in Seq(Content) /\ Len(t) = Len(s)
  BY <1>1, <1>3
<1> QED BY <1>1, <1>4

LEMMA ContentsGrow ==
    ASSUME texts \in Seq(Text), NEW t \in Text, texts' = Append(texts, t)
    PROVE  /\ Contents' = Append(Contents, t.content)
           /\ Contents \in Seq(Content) /\ Len(Contents) = Len(texts)
<1>1. /\ Contents \in Seq(Content) /\ Len(Contents) = Len(texts)
      /\ \A i \in 1..Len(texts) : Contents[i] = texts[i].content
  BY ContentsOf DEF Contents
<1>2. t.content \in Content
  BY DEF Text
<1>3. Append(Contents, t.content) \in Seq(Content)
  BY <1>1, <1>2, AppendProperties
<1>4. texts' \in Seq(Text) /\ Len(texts') = Len(texts) + 1
  BY AppendProperties
<1>5. Contents' \in Seq(Content) /\ Len(Contents') = Len(texts) + 1
  BY <1>4, ContentsOf DEF Contents
<1>6. \A i \in 1..(Len(texts) + 1) : Contents'[i] = Append(Contents, t.content)[i]
  <2> SUFFICES ASSUME NEW i \in 1..(Len(texts) + 1)
               PROVE  texts'[i].content = Append(Contents, t.content)[i]
    BY <1>4 DEF Contents
  <2>1. CASE i = Len(texts) + 1
    BY <1>1, <2>1
  <2>2. CASE i # Len(texts) + 1
    <3>1. i \in 1..Len(texts)
      BY <2>2
    <3> QED BY <1>1, <3>1
  <2> QED BY <2>1, <2>2
<1>7. Len(Append(Contents, t.content)) = Len(texts) + 1
  BY <1>1
<1> QED BY <1>1, <1>3, <1>5, <1>6, <1>7, SeqEqual

\* What the steps of the queue port are to the gateway.
LEMMA MailIsStaged ==
    ASSUME NEW x, mails' = Append(mails, x), texts' = texts
    PROVE  Accepted' = [Accepted EXCEPT !["email"] = Append(@, x)]
BY DEF Accepted, Contents, QueueChannel

LEMMA TextIsStaged ==
    ASSUME texts \in Seq(Text), NEW t \in Text, texts' = Append(texts, t), mails' = mails
    PROVE  Accepted' = [Accepted EXCEPT !["sms"] = Append(@, t.content)]
<1>1. Contents' = Append(Contents, t.content)
  BY ContentsGrow
<1> QED BY <1>1 DEF Accepted, QueueChannel

LEMMA AnswerIsTold ==
    ASSUME PortTypeOK, NEW c \in Caller, NEW l, NEW id, Goto(c, l, id)
    PROVE  Told' = [Told EXCEPT ![c] =
              [state |-> IF l \notin {"staged", "answered"} THEN "none"
                           ELSE IF id = 0 THEN "rejected" ELSE "accepted",
               id |-> id]]
BY DEF Goto, Told, AnswerOf, PortTypeOK

LEMMA QueuedRows ==
    ASSUME PortTypeOK
    PROVE  /\ Accepted["email"] = mails /\ Accepted["sms"] = Contents
           /\ Len(mails) \in Nat /\ Len(texts) \in Nat
           /\ Len(Contents) = Len(texts) /\ DOMAIN Contents = DOMAIN texts
           /\ \A i \in DOMAIN texts : Contents[i] = texts[i].content
<1>1. texts \in Seq(Text) /\ mails \in Seq(Content)
  BY DEF PortTypeOK
<1>2. Len(Contents) = Len(texts) /\ DOMAIN Contents = DOMAIN texts
  BY <1>1, ContentsOf DEF Contents
<1> QED BY <1>1, <1>2 DEF Accepted, Contents, QueueChannel

\* A step of a call being staged: its caller has nothing to tell yet.
LEMMA Staging ==
    ASSUME PortTypeOK, NEW c \in Caller, NEW q \in DispatchRequest, At(c, "staging", q)
    PROVE  hand[c] = {q} /\ (got[c] = 0 => Told[c] = Gateway!Unanswered)
BY DEF At, Told, AnswerOf, Gateway!Unanswered

\* A call whose row is not staged has been given none.
NothingYet == \A c \in Caller : pc[c] \in {"idle", "staging"} => got[c] = 0

LEMMA NothingYetStep ==
    ASSUME PortTypeOK, NothingYet, [PortNext]_portVars
    PROVE  NothingYet'
<1> USE DEF NothingYet, PortTypeOK
<1>1. ASSUME NEW c \in Caller, NEW q \in DispatchRequest, PortStep(c, q)
      PROVE  NothingYet'
  <2>1. CASE Dispatch(c, q)
    BY <2>1 DEF Dispatch
  <2>2. CASE ~Dispatch(c, q)
    <3>1. \E l \in {"staged", "answered"} : \E id : Goto(c, l, id)
      BY <1>1, <2>2 DEF PortStep, NotComposed, PostMail, PostWithoutMail, Enqueue,
         StageFailed, StageLost, Answer
    <3> QED BY <3>1 DEF Goto
  <2> QED BY <2>1, <2>2
<1>2. ASSUME NEW c \in Caller, Return(c) \/ Die(c)
      PROVE  NothingYet'
  BY <1>2 DEF Return, Die, Drop
<1>3. CASE UNCHANGED portVars
  BY <1>3 DEF portVars
<1> QED BY <1>1, <1>2, <1>3 DEF PortNext

LEMMA StepRefines ==
    ASSUME PortInv, NothingYet, [PortNext]_portVars
    PROVE  [Gateway!GatewayNext]_(Gateway!gatewayVars)
<1> USE DEF PortInv
<1>1. ASSUME NEW c \in Caller, NEW q \in DispatchRequest, PortStep(c, q)
      PROVE  [Gateway!GatewayNext]_(Gateway!gatewayVars)
  <2>1. CASE Dispatch(c, q)
    <3>1. Told' = Told /\ Accepted' = Accepted
      BY <2>1 DEF Dispatch, Told, AnswerOf, Accepted, Contents, PortTypeOK
    <3>2. hand[c] = {}
      BY <2>1 DEF Dispatch, PortTypeOK
    <3>3. Gateway!Ask(c, q)
      BY <2>1, <3>1, <3>2 DEF Dispatch, Gateway!Ask, Accepted, Contents, Told
    <3> QED BY <3>3 DEF Gateway!GatewayNext
  <2>2. CASE NotComposed(c, q) \/ PostWithoutMail(c, q) \/ StageFailed(c, q)
    <3>1. /\ At(c, "staging", q) /\ Accepted' = Accepted /\ hand' = hand
          /\ \E l \in {"staged", "answered"} : Goto(c, l, 0)
      BY <2>2 DEF NotComposed, PostWithoutMail, StageFailed, Goto, Accepted, Contents
    <3>2. Told' = [Told EXCEPT ![c] = [state |-> "rejected", id |-> 0]]
      BY <3>1, AnswerIsTold
    <3>3. hand[c] = {q} /\ Told[c] = Gateway!Unanswered
      BY <3>1, Staging DEF At, NothingYet
    <3>4. Gateway!Refuse(c, q)
      BY <3>1, <3>2, <3>3 DEF Gateway!Refuse, Gateway!Open, Gateway!Tell, Gateway!Rejected,
         Accepted, Contents, Told
    <3> QED BY <3>4 DEF Gateway!GatewayNext
  <2>3. CASE PostMail(c, q)
    <3>1. /\ At(c, "staging", q) /\ q.channel = "email" /\ hand' = hand
          /\ Goto(c, "staged", Len(mails) + 1)
          /\ mails' = Append(mails, q.content) /\ texts' = texts
      BY <2>3 DEF PostMail, Goto
    <3>2. Told' = [Told EXCEPT ![c] = [state |-> "accepted", id |-> Len(mails) + 1]]
      BY <3>1, AnswerIsTold, QueuedRows
    <3>3. hand[c] = {q} /\ Told[c] = Gateway!Unanswered
      BY <3>1, Staging DEF At, NothingYet
    <3>4. Accepted' = [Accepted EXCEPT !["email"] = Append(@, q.content)]
      BY <3>1, MailIsStaged
    <3>5. Gateway!Accept(c, q)
      BY <3>1, <3>2, <3>3, <3>4, QueuedRows DEF Gateway!Accept, Gateway!Open, Gateway!Tell,
         Gateway!StageRow, Gateway!Ack, Accepted, Contents, Told, Transported
    <3> QED BY <3>5 DEF Gateway!GatewayNext
  <2>4. CASE Enqueue(c, q)
    <3>1. At(c, "staging", q) /\ q.channel = "sms" /\ hand' = hand /\ mails' = mails
      BY <2>4 DEF Enqueue, Goto
    <3>2. hand[c] = {q} /\ Told[c] = Gateway!Unanswered
      BY <3>1, Staging DEF At, NothingYet
    <3>3. CASE texts' = Append(texts, Wanted(q)) /\ Goto(c, "staged", Len(texts) + 1)
      <4>1. Told' = [Told EXCEPT ![c] = [state |-> "accepted", id |-> Len(texts) + 1]]
        BY <3>3, AnswerIsTold, QueuedRows
      <4>2. Accepted' = [Accepted EXCEPT !["sms"] = Append(@, Wanted(q).content)]
        BY <3>1, <3>3, TextIsStaged, WantedIsText DEF PortTypeOK
      <4>3. Gateway!Accept(c, q)
        BY <3>1, <3>2, <4>1, <4>2, QueuedRows DEF Gateway!Accept, Gateway!Open, Gateway!Tell,
           Gateway!StageRow, Gateway!Ack, Accepted, Contents, Told, Transported, Wanted
      <4> QED BY <4>3 DEF Gateway!GatewayNext
    <3>4. ASSUME NEW i \in Queued(q.key), Goto(c, "staged", i), texts' = texts
          PROVE  Gateway!GatewayNext
      <4>1. i \in DOMAIN texts /\ i # 0 /\ texts[i].content = q.content
        <5>1. /\ i \in DOMAIN texts /\ texts[i].notification = q.key /\ q.key \in Uuid
          BY DEF Queued
        <5>2. texts[i] = Wanted(q)
          BY <5>1, QueueAssumption DEF TextsServe
        <5> QED BY <5>1, <5>2 DEF Wanted, PortTypeOK
      <4>2. Told' = [Told EXCEPT ![c] = [state |-> "accepted", id |-> i]]
        BY <3>4, <4>1, AnswerIsTold
      <4>3. Accepted' = Accepted
        BY <3>1, <3>4 DEF Accepted, Contents
      <4>4. Gateway!Accept(c, q)
        BY <3>1, <3>2, <4>1, <4>2, <4>3, QueuedRows DEF Gateway!Accept, Gateway!Open,
           Gateway!Tell, Gateway!Ack, Accepted, Contents, Told
      <4> QED BY <4>4 DEF Gateway!GatewayNext
    <3> QED BY <2>4, <3>3, <3>4 DEF Enqueue, Wanted
  <2>5. CASE StageLost(c, q)
    <3>1. At(c, "staging", q) /\ hand' = hand /\ Goto(c, "answered", 0)
      BY <2>5 DEF StageLost, Goto
    <3>2. Told' = [Told EXCEPT ![c] = [state |-> "rejected", id |-> 0]]
      BY <3>1, AnswerIsTold
    <3>3. hand[c] = {q} /\ Told[c] = Gateway!Unanswered
      BY <3>1, Staging DEF At, NothingYet
    <3>4. /\ q.channel \in Transported
          /\ Accepted' = [Accepted EXCEPT ![q.channel] = Append(@, q.content)]
      <4>1. CASE q.channel = "email" /\ mails' = Append(mails, q.content) /\ texts' = texts
        BY <4>1, MailIsStaged DEF Transported
      <4>2. CASE q.channel = "sms" /\ texts' = Append(texts, Wanted(q)) /\ mails' = mails
        <5>1. Accepted' = [Accepted EXCEPT !["sms"] = Append(@, Wanted(q).content)]
          BY <4>2, TextIsStaged, WantedIsText DEF PortTypeOK
        <5> QED BY <4>2, <5>1 DEF Transported, Wanted
      <4> QED BY <2>5, <4>1, <4>2 DEF StageLost, Wanted
    <3>5. Gateway!Lose(c, q)
      BY <3>1, <3>2, <3>3, <3>4 DEF Gateway!Lose, Gateway!Open, Gateway!Tell,
         Gateway!Rejected, Gateway!StageRow, Accepted, Contents, Told
    <3> QED BY <3>5 DEF Gateway!GatewayNext
  <2>6. CASE Answer(c, q)
    <3>1. /\ pc[c] = "staged" /\ hand' = hand /\ Accepted' = Accepted
          /\ pc' = [pc EXCEPT ![c] = "answered"] /\ got' = [got EXCEPT ![c] = got[c]]
      BY <2>6 DEF Answer, At, Goto, Accepted, Contents
    <3>2. Told' = Told
      BY <3>1 DEF Told, AnswerOf, PortTypeOK
    <3> QED BY <3>1, <3>2, GatewayState
  <2> QED BY <1>1, <2>1, <2>2, <2>3, <2>4, <2>5, <2>6 DEF PortStep
<1>2. ASSUME NEW c \in Caller, Return(c) \/ Die(c)
      PROVE  [Gateway!GatewayNext]_(Gateway!gatewayVars)
  <2>1. pc[c] # "idle" /\ Drop(c)
    BY <1>2 DEF Return, Die
  <2>2. /\ Told' = [Told EXCEPT ![c] = Gateway!Unanswered] /\ Accepted' = Accepted
        /\ hand[c] # {} /\ hand' = [hand EXCEPT ![c] = {}]
    BY <2>1 DEF Drop, Told, AnswerOf, Gateway!Unanswered, Accepted, Contents, PortTypeOK
  <2>3. Gateway!Leave(c)
    BY <2>2 DEF Gateway!Leave, Accepted, Contents, Told
  <2> QED BY <2>3 DEF Gateway!GatewayNext
<1>3. CASE UNCHANGED portVars
  <2>1. UNCHANGED <<Accepted, hand, Told>>
    BY <1>3 DEF portVars, Accepted, Contents, Told, AnswerOf
  <2> QED BY <2>1, GatewayState
<1> QED BY <1>1, <1>2, <1>3 DEF PortNext

(***************************************************************************)
(* The mail and sms queues behind dispatch implement the gateway the       *)
(* engine relies on: what is acknowledged is staged, with the content      *)
(* asked for, and what is rejected is not, but for a lost answer.          *)
(***************************************************************************)
THEOREM QueuesImplementGateway == PortSpec => ImplementsGateway
<1>1. PortInit => Gateway!GatewayInit /\ NothingYet
  BY DEF PortInit, Gateway!GatewayInit, AnswerOf, Gateway!Unanswered, NothingYet
<1>2. PortSpec => []NothingYet
  <2>1. PortTypeOK /\ NothingYet /\ [PortNext]_portVars => NothingYet'
    BY NothingYetStep
  <2> QED BY <1>1, <2>1, PortTypeCorrect, PTL DEF PortSpec
<1>3. PortInv /\ NothingYet /\ [PortNext]_portVars
         => [Gateway!GatewayNext]_(Gateway!gatewayVars)
  BY StepRefines
<1> QED BY <1>1, <1>2, <1>3, AlwaysInv, PTL
        DEF PortSpec, ImplementsGateway, Gateway!GatewaySpec
=============================================================================
