----------------------------- MODULE RPCProofs -----------------------------
(***************************************************************************)
(* Theorems about RPCLink and about RPC: first the links, for any peers and *)
(* messages, any number of attempts and of lost connections; then, over the *)
(* same invariant of the links, a client, its calls and their servers.      *)
(***************************************************************************)
EXTENDS RPC, TLAPS

-----------------------------------------------------------------------------
(* Type correctness.                                                       *)

LEMMA TypeInit == Init => TypeOK
BY AttemptsArePositive, MaxLossesIsNat DEF Init, TypeOK

LEMMA TypeKept == ASSUME TypeOK, [Next]_linkVars PROVE TypeOK'
<1> USE AttemptsArePositive, MaxLossesIsNat DEF TypeOK, Goto, Panic, Leave
<1>1. ASSUME NEW p \in Peers, NEW m \in Messages, Deliver(p, m) PROVE TypeOK'
  BY <1>1 DEF Deliver
<1>2. ASSUME NEW p \in Peers, LoseLink(p) PROVE TypeOK'
  BY <1>2 DEF LoseLink
<1>3. ASSUME NEW p \in Peers, NEW m \in inbox[p], Take(p, m) PROVE TypeOK'
  BY <1>3 DEF Take
<1>4. ASSUME NEW p \in Peers, Finish(p) PROVE TypeOK'
  BY <1>4 DEF Finish
<1>5. ASSUME NEW p \in Peers, SeeStop(p) PROVE TypeOK'
  BY <1>5 DEF SeeStop
<1>6. ASSUME NEW p \in Peers, SeeClosed(p) PROVE TypeOK'
  <2>1. inbox' \in [Peers -> SUBSET Messages]
    BY <1>6 DEF SeeClosed
  <2>2. CASE stop[p]
    BY <1>6, <2>1, <2>2 DEF SeeClosed
  <2>3. CASE ~stop[p]
    <3>1. stop' \in [Peers -> BOOLEAN] /\ panicked' = panicked
      BY <1>6, <2>3 DEF SeeClosed
    <3>2. tries' \in [Peers -> 1 .. Attempts]
      BY <1>6, <2>3 DEF SeeClosed
    <3>3. consumer' = [consumer EXCEPT ![p] = "dial"]
      BY <1>6, <2>3 DEF SeeClosed
    <3> QED
      BY <1>6, <2>1, <3>1, <3>2, <3>3 DEF SeeClosed
  <2> QED
    BY <2>2, <2>3
<1>7. ASSUME NEW p \in Peers, OpenChannel(p) PROVE TypeOK'
  BY <1>7 DEF OpenChannel
<1>8. ASSUME NEW p \in Peers, ConnectFails(p) PROVE TypeOK'
  <2>1. chan' \in [Peers -> {"up", "closed", "none"}]
    BY <1>8 DEF ConnectFails, FailedChan
  <2>2. CASE tries[p] = 1
    BY <1>8, <2>1, <2>2 DEF ConnectFails
  <2>3. CASE tries[p] # 1
    BY <1>8, <2>1, <2>3 DEF ConnectFails
  <2> QED
    BY <2>2, <2>3
<1>9. ASSUME NEW p \in Peers, Declare(p) PROVE TypeOK'
  BY <1>9 DEF Declare
<1>10. ASSUME NEW p \in Peers, Notified(p) PROVE TypeOK'
  BY <1>10 DEF Notified
<1>11. ASSUME NEW p \in Peers, CloseErrors(p) PROVE TypeOK'
  BY <1>11 DEF CloseErrors
<1>12. ASSUME NEW p \in Peers, ShutdownBegins(p) PROVE TypeOK'
  BY <1>12 DEF ShutdownBegins
<1>13. ASSUME NEW p \in Peers, ShutdownCloses(p) PROVE TypeOK'
  BY <1>13 DEF ShutdownCloses
<1>14. CASE UNCHANGED linkVars
  BY <1>14 DEF linkVars
<1> QED
  BY <1>1, <1>2, <1>3, <1>4, <1>5, <1>6, <1>7, <1>8, <1>9, <1>10, <1>11,
     <1>12, <1>13, <1>14 DEF Next, Consumer, Reconnect, Shutdown

\* The types of TypeOK; above all, AttemptConnect ends with its last attempt.
THEOREM TypeCorrect == Spec => []TypeOK
<1>1. TypeOK /\ [Next]_linkVars => TypeOK'
  BY TypeKept
<1> QED
  BY <1>1, TypeInit, PTL DEF Spec

-----------------------------------------------------------------------------
(* The inductive invariant.  It says of each peer who may have closed stop, *)
(* and where the channel is when nobody dials any more.                     *)

Reading(p) == consumer[p] \in {"select", "handle"}

\* stop is open in front of a consumer only; once closed there, it was Shutdown.
StopInv(p) ==
  /\ ~stop[p] => Reading(p)
  /\ stop[p] /\ Reading(p) => shutdown[p] # "no"
  /\ panicked[p] = "stop" => shutdown[p] # "no"

\* The channel is down while reconnect dials and after it has given up.
DownInv(p) ==
  /\ consumer[p] \in {"dial", "report", "closeErr"} => chan[p] # "up"
  /\ chan[p] = "none" => consumer[p] \in {"dial", "report", "closeErr", "ended"}
  /\ errs[p] => consumer[p] = "ended" /\ chan[p] # "up" /\ panicked[p] # "stop"
  /\ consumer[p] = "ended" => shutdown[p] # "no" \/ errs[p]

\* A process that lives on after Shutdown has begun does not reconnect.
ShutInv(p) ==
  /\ Alive(p) /\ shutdown[p] # "no" =>
       stop[p] /\ (Reading(p) \/ consumer[p] \in {"closeErr", "ended"})
  /\ shutdown[p] = "returned" => chan[p] # "up"

LinkInv(p) == StopInv(p) /\ DownInv(p) /\ ShutInv(p)

IInv == TypeOK /\ \A p \in Peers : LinkInv(p)

LEMMA InvInit == Init => IInv
BY TypeInit DEF Init, IInv, LinkInv, StopInv, DownInv, ShutInv, Reading, Alive

LEMMA InvKept == ASSUME IInv, [Next]_linkVars PROVE IInv'
<1>1. TypeOK'
  BY TypeKept DEF IInv
<1>2. ASSUME NEW q \in Peers PROVE LinkInv(q)'
  <2> USE DEF IInv, TypeOK, LinkInv, StopInv, DownInv, ShutInv, Reading, Alive,
              Goto, Panic, Leave
  <2>1. ASSUME NEW p \in Peers, NEW m \in Messages, Deliver(p, m)
        PROVE  LinkInv(q)'
    BY <2>1 DEF Deliver
  <2>2. ASSUME NEW p \in Peers, LoseLink(p) PROVE LinkInv(q)'
    BY <2>2 DEF LoseLink
  <2>3. ASSUME NEW p \in Peers, NEW m \in inbox[p], Take(p, m)
        PROVE  LinkInv(q)'
    BY <2>3 DEF Take
  <2>4. ASSUME NEW p \in Peers, Finish(p) PROVE LinkInv(q)'
    BY <2>4 DEF Finish
  <2>5. ASSUME NEW p \in Peers, SeeStop(p) PROVE LinkInv(q)'
    BY <2>5 DEF SeeStop
  <2>6. ASSUME NEW p \in Peers, SeeClosed(p) PROVE LinkInv(q)'
    BY <2>6 DEF SeeClosed
  <2>7. ASSUME NEW p \in Peers, OpenChannel(p) PROVE LinkInv(q)'
    BY <2>7 DEF OpenChannel
  <2>8. ASSUME NEW p \in Peers, ConnectFails(p) PROVE LinkInv(q)'
    BY <2>8 DEF ConnectFails, FailedChan
  <2>9. ASSUME NEW p \in Peers, Declare(p) PROVE LinkInv(q)'
    BY <2>9 DEF Declare
  <2>10. ASSUME NEW p \in Peers, Notified(p) PROVE LinkInv(q)'
    BY <2>10 DEF Notified
  <2>11. ASSUME NEW p \in Peers, CloseErrors(p) PROVE LinkInv(q)'
    BY <2>11 DEF CloseErrors
  <2>12. ASSUME NEW p \in Peers, ShutdownBegins(p) PROVE LinkInv(q)'
    BY <2>12 DEF ShutdownBegins
  <2>13. ASSUME NEW p \in Peers, ShutdownCloses(p) PROVE LinkInv(q)'
    BY <2>13 DEF ShutdownCloses
  <2>14. CASE UNCHANGED linkVars
    BY <2>14 DEF linkVars
  <2> QED
    BY <2>1, <2>2, <2>3, <2>4, <2>5, <2>6, <2>7, <2>8, <2>9, <2>10, <2>11,
       <2>12, <2>13, <2>14 DEF Next, Consumer, Reconnect, Shutdown
<1> QED
  BY <1>1, <1>2 DEF IInv

\* The invariant all the others follow from.
THEOREM LinksConsistent == Spec => []IInv
<1>1. IInv /\ [Next]_linkVars => IInv'
  BY InvKept
<1> QED
  BY <1>1, InvInit, PTL DEF Spec

-----------------------------------------------------------------------------
(* The properties the run checks.                                          *)

\* However often links are lost, redialled and given up, the channel stop is
\* closed twice only where Shutdown takes part, and never once reconnect has
\* given up and closed the channel error.
THEOREM LossesAreSurvived == Spec => []PanicNeedsShutdown
<1>1. IInv => PanicNeedsShutdown
  BY DEF IInv, LinkInv, StopInv, DownInv, Alive, PanicNeedsShutdown
<1> QED
  BY <1>1, LinksConsistent, PTL

\* RemoteCall's reading of stop, and the silence Notify's user relies on: while
\* stop is open a consumer is at work, and none ends unseen.
THEOREM AlwaysAccounted == Spec => []ConsumerAccounted
<1>1. IInv => ConsumerAccounted
  BY DEF IInv, LinkInv, StopInv, DownInv, Reading, ConsumerAccounted
<1> QED
  BY <1>1, LinksConsistent, PTL

\* No reconnect brings a peer back whose Shutdown has returned.
THEOREM DownForGood == Spec => []DownStaysDown
<1>1. IInv => DownStaysDown
  BY DEF IInv, LinkInv, ShutInv, DownStaysDown
<1> QED
  BY <1>1, LinksConsistent, PTL

-----------------------------------------------------------------------------
(* RPC.  The inductive invariant: the links', and where requests, replies   *)
(* and the calls they belong to are.                                       *)

Refused == {"closed", "publishError"}

\* c has not been published, and if it has returned it never will be.
Unsent(c) == \/ pc[c] \in {"idle", "sleep", "publish"}
             \/ pc[c] = "done" /\ outcome[c] \in Refused

\* m is on its way from its server, or in the hands of the client's consumer.
Underway(m) == hand[m.by] = m \/ m \in inbox[Client] \/ hand[Client] = m

RouteTypes ==
  /\ inbox[Client] \subseteq Replies
  /\ \A s \in Servers : inbox[s] \subseteq Calls
  /\ \A s \in Servers : hand[s] \in Replies => hand[s].by = s

\* A server that has a request has its only copy and has not served it.
RequestInv(s, c) ==
  /\ c \in inbox[s] \/ hand[s] = c => served[c][s] = "none" /\ ~Unsent(c)
  /\ c \in inbox[s] => hand[s] # c
  /\ Unsent(c) => served[c][s] = "none"

\* A reply that is underway says what its server has made of the call, and is
\* at one place only.
ReplyInv(m) ==
  /\ Underway(m) => served[m.call][m.by] = m.status
  /\ hand[m.by] = m => m \notin inbox[Client] /\ hand[Client] # m
  /\ m \in inbox[Client] => hand[Client] # m

RouteInv ==
  /\ RouteTypes
  /\ \A s \in Servers, c \in Calls : RequestInv(s, c)
  /\ \A m \in Replies : ReplyInv(m)

\* The reply of s to c has been taken and let go of.
Spent(c, s) ==
  /\ served[c][s] # "none"
  /\ \A m \in Replies : m.call = c /\ m.by = s => ~Underway(m)

Gave(c, o) == \E s \in Servers :
  served[c][s] # "none" /\ o \in Abstract!OutcomesOf(served[c][s])

\* What the client stores and returns for a call some server has given.
TableInv ==
  /\ \A c \in Calls : pc[c] \in {"wait", "leave"} => c \in calls
  /\ lookup # "none" => hand[Client] # NoMessage
  /\ lookup = "stored" => answer[hand[Client].call] # "none"
  /\ \A c \in Calls :
       /\ answer[c] # "none" => \E s \in Servers : served[c][s] = answer[c]
       /\ c \in done => answer[c] # "none" /\ \E s \in Servers : Spent(c, s)
       /\ pc[c] = "leave" => outcome[c] = "timeout" \/ Gave(c, outcome[c])

\* A client that has published on a nil channel was dialling, and stays there.
DeadInv ==
  /\ \A s \in Servers : panicked[s] \in {"no", "stop"}
  /\ panicked[Client] = "nil" => ~Reading(Client)
  /\ panicked[Client] = "done" =>
       \E c \in Calls, s, t \in Servers :
         s # t /\ served[c][s] # "none" /\ served[c][t] # "none"

RPCInv == IInv /\ CallTypes /\ RouteInv /\ TableInv /\ DeadInv

LEMMA RPCInvInit == RPCInit => RPCInv
<1> SUFFICES ASSUME RPCInit PROVE RPCInv
  OBVIOUS
<1>1. IInv /\ TypeOK
  BY InvInit DEF RPCInit, IInv
<1>2. \A p \in Peers : /\ hand[p] = NoMessage /\ inbox[p] = {}
                      /\ consumer[p] = "select" /\ panicked[p] = "no"
  BY DEF RPCInit, Init
<1>3. \A s \in Servers : s \in Peers
  BY PeersAreTheirs
<1>4. Client \in Peers /\ hand \in [Peers -> Messages \cup {NoMessage}]
  BY PeersAreTheirs DEF RPCInit
<1>5. CallTypes
  <2>1. hand[Client] \notin Calls
    BY <1>2, <1>4, MessagesAreApart
  <2>2. served \in [Calls -> [Servers -> Statuses \cup {"none"}]]
    BY DEF RPCInit
  <2>3. /\ pc \in [Calls -> {"idle", "sleep", "publish", "add", "wait", "leave", "done"}]
        /\ outcome \in [Calls -> {"none", "timeout", "closed", "publishError",
                                  "unmarshalError"} \cup Statuses]
        /\ answer \in [Calls -> Statuses \cup {"none"}]
    BY DEF RPCInit
  <2> QED
    BY <1>1, <1>2, <1>4, <2>1, <2>2, <2>3 DEF RPCInit, CallTypes
<1>6. RouteInv
  <2>1. \A m \in Replies : m.by \in Servers /\ m # NoMessage
    BY MessagesAreApart DEF Replies
  <2>2. \A m \in Replies : ~Underway(m)
    BY <1>2, <1>3, <1>4, <2>1 DEF Underway
  <2>3. \A m \in Replies : hand[m.by] # m /\ m \notin inbox[Client]
    BY <2>2 DEF Underway
  <2> QED
    BY <1>2, <1>3, <1>4, <2>2, <2>3, MessagesAreApart
       DEF RPCInit, RouteInv, RouteTypes, RequestInv, ReplyInv
<1>7. TableInv /\ DeadInv
  BY <1>2, <1>3, <1>4 DEF RPCInit, TableInv, DeadInv
<1> QED
  BY <1>1, <1>5, <1>6, <1>7 DEF RPCInv

-----------------------------------------------------------------------------
(* The steps.                                                              *)

\* A link is lost, redialled or shut down.
LinkActs == KeepCalls /\ \E p \in Peers :
  Reconnect(p) \/ SeeStop(p) \/ LoseLink(p) \/ Notified(p) \/ Shutdown(p)

\* RemoteCall's steps that touch no link.
CallActs(c) ==
  \/ Begin(c) \/ Wake(c) \/ PublishFails(c) \/ Add(c)
  \/ Timeout(c) \/ Answered(c) \/ Delete(c)

LEMMA RPCStepKinds ==
  ASSUME [RPCNext]_vars
  PROVE  \/ LinkActs
         \/ \E c \in Calls : CallActs(c) \/ Publish(c) \/ PublishOnNil(c)
         \/ \E m \in inbox[Client] : TakeReply(m)
         \/ LookUp \/ Store \/ CloseDone
         \/ \E s \in Servers : \/ \E c \in inbox[s] : TakeRequest(s, c)
                               \/ ServeCall(s) \/ Reply(s)
         \/ UNCHANGED vars
BY PeersAreTheirs
   DEF RPCNext, RemoteCall, ClientConsumer, GetCall, ClientReconnect,
       ClientShutdown, ServerConsumer, ServerReconnect, ServerShutdown,
       Environment, LinkActs, CallActs

\* Outside Publish and Reply the queues only shrink.
LEMMA LinkActsShrink ==
  ASSUME IInv, LinkActs
  PROVE  /\ [Next]_linkVars /\ KeepCalls
         /\ \A p \in Peers : inbox'[p] \subseteq inbox[p]
<1>1. [Next]_linkVars
  BY DEF LinkActs, Next, Consumer
<1>2. PICK p \in Peers :
        Reconnect(p) \/ SeeStop(p) \/ LoseLink(p) \/ Notified(p) \/ Shutdown(p)
  BY DEF LinkActs
<1>3. inbox' = inbox \/ inbox' = [inbox EXCEPT ![p] = {}]
  BY <1>2 DEF Reconnect, SeeClosed, OpenChannel, ConnectFails, Declare,
     CloseErrors, SeeStop, LoseLink, Notified, Shutdown, ShutdownBegins,
     ShutdownCloses
<1> QED
  BY <1>1, <1>3 DEF LinkActs, IInv, TypeOK

\* The links' invariant survives what RPC adds to their steps: the fanout, the
\* replies, and the panics of publish and getCall.
LEMMA LinksKept == ASSUME RPCInv, [RPCNext]_vars PROVE IInv'
<1> USE DEF RPCInv
<1> USE PeersAreTheirs
<1>1. CASE LinkActs
  BY <1>1, LinkActsShrink, InvKept
<1>2. CASE UNCHANGED linkVars
  BY <1>2, InvKept
<1>3. ASSUME UNCHANGED <<chan, stop, consumer, tries, errs, shutdown, panicked, losses>>,
             inbox' \in [Peers -> SUBSET Messages]
      PROVE  IInv'
  BY <1>3 DEF IInv, TypeOK, LinkInv, StopInv, DownInv, ShutInv, Reading, Alive
<1>4. ASSUME NEW c \in Calls, Publish(c) PROVE IInv'
  <2>1. CASE LoseLink(Client)
    BY <2>1, InvKept DEF Next
  <2>2. CASE ~LoseLink(Client)
    <3>1. inbox' = [p \in Peers |-> IF p \in Servers /\ Listening(p)
                                    THEN inbox[p] \cup {c} ELSE inbox[p]]
      BY <1>4, <2>2 DEF Publish
    <3>2. inbox' \in [Peers -> SUBSET Messages]
      BY <3>1 DEF IInv, TypeOK
    <3> QED
      BY <1>3, <1>4, <2>2, <3>2 DEF Publish
  <2> QED
    BY <2>1, <2>2
<1>5. ASSUME NEW cause \in {"nil", "done"}, Panic(Client, cause), Alive(Client),
             UNCHANGED <<chan, inbox, stop, consumer, tries, errs, shutdown, losses>>
      PROVE  IInv'
  BY <1>5 DEF IInv, TypeOK, Panic, LinkInv, StopInv, DownInv, ShutInv, Reading, Alive
<1>6. ASSUME NEW c \in Calls, PublishOnNil(c) PROVE IInv'
  BY <1>5, <1>6 DEF PublishOnNil
<1>7. ASSUME NEW m \in inbox[Client], TakeReply(m) PROVE IInv'
  BY <1>7, InvKept DEF TakeReply, Next, Consumer
<1>8. CASE LookUp
  BY <1>2, <1>8, InvKept DEF LookUp, Drop, Next, Consumer
<1>9. CASE CloseDone
  <2>1. CASE hand[Client].call \in done
    BY <1>5, <1>9, <2>1 DEF CloseDone
  <2>2. CASE hand[Client].call \notin done
    BY <1>9, <2>2, InvKept DEF CloseDone, Drop, Next, Consumer
  <2> QED
    BY <2>1, <2>2
<1>10. ASSUME NEW s \in Servers, NEW c \in inbox[s], TakeRequest(s, c) PROVE IInv'
  BY <1>10, InvKept DEF TakeRequest, Next, Consumer
<1>11. ASSUME NEW s \in Servers, Reply(s) PROVE IInv'
  <2>1. consumer[s] = "handle"
    BY <1>11, MessagesAreApart DEF Reply, CallTypes
  <2>2. inbox' \in [Peers -> SUBSET Messages]
    BY <1>11 DEF Reply, IInv, TypeOK
  <2> QED
    BY <1>11, <2>1, <2>2
       DEF Reply, IInv, TypeOK, LinkInv, StopInv, DownInv, ShutInv, Reading, Alive
<1>12. ASSUME NEW c \in Calls, CallActs(c) PROVE UNCHANGED linkVars
  BY <1>12 DEF CallActs, Begin, Wake, PublishFails, Add, Timeout, Answered, Delete
<1>13. ASSUME NEW s \in Servers, ServeCall(s) PROVE UNCHANGED linkVars
  BY <1>13 DEF ServeCall
<1> QED
  BY <1>1, <1>2, <1>4, <1>6, <1>7, <1>8, <1>9, <1>10, <1>11, <1>12, <1>13,
     RPCStepKinds DEF Store, vars

-----------------------------------------------------------------------------
(* Types.                                                                  *)

\* The links leave a consumer that is handling a message alone.
LEMMA LinkActsHandle ==
  ASSUME IInv, LinkActs, NEW q \in Peers
  PROVE  consumer'[q] = "handle" <=> consumer[q] = "handle"
<1>1. PICK p \in Peers :
        Reconnect(p) \/ SeeStop(p) \/ LoseLink(p) \/ Notified(p) \/ Shutdown(p)
  BY DEF LinkActs
<1> USE DEF IInv, TypeOK, Goto
<1>2. CASE SeeClosed(p) \/ ShutdownBegins(p)
  BY <1>2 DEF SeeClosed, ShutdownBegins
<1>3. CASE OpenChannel(p) \/ Declare(p) \/ CloseErrors(p) \/ Notified(p) \/ SeeStop(p)
  BY <1>3 DEF OpenChannel, Declare, CloseErrors, Notified, SeeStop
<1>4. CASE ConnectFails(p)
  BY <1>4 DEF ConnectFails
<1>5. CASE LoseLink(p) \/ ShutdownCloses(p)
  BY <1>5 DEF LoseLink, ShutdownCloses
<1> QED
  BY <1>1, <1>2, <1>3, <1>4, <1>5 DEF Reconnect, Shutdown

\* What a consumer has in hand is what it handles.
HandTypes ==
  /\ hand \in [Peers -> Messages \cup {NoMessage}] /\ hand[Client] \notin Calls
  /\ \A p \in Peers : consumer[p] = "handle" <=> hand[p] # NoMessage

LEMMA HandTypesKept == ASSUME RPCInv, [RPCNext]_vars PROVE HandTypes'
<1> USE PeersAreTheirs DEF RPCInv, CallTypes, HandTypes
<1>0. consumer \in [Peers -> {"select", "handle", "dial", "declare", "report",
                              "closeErr", "ended"}]
  BY DEF TypeOK
<1>1. CASE LinkActs
  BY <1>1, LinkActsHandle, LinkActsShrink DEF KeepCalls, handVars
<1>2. CASE UNCHANGED <<consumer, hand>>
  BY <1>2
<1>3. ASSUME NEW p \in Peers, consumer[p] = "handle", NEW m \in Messages, m \notin Calls \/ p # Client,
             consumer' = consumer, hand' = [hand EXCEPT ![p] = m]
      PROVE  HandTypes'
  BY <1>3, MessagesAreApart
<1>4. ASSUME NEW p \in Peers, consumer' = [consumer EXCEPT ![p] = "select"],
             hand' = [hand EXCEPT ![p] = NoMessage]
      PROVE  HandTypes'
  BY <1>0, <1>4, MessagesAreApart
<1>5. ASSUME NEW p \in Peers, NEW m \in Messages, m \notin Calls \/ p # Client,
             consumer' = [consumer EXCEPT ![p] = "handle"],
             hand' = [hand EXCEPT ![p] = m]
      PROVE  HandTypes'
  BY <1>0, <1>5, MessagesAreApart
<1>6. ASSUME NEW m \in inbox[Client], TakeReply(m) PROVE HandTypes'
  <2>1. m \in Messages /\ m \notin Calls
    BY MessagesAreApart DEF RouteInv, RouteTypes
  <2> QED
    BY <1>5, <1>6, <2>1 DEF TakeReply, Take, Goto
<1>7. ASSUME NEW s \in Servers, NEW c \in inbox[s], TakeRequest(s, c) PROVE HandTypes'
  <2>1. c \in Messages /\ s # Client
    BY DEF RouteInv, RouteTypes
  <2> QED
    BY <1>5, <1>7, <2>1 DEF TakeRequest, Take, Goto
<1>8. ASSUME NEW s \in Servers, ServeCall(s) PROVE HandTypes'
  <2>1. PICK status \in Results(hand[s]) :
               hand' = [hand EXCEPT ![s] = ReplyTo(hand[s], status, s)]
    BY <1>8 DEF ServeCall
  <2>2. ReplyTo(hand[s], status, s) \in Replies
    BY <1>8, <2>1 DEF ServeCall, Results, ReplyTo, Replies, Statuses
  <2>3. consumer[s] = "handle" /\ s # Client
    BY <1>8, MessagesAreApart DEF ServeCall
  <2> QED
    BY <1>3, <1>8, <2>1, <2>2, <2>3 DEF ServeCall, linkVars
<1>9. ASSUME NEW s \in Servers, Reply(s) PROVE HandTypes'
  BY <1>4, <1>9 DEF Reply
<1>10. CASE LookUp \/ CloseDone
  BY <1>2, <1>4, <1>10 DEF LookUp, CloseDone, Drop, Finish, Goto, linkVars
<1>11. ASSUME NEW c \in Calls, CallActs(c) \/ Publish(c) \/ PublishOnNil(c)
       PROVE UNCHANGED <<consumer, hand>>
  BY <1>11 DEF CallActs, Begin, Wake, PublishFails, Add, Timeout, Answered, Delete,
     Publish, PublishOnNil, LoseLink, linkVars, handVars, callVars
<1> QED
  BY <1>1, <1>2, <1>6, <1>7, <1>8, <1>9, <1>10, <1>11, RPCStepKinds
     DEF Store, vars, linkVars, handVars

LEMMA CallTypesKept == ASSUME RPCInv, [RPCNext]_vars PROVE CallTypes'
<1> USE DEF RPCInv, CallTypes
<1>1. TypeOK' /\ HandTypes'
  BY LinksKept, HandTypesKept DEF IInv
<1>2. /\ pc' \in [Calls -> {"idle", "sleep", "publish", "add", "wait", "leave", "done"}]
      /\ outcome' \in [Calls -> {"none", "timeout", "closed", "publishError",
                                "unmarshalError"} \cup Statuses]
      /\ calls' \subseteq Calls /\ \A c \in calls' : pc'[c] \in {"wait", "leave"}
  <2>1. ASSUME NEW c \in Calls, Answered(c)
        PROVE  outcome' \in [Calls -> {"none", "timeout", "closed", "publishError",
                                       "unmarshalError"} \cup Statuses]
    BY <2>1 DEF Answered, Return, TableInv
  <2>2. ASSUME NEW c \in Calls, CallActs(c) \/ Publish(c)
        PROVE  /\ pc' \in [Calls -> {"idle", "sleep", "publish", "add", "wait", "leave", "done"}]
               /\ outcome' \in [Calls -> {"none", "timeout", "closed", "publishError",
                                         "unmarshalError"} \cup Statuses]
               /\ calls' \subseteq Calls /\ \A k \in calls' : pc'[k] \in {"wait", "leave"}
    <3>1. CASE Begin(c) \/ Publish(c)
      BY <3>1 DEF Begin, Publish, Moves
    <3>2. CASE Wake(c)
      <4>1. CASE stop[Client]
        <5>1. /\ pc' = [pc EXCEPT ![c] = "done"] /\ calls' = calls
              /\ outcome' = [outcome EXCEPT ![c] = "closed"]
          BY <3>2, <4>1 DEF Wake, Moves, Return
        <5>2. c \notin calls
          BY <3>2 DEF Wake
        <5> QED
          BY <5>1, <5>2
      <4>2. CASE ~stop[Client]
        BY <3>2, <4>2 DEF Wake, Moves
      <4> QED
        BY <4>1, <4>2
    <3>3. CASE PublishFails(c)
      BY <3>3 DEF PublishFails, Moves, Return
    <3>4. CASE Add(c) \/ Delete(c)
      <4>1. CASE Add(c)
        BY <4>1 DEF Add, Moves
      <4>2. CASE Delete(c)
        BY <4>2 DEF Delete, Moves
      <4> QED
        BY <3>4, <4>1, <4>2
    <3>5. CASE Timeout(c) \/ Answered(c)
      <4>1. pc' = [pc EXCEPT ![c] = "leave"] /\ calls' = calls
        BY <3>5 DEF Timeout, Answered, Moves
      <4>2. outcome' \in [Calls -> {"none", "timeout", "closed", "publishError",
                                   "unmarshalError"} \cup Statuses]
        BY <2>1, <3>5 DEF Timeout, Return
      <4> QED
        BY <4>1, <4>2
    <3> QED
      BY <2>2, <3>1, <3>2, <3>3, <3>4, <3>5 DEF CallActs
  <2>3. CASE UNCHANGED <<pc, outcome, calls>>
    BY <2>3
  <2> QED
    BY <2>2, <2>3, RPCStepKinds
       DEF LinkActs, KeepCalls, callVars, PublishOnNil, TakeReply, LookUp, Store,
           CloseDone, TakeRequest, ServeCall, Reply, vars
<1>3. answer' \in [Calls -> Statuses \cup {"none"}] /\ done' \subseteq Calls
      /\ lookup' \in {"none", "found", "stored"}
  <2>1. lookup # "none" =>
          hand[Client].call \in Calls /\ hand[Client].status \in Statuses
    BY PeersAreTheirs DEF TableInv, Replies
  <2>2. CASE Store
    BY <2>1, <2>2 DEF Store
  <2>3. CASE CloseDone
    <3>1. UNCHANGED answer /\ lookup' \in {lookup, "none"}
          /\ done' \in {done, done \cup {hand[Client].call}}
      BY <2>3 DEF CloseDone
    <3> QED
      BY <2>1, <2>3, <3>1 DEF CloseDone
  <2>4. CASE LookUp
    <3>1. UNCHANGED <<answer, done>> /\ lookup' \in {lookup, "found"}
      BY <2>4 DEF LookUp, callVars
    <3> QED
      BY <3>1
  <2>5. CASE UNCHANGED <<answer, done, lookup>>
    BY <2>5
  <2> QED
    BY <2>2, <2>3, <2>4, <2>5, RPCStepKinds
       DEF LinkActs, KeepCalls, callVars, handVars, PublishOnNil, TakeReply,
           CallActs, Begin, Wake, PublishFails, Add, Timeout, Answered, Delete,
           Publish, TakeRequest, ServeCall, Reply, vars
<1>4. served' \in [Calls -> [Servers -> Statuses \cup {"none"}]]
  <2>1. ASSUME NEW s \in Servers, ServeCall(s)
        PROVE  served' \in [Calls -> [Servers -> Statuses \cup {"none"}]]
    <3>1. PICK status \in Results(hand[s]) :
                 served' = [served EXCEPT ![hand[s]][s] = status]
      BY <2>1 DEF ServeCall
    <3>2. status \in Statuses
      BY <3>1 DEF Results, Statuses
    <3> QED
      BY <3>1, <3>2
  <2>2. CASE served' = served
    BY <2>2
  <2> QED
    BY <2>1, <2>2, RPCStepKinds
       DEF LinkActs, KeepCalls, handVars, PublishOnNil, TakeReply, LookUp, Store,
           CloseDone, CallActs, Begin, Wake, PublishFails, Add, Timeout, Answered,
           Delete, Publish, TakeRequest, Reply, vars
<1> QED
  BY <1>1, <1>2, <1>3, <1>4 DEF HandTypes

-----------------------------------------------------------------------------
(* Requests and replies.                                                   *)

\* A call that was published, or served, is never again one that was not.
LEMMA SentStays ==
  ASSUME RPCInv, [RPCNext]_vars, NEW c \in Calls, ~Unsent(c)
  PROVE  ~Unsent(c)'
<1> USE DEF RPCInv, CallTypes, Unsent, Refused
<1>1. ASSUME NEW d \in Calls, CallActs(d) \/ Publish(d) PROVE ~Unsent(c)'
  <2>1. CASE Begin(d) \/ Wake(d) \/ PublishFails(d)
    BY <2>1 DEF Begin, Wake, PublishFails, Moves, Return
  <2>2. CASE Publish(d) \/ Add(d) \/ Timeout(d) \/ Answered(d)
    BY <2>2 DEF Publish, Add, Timeout, Answered, Moves, Return
  <2>3. CASE Delete(d)
    <3>1. outcome[d] \notin Refused
      BY <2>3 DEF Delete, TableInv, Gave, Abstract!OutcomesOf, Statuses
    <3> QED
      BY <2>3, <3>1 DEF Delete, Moves
  <2> QED
    BY <1>1, <2>1, <2>2, <2>3 DEF CallActs
<1>2. CASE UNCHANGED <<pc, outcome>>
  BY <1>2
<1> QED
  BY <1>1, <1>2, RPCStepKinds
     DEF LinkActs, KeepCalls, callVars, PublishOnNil, TakeReply, LookUp, Store,
         CloseDone, TakeRequest, ServeCall, Reply, vars

\* The effect of ServeCall: a request becomes the reply to it.
LEMMA Serves ==
  ASSUME RPCInv, NEW s \in Servers, ServeCall(s)
  PROVE  \E c \in Calls, status \in Statuses :
           LET m == ReplyTo(c, status, s) IN
           /\ hand[s] = c /\ served[c][s] = "none" /\ ~Unsent(c)
           /\ m \in Replies /\ m.call = c /\ m.by = s /\ m.status = status
           /\ hand' = [hand EXCEPT ![s] = m]
           /\ served' = [served EXCEPT ![c][s] = status]
           /\ UNCHANGED <<linkVars, callVars, lookup>>
<1>1. PICK status \in Results(hand[s]) :
             /\ served' = [served EXCEPT ![hand[s]][s] = status]
             /\ hand' = [hand EXCEPT ![s] = ReplyTo(hand[s], status, s)]
  BY DEF ServeCall
<1>2. status \in Statuses /\ hand[s] \in Calls
  BY <1>1 DEF ServeCall, Results, Statuses
<1>3. ReplyTo(hand[s], status, s) \in Replies
  BY <1>2 DEF ReplyTo, Replies
<1>4. served[hand[s]][s] = "none" /\ ~Unsent(hand[s])
  BY <1>2 DEF RPCInv, RouteInv, RequestInv
<1> QED
  BY <1>1, <1>2, <1>3, <1>4 DEF ServeCall, ReplyTo

\* The word of a server stands.
LEMMA ServedStays ==
  ASSUME RPCInv, [RPCNext]_vars, NEW c \in Calls, NEW s \in Servers,
         served[c][s] # "none"
  PROVE  served'[c][s] = served[c][s]
<1>1. ASSUME NEW t \in Servers, ServeCall(t) PROVE served'[c][s] = served[c][s]
  <2>1. PICK d \in Calls, status \in Statuses :
             served[d][t] = "none" /\ served' = [served EXCEPT ![d][t] = status]
    BY <1>1, Serves
  <2>2. served \in [Calls -> [Servers -> Statuses \cup {"none"}]]
    BY DEF RPCInv, CallTypes
  <2> QED
    BY <2>1, <2>2
<1>2. CASE served' = served
  BY <1>2
<1> QED
  BY <1>1, <1>2, RPCStepKinds
     DEF LinkActs, KeepCalls, handVars, PublishOnNil, TakeReply, LookUp, Store,
         CloseDone, CallActs, Begin, Wake, PublishFails, Add, Timeout, Answered,
         Delete, Publish, TakeRequest, Reply, vars

\* A step that only takes messages away.
LEMMA FewerUnderway ==
  ASSUME RPCInv, \A p \in Peers : inbox'[p] \subseteq inbox[p],
         \A p \in Peers : hand'[p] \in {hand[p], NoMessage}, served' = served,
         \A c \in Calls : ~Unsent(c) => ~Unsent(c)'
  PROVE  RouteInv'
<1> USE PeersAreTheirs DEF RPCInv, RouteInv
<1>1. RouteTypes'
  BY MessagesAreApart DEF RouteTypes
<1>2. ASSUME NEW s \in Servers, NEW c \in Calls PROVE RequestInv(s, c)'
  BY <1>2, MessagesAreApart DEF RequestInv
<1>3. ASSUME NEW m \in Replies PROVE ReplyInv(m)'
  <2>1. m.by \in Peers /\ m # NoMessage
    BY MessagesAreApart DEF Replies
  <2> QED
    BY <2>1 DEF ReplyInv, Underway
<1> QED
  BY <1>1, <1>2, <1>3

\* What happens to the queues and the consumers, step by step.
LEMMA TakingMoves ==
  ASSUME RPCInv, NEW p \in Peers, NEW m \in inbox[p],
         inbox' = [inbox EXCEPT ![p] = @ \ {m}],
         hand[p] = NoMessage, hand' = [hand EXCEPT ![p] = m], served' = served,
         \A c \in Calls : ~Unsent(c) => ~Unsent(c)'
  PROVE  RouteInv'
<1> USE PeersAreTheirs, MessagesAreApart DEF RPCInv, RouteInv
<1>1. inbox \in [Peers -> SUBSET Messages] /\ hand \in [Peers -> Messages \cup {NoMessage}]
  BY DEF CallTypes, TypeOK
<1>2. RouteTypes'
  BY <1>1 DEF RouteTypes
<1>3. ASSUME NEW s \in Servers, NEW c \in Calls PROVE RequestInv(s, c)'
  BY <1>1, <1>3 DEF RequestInv
<1>4. ASSUME NEW n \in Replies PROVE ReplyInv(n)'
  <2>1. n.by \in Servers /\ ReplyInv(n)
    BY DEF Replies
  <2>2. CASE p = Client
    BY <1>1, <2>1, <2>2 DEF ReplyInv, Underway
  <2>3. CASE p \in Servers
    <3>1. m \in Calls /\ m # n
      BY <2>3 DEF RouteTypes
    <3> QED
      BY <1>1, <2>1, <2>3, <3>1 DEF ReplyInv, Underway
  <2> QED
    BY <2>2, <2>3
<1> QED
  BY <1>2, <1>3, <1>4

LEMMA ServingMoves ==
  ASSUME RPCInv, NEW s \in Servers, ServeCall(s) PROVE RouteInv'
<1> USE PeersAreTheirs, MessagesAreApart DEF RPCInv, RouteInv
<1>0. PICK c \in Calls, status \in Statuses :
           LET m == ReplyTo(c, status, s) IN
           /\ hand[s] = c /\ served[c][s] = "none" /\ ~Unsent(c)
           /\ m \in Replies /\ m.call = c /\ m.by = s /\ m.status = status
           /\ hand' = [hand EXCEPT ![s] = m]
           /\ served' = [served EXCEPT ![c][s] = status]
           /\ UNCHANGED <<linkVars, callVars, lookup>>
  BY Serves
<1>1. /\ hand \in [Peers -> Messages \cup {NoMessage}]
      /\ served \in [Calls -> [Servers -> Statuses \cup {"none"}]]
      /\ inbox' = inbox /\ \A d \in Calls : Unsent(d)' = Unsent(d)
  BY <1>0 DEF CallTypes, linkVars, callVars, Unsent
<1> DEFINE m == ReplyTo(c, status, s)
<1>2. /\ m \in Replies /\ m.call = c /\ m.by = s /\ m.status = status
      /\ hand' = [hand EXCEPT ![s] = m]
      /\ hand[s] = c /\ served[c][s] = "none" /\ ~Unsent(c)
      /\ served' = [served EXCEPT ![c][s] = status]
  BY <1>0
<1> HIDE DEF m
<1>3. RouteTypes'
  BY <1>1, <1>2 DEF RouteTypes
<1>4. ASSUME NEW t \in Servers, NEW d \in Calls PROVE RequestInv(t, d)'
  <2>1. RequestInv(t, d)
    OBVIOUS
  <2>2. t = s => c \notin inbox[t]
    BY <1>2 DEF RequestInv
  <2>3. served'[d][t] = served[d][t] \/ (d = c /\ t = s)
    BY <1>1, <1>2
  <2>4. hand'[t] = IF t = s THEN m ELSE hand[t]
    BY <1>1, <1>2
  <2> QED
    BY <1>1, <1>2, <2>1, <2>2, <2>3, <2>4 DEF RequestInv
<1>5. ASSUME NEW n \in Replies PROVE ReplyInv(n)'
  <2>1. n.by \in Servers /\ n.call \in Calls /\ n.status \in Statuses /\ ReplyInv(n)
    BY DEF Replies
  <2>2. \A x \in Replies : x.call = c /\ x.by = s => ~Underway(x)
    BY <1>2 DEF ReplyInv, Replies, Statuses
  <2>3. \A q \in Peers : hand'[q] = IF q = s THEN m ELSE hand[q]
    BY <1>1, <1>2
  <2>4. CASE n = m
    <3>1. ~Underway(n) /\ Client # s
      BY <1>2, <2>2, <2>4
    <3> QED
      BY <1>1, <1>2, <2>1, <2>3, <2>4, <3>1 DEF ReplyInv, Underway
  <2>5. CASE n # m
    <3>1. Underway(n)' => Underway(n)
      BY <1>1, <2>1, <2>3, <2>5 DEF Underway
    <3>2. Underway(n) => served'[n.call][n.by] = served[n.call][n.by]
      BY <1>1, <1>2, <2>1, <2>2
    <3> QED
      BY <1>1, <2>1, <2>3, <2>5, <3>1, <3>2 DEF ReplyInv
  <2> QED
    BY <2>4, <2>5
<1> QED
  BY <1>3, <1>4, <1>5

LEMMA ReplyingMoves ==
  ASSUME RPCInv, NEW s \in Servers, Reply(s) PROVE RouteInv'
<1> USE PeersAreTheirs, MessagesAreApart DEF RPCInv, RouteInv
<1>1. /\ hand \in [Peers -> Messages \cup {NoMessage}]
      /\ inbox \in [Peers -> SUBSET Messages]
      /\ served' = served /\ \A d \in Calls : Unsent(d)' = Unsent(d)
  BY DEF Reply, CallTypes, TypeOK, callVars, Unsent
<1>2. /\ hand[s] \in Replies /\ hand[s].by = s
      /\ \A q \in Peers : hand'[q] = IF q = s THEN NoMessage ELSE hand[q]
      /\ \A q \in Servers : inbox'[q] = inbox[q]
      /\ inbox'[Client] \subseteq inbox[Client] \cup {hand[s]}
      /\ inbox[Client] \subseteq inbox'[Client]
  BY <1>1 DEF Reply, RouteTypes
<1>3. RouteTypes'
  BY <1>2 DEF RouteTypes
<1>4. ASSUME NEW t \in Servers, NEW d \in Calls PROVE RequestInv(t, d)'
  BY <1>1, <1>2 DEF RequestInv
<1>5. ASSUME NEW n \in Replies PROVE ReplyInv(n)'
  <2>1. n.by \in Servers /\ ReplyInv(n) /\ n # NoMessage
    BY DEF Replies
  <2>2. Underway(n)' => Underway(n)
    BY <1>2, <2>1 DEF Underway
  <2> QED
    BY <1>1, <1>2, <2>1, <2>2 DEF ReplyInv
<1> QED
  BY <1>3, <1>4, <1>5

\* The fanout of a request that no server has seen.
LEMMA PublishingMoves ==
  ASSUME RPCInv, [RPCNext]_vars, NEW c \in Calls, Publish(c) PROVE RouteInv'
<1> USE PeersAreTheirs, MessagesAreApart DEF RPCInv, RouteInv
<1>1. UNCHANGED <<hand, served>> /\ \A d \in Calls : ~Unsent(d) => ~Unsent(d)'
  BY SentStays DEF Publish, handVars
<1>2. Unsent(c) /\ ~Unsent(c)'
  BY DEF Publish, Moves, Unsent, CallTypes
<1>3. CASE LoseLink(Client)
  BY <1>1, <1>3, FewerUnderway DEF LoseLink
<1>4. CASE ~LoseLink(Client)
  <2>1. /\ inbox'[Client] = inbox[Client]
        /\ \A s \in Servers : inbox'[s] \in {inbox[s], inbox[s] \cup {c}}
    BY <1>4 DEF Publish
  <2>2. \A s \in Servers : served[c][s] = "none" /\ hand[s] # c
    BY <1>2 DEF RequestInv
  <2>3. RouteTypes'
    BY <1>1, <2>1 DEF RouteTypes
  <2>4. ASSUME NEW s \in Servers, NEW d \in Calls PROVE RequestInv(s, d)'
    BY <1>1, <1>2, <2>1, <2>2 DEF RequestInv
  <2>5. ASSUME NEW m \in Replies PROVE ReplyInv(m)'
    BY <1>1, <2>1 DEF ReplyInv, Underway
  <2> QED
    BY <2>3, <2>4, <2>5
<1> QED
  BY <1>3, <1>4

LEMMA RouteKept == ASSUME RPCInv, [RPCNext]_vars PROVE RouteInv'
<1> USE PeersAreTheirs DEF RPCInv, CallTypes
<1>0. \A c \in Calls : ~Unsent(c) => ~Unsent(c)'
  BY SentStays
<1>1. CASE LinkActs
  BY <1>0, <1>1, LinkActsShrink, FewerUnderway DEF KeepCalls, handVars
<1>2. CASE UNCHANGED <<inbox, hand, served>>
  BY <1>0, <1>2, FewerUnderway
<1>3. ASSUME hand' = [hand EXCEPT ![Client] = NoMessage], UNCHANGED <<inbox, served>>
      PROVE  RouteInv'
  BY <1>0, <1>3, FewerUnderway
<1>4. ASSUME NEW m \in inbox[Client], TakeReply(m) PROVE RouteInv'
  <2>1. hand[Client] = NoMessage
    BY <1>4 DEF TakeReply, Take
  <2> QED
    BY <1>0, <1>4, <2>1, TakingMoves DEF TakeReply, Take
<1>5. ASSUME NEW s \in Servers, NEW c \in inbox[s], TakeRequest(s, c) PROVE RouteInv'
  <2>1. hand[s] = NoMessage
    BY <1>5 DEF TakeRequest, Take
  <2> QED
    BY <1>0, <1>5, <2>1, TakingMoves DEF TakeRequest, Take
<1>6. CASE LookUp \/ CloseDone
  BY <1>2, <1>3, <1>6 DEF LookUp, CloseDone, Drop, Finish, linkVars
<1>7. ASSUME NEW c \in Calls, CallActs(c) \/ PublishOnNil(c)
      PROVE  UNCHANGED <<inbox, hand, served>>
  BY <1>7 DEF CallActs, Begin, Wake, PublishFails, Add, Timeout, Answered, Delete,
     PublishOnNil, linkVars, handVars
<1> QED
  BY <1>1, <1>2, <1>4, <1>5, <1>6, <1>7, ServingMoves, ReplyingMoves,
     PublishingMoves, RPCStepKinds DEF Store, vars, linkVars, handVars

-----------------------------------------------------------------------------
(* The table of pending calls and their answers.                           *)

\* A reply sets out once, when its server has served the call.
LEMMA SetsOutOnce ==
  ASSUME RPCInv, [RPCNext]_vars, NEW m \in Replies, Underway(m)'
  PROVE  Underway(m) \/ served[m.call][m.by] = "none"
<1> USE PeersAreTheirs, MessagesAreApart DEF RPCInv, CallTypes
<1>0. /\ m.by \in Servers /\ m # NoMessage /\ hand \in [Peers -> Messages \cup {NoMessage}]
      /\ inbox \in [Peers -> SUBSET Messages]
  BY DEF Replies, TypeOK
<1>1. CASE \A p \in Peers : hand'[p] \in {hand[p], NoMessage} /\ inbox'[p] \subseteq inbox[p]
  BY <1>0, <1>1 DEF Underway
<1>2. ASSUME NEW s \in Servers, ServeCall(s)
      PROVE  Underway(m) \/ served[m.call][m.by] = "none"
  <2>1. PICK n \in Replies : /\ hand' = [hand EXCEPT ![s] = n]
                             /\ served[n.call][n.by] = "none" /\ inbox' = inbox
    BY <1>2, Serves DEF linkVars
  <2> QED
    BY <1>0, <2>1 DEF Underway
<1>3. ASSUME NEW s \in Servers, Reply(s) PROVE Underway(m)
  <2>1. hand[s] \in Replies /\ hand[s].by = s
    BY <1>3 DEF Reply, RouteInv, RouteTypes
  <2> QED
    BY <1>0, <1>3, <2>1 DEF Reply, Underway
<1>4. ASSUME NEW n \in inbox[Client], TakeReply(n) PROVE Underway(m)
  BY <1>0, <1>4 DEF TakeReply, Take, Underway
<1>5. ASSUME NEW s \in Servers, NEW c \in inbox[s], TakeRequest(s, c) PROVE Underway(m)
  <2>1. c \in Calls
    BY DEF RouteInv, RouteTypes
  <2> QED
    BY <1>0, <1>5, <2>1 DEF TakeRequest, Take, Underway
<1>6. ASSUME NEW c \in Calls, Publish(c) PROVE Underway(m)
  <2>1. hand' = hand /\ inbox'[Client] = inbox[Client]
    BY <1>6 DEF Publish, LoseLink, handVars
  <2> QED
    BY <1>0, <2>1 DEF Underway
<1>7. CASE LinkActs
  BY <1>1, <1>7, LinkActsShrink DEF KeepCalls, handVars
<1>8. CASE UNCHANGED <<hand, inbox>>
  BY <1>1, <1>8
<1>9. ASSUME NEW c \in Calls, CallActs(c) \/ PublishOnNil(c) PROVE UNCHANGED <<hand, inbox>>
  BY <1>9 DEF CallActs, Begin, Wake, PublishFails, Add, Timeout, Answered, Delete,
     PublishOnNil, linkVars, handVars
<1>10. CASE LookUp \/ CloseDone
  BY <1>0, <1>1, <1>10 DEF LookUp, CloseDone, Drop, Finish, linkVars
<1> QED
  BY <1>2, <1>3, <1>4, <1>5, <1>6, <1>7, <1>8, <1>9, <1>10, RPCStepKinds
     DEF Store, vars, linkVars, handVars

LEMMA SpentStays ==
  ASSUME RPCInv, [RPCNext]_vars, NEW c \in Calls, NEW s \in Servers, Spent(c, s)
  PROVE  Spent(c, s)'
<1>1. served'[c][s] # "none"
  BY ServedStays DEF Spent
<1>2. ASSUME NEW m \in Replies, m.call = c, m.by = s PROVE ~Underway(m)'
  BY <1>2, SetsOutOnce DEF Spent
<1> QED
  BY <1>1, <1>2 DEF Spent

LEMMA GivenStays ==
  ASSUME RPCInv, [RPCNext]_vars, NEW c \in Calls, NEW o, Gave(c, o)
  PROVE  Gave(c, o)'
<1>1. PICK s \in Servers : served[c][s] # "none" /\ o \in Abstract!OutcomesOf(served[c][s])
  BY DEF Gave
<1>2. served'[c][s] = served[c][s]
  BY <1>1, ServedStays
<1> QED
  BY <1>1, <1>2 DEF Gave, Abstract!OutcomesOf

\* What the client's consumer has in hand while it handles it.
LEMMA InHand ==
  ASSUME RPCInv, hand[Client] # NoMessage
  PROVE  LET m == hand[Client] IN
         /\ m \in Replies /\ m.call \in Calls /\ m.by \in Servers
         /\ m.status \in Statuses /\ served[m.call][m.by] = m.status
         /\ hand[m.by] # m /\ m \notin inbox[Client]
<1>1. hand[Client] \in Replies
  BY PeersAreTheirs DEF RPCInv, CallTypes
<1>2. Underway(hand[Client]) /\ ReplyInv(hand[Client])
  BY <1>1 DEF RPCInv, RouteInv, Underway
<1> QED
  BY <1>1, <1>2 DEF Replies, ReplyInv

\* The consumer's hand changes with a new reply and when it lets go of one.
LEMMA HandOfClient ==
  ASSUME RPCInv, [RPCNext]_vars
  PROVE  \/ UNCHANGED <<hand[Client], lookup>>
         \/ \E m \in inbox[Client] : TakeReply(m)
         \/ LookUp \/ Store \/ CloseDone
<1>1. ASSUME NEW s \in Servers,
             (\E c \in inbox[s] : TakeRequest(s, c)) \/ ServeCall(s) \/ Reply(s)
      PROVE  UNCHANGED <<hand[Client], lookup>>
  <2>1. Client # s /\ Client \in Peers /\ hand \in [Peers -> Messages \cup {NoMessage}]
    BY PeersAreTheirs DEF RPCInv, CallTypes
  <2> QED
    BY <1>1, <2>1 DEF TakeRequest, ServeCall, Reply
<1>2. ASSUME NEW c \in Calls, CallActs(c) \/ Publish(c) \/ PublishOnNil(c)
      PROVE  UNCHANGED <<hand[Client], lookup>>
  BY <1>2 DEF CallActs, Begin, Wake, PublishFails, Add, Timeout, Answered, Delete,
     Publish, PublishOnNil, handVars
<1> QED
  BY <1>1, <1>2, RPCStepKinds DEF LinkActs, KeepCalls, handVars, vars

LEMMA AnswerKept ==
  ASSUME RPCInv, [RPCNext]_vars, NEW c \in Calls
  PROVE  /\ answer'[c] # "none" => \E s \in Servers : served'[c][s] = answer'[c]
         /\ answer[c] # "none" => answer'[c] # "none"
<1> USE DEF RPCInv, CallTypes
<1>1. CASE Store
  <2>1. hand[Client] # NoMessage
    BY <1>1 DEF Store, TableInv
  <2>2. /\ hand[Client].call \in Calls /\ hand[Client].by \in Servers
        /\ hand[Client].status \in Statuses
        /\ served[hand[Client].call][hand[Client].by] = hand[Client].status
    BY <2>1, InHand
  <2>3. served' = served /\ hand[Client].status # "none"
    BY <1>1, <2>2 DEF Store, Statuses
  <2>4. answer' = [answer EXCEPT ![hand[Client].call] = hand[Client].status]
    BY <1>1 DEF Store
  <2>5. CASE c = hand[Client].call
    BY <2>2, <2>3, <2>4, <2>5
  <2>6. CASE c # hand[Client].call
    BY <2>3, <2>4, <2>6 DEF TableInv
  <2> QED
    BY <2>5, <2>6
<1>2. CASE answer' = answer
  <2>1. ASSUME answer[c] # "none"
        PROVE  \E s \in Servers : served'[c][s] = answer'[c]
    <3>1. PICK s \in Servers : served[c][s] = answer[c]
      BY <2>1 DEF TableInv
    <3>2. served'[c][s] = served[c][s]
      BY <2>1, <3>1, ServedStays
    <3> QED
      BY <1>2, <3>1, <3>2
  <2> QED
    BY <1>2, <2>1
<1> QED
  BY <1>1, <1>2, RPCStepKinds
     DEF LinkActs, KeepCalls, callVars, PublishOnNil, TakeReply, LookUp, CloseDone,
         CallActs, Begin, Wake, PublishFails, Add, Timeout, Answered, Delete,
         Publish, TakeRequest, ServeCall, Reply, vars

\* A call is done when a reply to it has been let go of.
LEMMA DoneKept ==
  ASSUME RPCInv, [RPCNext]_vars, NEW c \in done'
  PROVE  answer'[c] # "none" /\ \E s \in Servers : Spent(c, s)'
<1> USE DEF RPCInv, CallTypes
<1>1. CASE c \in done
  <2>1. PICK s \in Servers : Spent(c, s) /\ answer[c] # "none" /\ c \in Calls
    BY <1>1 DEF TableInv
  <2> QED
    BY <2>1, SpentStays, AnswerKept
<1>2. CASE CloseDone /\ hand[Client].call \notin done
  <2>0. PICK m : m = hand[Client]
    OBVIOUS
  <2>1. m # NoMessage /\ answer[m.call] # "none"
    BY <1>2, <2>0 DEF CloseDone, TableInv
  <2>2. /\ m \in Replies /\ m.call \in Calls /\ m.by \in Servers
        /\ m.status \in Statuses /\ served[m.call][m.by] = m.status
        /\ hand[m.by] # m /\ m \notin inbox[Client]
    BY <2>0, <2>1, InHand
  <2>3. /\ hand' = [hand EXCEPT ![Client] = NoMessage] /\ inbox' = inbox
        /\ served' = served /\ answer' = answer /\ done' = done \cup {m.call}
    BY <1>2, <2>0 DEF CloseDone, Drop, Finish
  <2>4. hand'[Client] = NoMessage /\ \A s \in Servers : hand'[s] = hand[s]
    BY <2>3, PeersAreTheirs
  <2>5. ASSUME NEW n \in Replies, n.call = m.call, n.by = m.by PROVE ~Underway(n)'
    <3>1. ASSUME Underway(n)' PROVE n = m
      <4>1. Underway(n)
        BY <2>2, <2>3, <2>4, <2>5, <3>1, MessagesAreApart DEF Underway
      <4>2. n.status = m.status
        BY <2>2, <2>5, <4>1 DEF RouteInv, ReplyInv
      <4> QED
        BY <2>2, <2>5, <4>2 DEF Replies
    <3>2. ~Underway(m)'
      BY <2>2, <2>3, <2>4, MessagesAreApart DEF Underway
    <3> QED
      BY <3>1, <3>2
  <2>6. Spent(m.call, m.by)'
    BY <2>2, <2>3, <2>5 DEF Spent, Statuses
  <2>7. CASE c = m.call
    BY <2>1, <2>2, <2>3, <2>6, <2>7
  <2>8. CASE c # m.call
    BY <1>1, <2>3, <2>8
  <2> QED
    BY <2>7, <2>8
<1>3. CASE done' = done
  BY <1>1, <1>3
<1> QED
  BY <1>2, <1>3, RPCStepKinds
     DEF LinkActs, KeepCalls, callVars, PublishOnNil, TakeReply, LookUp, CloseDone,
         Store, CallActs, Begin, Wake, PublishFails, Add, Timeout, Answered, Delete,
         Publish, TakeRequest, ServeCall, Reply, vars

\* What a call returns was given to it, but for the timeout.
LEMMA LeaveKept ==
  ASSUME RPCInv, [RPCNext]_vars, NEW c \in Calls, pc'[c] = "leave"
  PROVE  outcome'[c] = "timeout" \/ \E s \in Servers :
           served'[c][s] # "none" /\ outcome'[c] \in Abstract!OutcomesOf(served'[c][s])
<1> USE DEF RPCInv, CallTypes
<1> DEFINE Given == \E s \in Servers :
             served'[c][s] # "none" /\ outcome'[c] \in Abstract!OutcomesOf(served'[c][s])
<1>0. ASSUME pc[c] = "leave", outcome'[c] = outcome[c]
      PROVE  outcome'[c] = "timeout" \/ Given
  <2>1. CASE Gave(c, outcome[c])
    <3>1. PICK s \in Servers : /\ served[c][s] # "none"
                              /\ outcome[c] \in Abstract!OutcomesOf(served[c][s])
      BY <2>1 DEF Gave
    <3>2. served'[c][s] = served[c][s]
      BY <3>1, ServedStays
    <3> QED
      BY <1>0, <3>1, <3>2
  <2> QED
    BY <1>0, <2>1 DEF TableInv
<1>1. ASSUME NEW d \in Calls, Answered(d), ~(pc[c] = "leave" /\ outcome'[c] = outcome[c])
      PROVE  Given
  <2>1. PICK s \in Servers : served[d][s] = answer[d] /\ answer[d] # "none"
    BY <1>1 DEF Answered, TableInv
  <2>2. served' = served /\ pc' = [pc EXCEPT ![d] = "leave"]
    BY <1>1 DEF Answered, Moves, handVars
  <2>3. PICK o \in Abstract!OutcomesOf(answer[d]) : outcome' = [outcome EXCEPT ![d] = o]
    BY <1>1 DEF Answered, Return, Abstract!OutcomesOf
  <2>4. c = d
    BY <1>1, <2>2, <2>3
  <2> QED
    BY <2>1, <2>2, <2>3, <2>4
<1>2. ASSUME NEW d \in Calls, CallActs(d) \/ Publish(d), ~Answered(d)
      PROVE  outcome'[c] = "timeout" \/ (pc[c] = "leave" /\ outcome'[c] = outcome[c])
  <2>1. CASE Begin(d) \/ Wake(d) \/ PublishFails(d)
    BY <1>2, <2>1 DEF Begin, Wake, PublishFails, Moves, Return
  <2>2. CASE Add(d) \/ Publish(d)
    BY <2>2 DEF Add, Publish, Moves
  <2>3. CASE Timeout(d)
    BY <2>3 DEF Timeout, Moves, Return
  <2>4. CASE Delete(d)
    BY <2>4 DEF Delete, Moves
  <2> QED
    BY <1>2, <2>1, <2>2, <2>3, <2>4 DEF CallActs
<1>3. CASE UNCHANGED <<pc, outcome>>
  BY <1>0, <1>3
<1> QED
  BY <1>0, <1>1, <1>2, <1>3, RPCStepKinds
     DEF LinkActs, KeepCalls, callVars, PublishOnNil, TakeReply, LookUp, Store,
         CloseDone, TakeRequest, ServeCall, Reply, vars

LEMMA TableKept == ASSUME RPCInv, [RPCNext]_vars PROVE TableInv'
<1> USE DEF RPCInv, CallTypes
<1>1. ASSUME NEW c \in Calls, pc'[c] \in {"wait", "leave"} PROVE c \in calls'
  <2>1. ASSUME NEW d \in Calls, CallActs(d) \/ Publish(d) PROVE c \in calls'
    <3>1. CASE Begin(d) \/ Wake(d) \/ PublishFails(d)
      BY <1>1, <3>1 DEF Begin, Wake, PublishFails, Moves, TableInv
    <3>2. CASE Publish(d) \/ Timeout(d) \/ Answered(d)
      BY <1>1, <3>2 DEF Publish, Timeout, Answered, Moves, TableInv
    <3>3. CASE Add(d)
      BY <1>1, <3>3 DEF Add, Moves, TableInv
    <3>4. CASE Delete(d)
      BY <1>1, <3>4 DEF Delete, Moves, TableInv
    <3> QED
      BY <2>1, <3>1, <3>2, <3>3, <3>4 DEF CallActs
  <2>2. CASE UNCHANGED <<pc, calls>>
    BY <1>1, <2>2 DEF TableInv
  <2> QED
    BY <2>1, <2>2, RPCStepKinds
       DEF LinkActs, KeepCalls, callVars, PublishOnNil, TakeReply, LookUp, Store,
           CloseDone, TakeRequest, ServeCall, Reply, vars
<1>2. /\ lookup' # "none" => hand'[Client] # NoMessage
      /\ lookup' = "stored" => answer'[hand'[Client].call] # "none"
  <2>1. CASE UNCHANGED <<hand[Client], lookup>>
    BY <2>1, InHand, AnswerKept DEF TableInv
  <2>2. ASSUME NEW m \in inbox[Client], TakeReply(m) PROVE lookup' = "none"
    BY <2>2, PeersAreTheirs DEF TakeReply, Take, TableInv
  <2>3. CASE LookUp
    BY <2>3 DEF LookUp
  <2>4. CASE Store
    BY <2>4, InHand DEF Store, TableInv, Statuses
  <2>5. CASE CloseDone
    BY <2>5 DEF CloseDone, TableInv
  <2> QED
    BY <2>1, <2>2, <2>3, <2>4, <2>5, HandOfClient
<1>3. \A c \in Calls : answer'[c] # "none" => \E s \in Servers : served'[c][s] = answer'[c]
  BY AnswerKept
<1>4. \A c \in done' : answer'[c] # "none" /\ \E s \in Servers : Spent(c, s)'
  BY DoneKept
<1>5. \A c \in Calls : pc'[c] = "leave" =>
        outcome'[c] = "timeout" \/ \E s \in Servers :
          served'[c][s] # "none" /\ outcome'[c] \in Abstract!OutcomesOf(served'[c][s])
  BY LeaveKept
<1> QED
  BY <1>1, <1>2, <1>3, <1>4, <1>5 DEF TableInv, Gave

-----------------------------------------------------------------------------
(* Panics.                                                                 *)

\* Who panics for what; the dead stay dead.
LEMMA Panicking ==
  ASSUME RPCInv, [RPCNext]_vars, NEW p \in Peers
  PROVE  /\ \/ panicked'[p] \in {panicked[p], "stop"}
            \/ p = Client /\ (CloseDone \/ \E c \in Calls : PublishOnNil(c))
         /\ ~Alive(p) => UNCHANGED <<panicked[p], consumer[p]>>
<1> USE PeersAreTheirs DEF RPCInv, IInv, TypeOK, Alive
<1>1. CASE LinkActs
  <2>1. PICK q \in Peers :
          Reconnect(q) \/ SeeStop(q) \/ LoseLink(q) \/ Notified(q) \/ Shutdown(q)
    BY <1>1 DEF LinkActs
  <2>2. CASE SeeClosed(q) \/ ShutdownBegins(q)
    BY <2>2 DEF SeeClosed, ShutdownBegins, Panic, Goto
  <2>3. CASE OpenChannel(q) \/ ConnectFails(q) \/ Declare(q) \/ CloseErrors(q)
               \/ SeeStop(q) \/ Notified(q) \/ ShutdownCloses(q)
    BY <2>3 DEF OpenChannel, ConnectFails, Declare, CloseErrors, SeeStop, Notified,
       ShutdownCloses, Goto
  <2>4. CASE LoseLink(q)
    BY <2>4 DEF LoseLink
  <2> QED
    BY <2>1, <2>2, <2>3, <2>4 DEF Reconnect, Shutdown
<1>2. CASE UNCHANGED <<panicked, consumer>>
  BY <1>2
<1>3. ASSUME NEW c \in Calls, CallActs(c) \/ Publish(c)
      PROVE  UNCHANGED <<panicked, consumer>>
  BY <1>3 DEF CallActs, Begin, Wake, PublishFails, Add, Timeout, Answered, Delete,
     Publish, LoseLink, linkVars
<1>4. CASE CloseDone \/ \E c \in Calls : PublishOnNil(c)
  <2>1. Alive(Client) /\ \A q \in Servers : UNCHANGED <<panicked[q], consumer[q]>>
    BY <1>4 DEF CloseDone, PublishOnNil, Drop, Finish, Goto, Panic
  <2> QED
    BY <1>4, <2>1
<1>5. ASSUME NEW m \in inbox[Client], TakeReply(m)
      PROVE  panicked' = panicked /\ (~Alive(p) => consumer'[p] = consumer[p])
  BY <1>5 DEF TakeReply, Take, Goto
<1>6. CASE LookUp
  BY <1>6 DEF LookUp, Drop, Finish, Goto, linkVars
<1>7. ASSUME NEW s \in Servers,
             (\E c \in inbox[s] : TakeRequest(s, c)) \/ ServeCall(s) \/ Reply(s)
      PROVE  panicked' = panicked /\ (~Alive(p) => consumer'[p] = consumer[p])
  BY <1>7 DEF TakeRequest, Take, ServeCall, Reply, Goto, linkVars
<1> QED
  BY <1>1, <1>2, <1>3, <1>4, <1>5, <1>6, <1>7, RPCStepKinds DEF Store, vars, linkVars

LEMMA DeadKept == ASSUME RPCInv, [RPCNext]_vars PROVE DeadInv'
<1> USE PeersAreTheirs DEF RPCInv, DeadInv
<1>1. ASSUME NEW s \in Servers PROVE panicked'[s] \in {"no", "stop"}
  BY <1>1, Panicking
<1>2. ASSUME panicked'[Client] = "nil" PROVE ~Reading(Client)'
  <2>1. ASSUME NEW c \in Calls, PublishOnNil(c) PROVE ~Reading(Client)'
    BY <2>1 DEF PublishOnNil, IInv, LinkInv, DownInv, Reading
  <2>2. CASE panicked[Client] = "nil"
    BY <2>2, Panicking DEF Reading, Alive
  <2>3. CASE CloseDone /\ panicked[Client] # "nil"
    BY <1>2, <2>3 DEF CloseDone, Drop, Finish, Panic, IInv, TypeOK
  <2> QED
    BY <1>2, <2>1, <2>2, <2>3, Panicking
<1>3. ASSUME panicked'[Client] = "done"
      PROVE  \E c \in Calls, s, t \in Servers :
               s # t /\ served'[c][s] # "none" /\ served'[c][t] # "none"
  <2>1. CASE panicked[Client] = "done"
    <3>1. PICK c \in Calls, s \in Servers, t \in Servers :
                 s # t /\ served[c][s] # "none" /\ served[c][t] # "none"
      BY <2>1
    <3> QED
      BY <3>1, ServedStays
  <2>2. CASE CloseDone /\ panicked[Client] # "done"
    <3>1. hand[Client] # NoMessage /\ hand[Client].call \in done /\ served' = served
      BY <1>3, <2>2 DEF CloseDone, Drop, Finish, TableInv
    <3>2. PICK m : m = hand[Client]
      OBVIOUS
    <3>3. /\ m \in Replies /\ m.call \in Calls /\ m.by \in Servers
          /\ m.status \in Statuses /\ served[m.call][m.by] = m.status
      BY <3>1, <3>2, InHand
    <3>4. PICK s \in Servers : Spent(m.call, s)
      BY <3>1, <3>2, <3>3 DEF TableInv
    <3>5. s # m.by
      BY <3>2, <3>3, <3>4 DEF Spent, Underway
    <3>6. served[m.call][s] # "none" /\ served[m.call][m.by] # "none"
      BY <3>3, <3>4 DEF Spent, Statuses
    <3> QED
      BY <3>1, <3>3, <3>5, <3>6
  <2>3. CASE (\E c \in Calls : PublishOnNil(c)) /\ panicked[Client] # "done"
    BY <1>3, <2>3 DEF PublishOnNil, Panic, IInv, TypeOK
  <2> QED
    BY <1>3, <2>1, <2>2, <2>3, Panicking
<1> QED
  BY <1>1, <1>2, <1>3 DEF Reading

LEMMA RPCInvKept == ASSUME RPCInv, [RPCNext]_vars PROVE RPCInv'
BY LinksKept, CallTypesKept, RouteKept, TableKept, DeadKept DEF RPCInv

-----------------------------------------------------------------------------
(* The theorems about RPC.                                                 *)

\* The links, the queues, the table of pending calls and the consumers agree in
\* every reachable state, through losses, shutdowns and panics on all sides.
THEOREM RPCConsistent == RPCSpec => []RPCInv
<1>1. RPCInv /\ [RPCNext]_vars => RPCInv'
  BY RPCInvKept
<1> QED
  BY <1>1, RPCInvInit, PTL DEF RPCSpec

\* Types, a consumer that handles just what it has in hand, and no call in the
\* table that has returned: the deferred deleteCall of RemoteCall.
THEOREM CallTypesCorrect == RPCSpec => []CallTypes
<1>1. RPCInv => CallTypes
  BY DEF RPCInv
<1> QED
  BY <1>1, RPCConsistent, PTL

\* What RPCLink promises of one peer holds of all of them under the calls: no
\* second close of stop without Shutdown, none after giving up; a consumer
\* behind every open stop; and no peer that comes back after Shutdown.
THEOREM LinksUnderCalls ==
  RPCSpec => [](PanicNeedsShutdown /\ ConsumerAccounted /\ DownStaysDown)
<1>1. RPCInv => PanicNeedsShutdown /\ ConsumerAccounted /\ DownStaysDown
  BY DEF RPCInv, IInv, LinkInv, StopInv, DownInv, ShutInv, Reading,
         PanicNeedsShutdown, ConsumerAccounted, DownStaysDown
<1> QED
  BY <1>1, RPCConsistent, PTL

\* The three panics of the library and who can meet them: close(stop) twice
\* after Shutdown; close(done) twice when two servers have served the call; a
\* publish on the nil channel of a client that dials.
THEOREM PanicsHaveCauses == RPCSpec => []PanicCauses
<1>1. RPCInv => PanicCauses
  <2> SUFFICES ASSUME RPCInv PROVE PanicCauses
    OBVIOUS
  <2>1. \A p \in Peers : panicked[p] = "stop" => shutdown[p] # "no"
    BY DEF RPCInv, IInv, LinkInv, StopInv
  <2>2. panicked[Client] = "nil" => stop[Client] /\ consumer[Client] # "select"
    BY PeersAreTheirs DEF RPCInv, DeadInv, IInv, TypeOK, LinkInv, StopInv, Reading
  <2> QED
    BY <2>1, <2>2 DEF RPCInv, DeadInv, PanicCauses
<1> QED
  BY <1>1, RPCConsistent, PTL

\* getCall lets go of an answer to a call that waits only by waking it.
THEOREM AnswersWake == RPCSpec => WaitingIsWoken
<1>1. ASSUME RPCInv, [RPCNext]_vars
      PROVE  \A c \in Calls :
               /\ hand[Client] # NoMessage /\ hand[Client].call = c
               /\ hand'[Client] = NoMessage
               /\ pc[c] = "wait"
               => c \in done'
  <2> SUFFICES ASSUME NEW c \in Calls, hand[Client] # NoMessage,
                      hand[Client].call = c, hand'[Client] = NoMessage,
                      pc[c] = "wait"
               PROVE  c \in done'
    OBVIOUS
  <2>1. c \in calls
    BY <1>1 DEF RPCInv, TableInv
  <2>2. ASSUME NEW m \in inbox[Client], TakeReply(m) PROVE FALSE
    BY <1>1, <2>2, PeersAreTheirs DEF TakeReply, Take, RPCInv, CallTypes
  <2>3. CASE LookUp \/ Store
    BY <2>1, <2>3 DEF LookUp, Store
  <2>4. CASE CloseDone
    BY <2>4 DEF CloseDone
  <2> QED
    BY <1>1, <2>2, <2>3, <2>4, HandOfClient
<1>2. RPCInv /\ [RPCNext]_vars =>
        [\A c \in Calls :
           /\ hand[Client] # NoMessage /\ hand[Client].call = c
           /\ hand'[Client] = NoMessage
           /\ pc[c] = "wait"
           => c \in done']_vars
  BY <1>1
<1> QED
  BY <1>2, RPCConsistent, PTL DEF RPCSpec, WaitingIsWoken

-----------------------------------------------------------------------------
(* The refinement of RemoteCalls.  A call is invoked by Begin, served by    *)
(* ServeCall and returns where its pc becomes done; all else stutters.      *)

LEMMA AbstractInit == RPCInit => Abstract!Init
BY DEF RPCInit, Abstract!Init, Phases, Returned

\* RemoteCall's steps on the way leave what the caller sees alone.
LEMMA OnTheWay ==
  ASSUME RPCInv, NEW c \in Calls, NEW l, pc' = [pc EXCEPT ![c] = l],
         l \notin {"idle", "done"}, pc[c] \notin {"idle", "done"},
         \A d \in Calls : d # c => outcome'[d] = outcome[d]
  PROVE  UNCHANGED <<Phases, Returned>>
<1>1. pc \in [Calls -> {"idle", "sleep", "publish", "add", "wait", "leave", "done"}]
  BY DEF RPCInv, CallTypes
<1> QED
  BY <1>1 DEF Phases, Returned

\* Where a call returns, it returns its outcome.
LEMMA Returning ==
  ASSUME RPCInv, NEW c \in Calls, NEW o, pc' = [pc EXCEPT ![c] = "done"],
         pc[c] \notin {"idle", "done"}, outcome' = [outcome EXCEPT ![c] = o]
  PROVE  /\ Phases[c] = "called"
         /\ Phases' = [Phases EXCEPT ![c] = "returned"]
         /\ Returned' = [Returned EXCEPT ![c] = o]
<1>1. /\ pc \in [Calls -> {"idle", "sleep", "publish", "add", "wait", "leave", "done"}]
      /\ DOMAIN outcome = Calls
  BY DEF RPCInv, CallTypes
<1> QED
  BY <1>1 DEF Phases, Returned

\* The outcomes RemoteCalls allows: a server's, a timeout, a refusal unserved.
LEMMA PossibleOutcomes ==
  ASSUME NEW c \in Calls, NEW o,
         \/ Gave(c, o) \/ o = "timeout"
         \/ o \in Abstract!Refusals /\ \A s \in Servers : served[c][s] = "none"
  PROVE  o \in Abstract!Possible(c)
<1> DEFINE Givers == {t \in Servers : served[c][t] # "none"}
           Given == UNION {Abstract!OutcomesOf(served[c][s]) : s \in Givers}
           Refusable == IF \A s \in Servers : served[c][s] = "none"
                        THEN Abstract!Refusals ELSE {}
<1>1. ASSUME Gave(c, o) PROVE o \in Given
  <2>1. PICK s \in Givers : o \in Abstract!OutcomesOf(served[c][s])
    BY <1>1 DEF Gave
  <2> HIDE DEF Givers
  <2> QED
    BY <2>1, Zenon
<1>2. ASSUME o \in Abstract!Refusals, \A s \in Servers : served[c][s] = "none"
      PROVE  o \in Refusable
  BY <1>2
<1>3. Abstract!Possible(c) = Given \cup {"timeout"} \cup Refusable
  BY DEF Abstract!Possible
<1> HIDE DEF Given, Refusable
<1> QED
  BY <1>1, <1>2, <1>3

\* A call that is refused was not served, and is not published any more.
LEMMA RefusedReturns ==
  ASSUME RPCInv, NEW c \in Calls, NEW o \in Refused,
         pc' = [pc EXCEPT ![c] = "done"], pc[c] \in {"sleep", "publish"},
         outcome' = [outcome EXCEPT ![c] = o], served' = served
  PROVE  Abstract!Return(c, o)
<1>1. \A s \in Servers : served[c][s] = "none"
  BY DEF RPCInv, RouteInv, RequestInv, Unsent
<1>2. o \in Abstract!Possible(c)
  BY <1>1, PossibleOutcomes DEF Abstract!Refusals, Refused
<1> QED
  BY <1>2, Returning DEF Abstract!Return

LEMMA CallImplements ==
  ASSUME RPCInv, NEW c \in Calls, CallActs(c) \/ Publish(c)
  PROVE  [Abstract!Next]_Abstract!vars
<1> USE DEF Abstract!vars
<1>0. /\ served' = served /\ DOMAIN pc = Calls /\ DOMAIN outcome = Calls
      /\ outcome[c] \in {"none", "timeout", "closed", "publishError",
                         "unmarshalError"} \cup Statuses
  BY DEF RPCInv, CallTypes, CallActs, Begin, Wake, PublishFails, Add, Timeout,
     Answered, Delete, Publish, handVars
<1>1. CASE Begin(c)
  <2>1. PICK l \in {"sleep", "publish"} : pc' = [pc EXCEPT ![c] = l]
    BY <1>1 DEF Begin, Moves
  <2>2. pc[c] = "idle" /\ outcome' = outcome
    BY <1>1 DEF Begin
  <2>3. Phases[c] = "idle" /\ Phases' = [Phases EXCEPT ![c] = "called"]
    BY <1>0, <2>1, <2>2 DEF Phases
  <2>4. Returned' = Returned
    BY <1>0, <2>1, <2>2 DEF Returned
  <2> QED
    BY <1>0, <2>3, <2>4 DEF Abstract!Invoke, Abstract!Next
<1>2. ASSUME NEW o \in Refused, pc' = [pc EXCEPT ![c] = "done"],
             pc[c] \in {"sleep", "publish"}, outcome' = [outcome EXCEPT ![c] = o]
      PROVE  Abstract!Next
  <2>1. Abstract!Return(c, o)
    BY <1>0, <1>2, RefusedReturns
  <2> QED
    BY <2>1 DEF Abstract!Next, Abstract!Outcomes, Abstract!Refusals, Refused
<1>3. CASE Wake(c) \/ PublishFails(c)
  <2>1. CASE PublishFails(c)
    BY <1>2, <2>1 DEF PublishFails, Moves, Return, Refused
  <2>2. CASE Wake(c) /\ stop[Client]
    BY <1>2, <2>2 DEF Wake, Moves, Return, Refused
  <2>3. CASE Wake(c) /\ ~stop[Client]
    BY <1>0, <2>3, OnTheWay DEF Wake, Moves
  <2> QED
    BY <1>3, <2>1, <2>2, <2>3
<1>4. CASE Publish(c) \/ Add(c) \/ Timeout(c) \/ Answered(c)
  <2>1. PICK l \in {"add", "wait", "leave"} : pc' = [pc EXCEPT ![c] = l]
    BY <1>4 DEF Publish, Add, Timeout, Answered, Moves
  <2>2. \A d \in Calls : d # c => outcome'[d] = outcome[d]
    BY <1>0, <1>4 DEF Publish, Add, Timeout, Answered, Return
  <2>3. pc[c] \notin {"idle", "done"}
    BY <1>4 DEF Publish, Add, Timeout, Answered
  <2> QED
    BY <1>0, <2>1, <2>2, <2>3, OnTheWay
<1>5. CASE Delete(c)
  <2> DEFINE o == outcome[c]
  <2>1. /\ pc[c] = "leave" /\ pc' = [pc EXCEPT ![c] = "done"]
        /\ outcome' = [outcome EXCEPT ![c] = o]
    BY <1>0, <1>5 DEF Delete, Moves, RPCInv, CallTypes
  <2>2. o = "timeout" \/ Gave(c, o)
    BY <2>1 DEF RPCInv, TableInv
  <2>3. o \in Abstract!Possible(c)
    BY <2>2, PossibleOutcomes
  <2>4. o \in Abstract!Outcomes
    BY <1>0, <2>2 DEF Gave, Abstract!Outcomes, Abstract!OutcomesOf, Abstract!Statuses,
       Abstract!Refusals, Statuses, RPCInv, CallTypes
  <2>5. Abstract!Return(c, o)
    BY <1>0, <2>1, <2>3, Returning DEF Abstract!Return
  <2> QED
    BY <2>4, <2>5 DEF Abstract!Next
<1> QED
  BY <1>1, <1>3, <1>4, <1>5 DEF CallActs

LEMMA ServeImplements ==
  ASSUME RPCInv, NEW s \in Servers, ServeCall(s)
  PROVE  Abstract!Next
<1>1. PICK c \in Calls, status \in Statuses :
           /\ served[c][s] = "none" /\ ~Unsent(c)
           /\ served' = [served EXCEPT ![c][s] = status]
           /\ UNCHANGED callVars
  BY Serves
<1>2. Phases[c] # "idle" /\ Returned[c] \notin Abstract!Refusals
  BY <1>1 DEF Unsent, Refused, Phases, Returned, Abstract!Refusals
<1>3. UNCHANGED <<Phases, Returned>>
  BY <1>1 DEF callVars, Phases, Returned
<1>4. Abstract!Serve(c, s, status)
  BY <1>1, <1>2, <1>3 DEF Abstract!Serve
<1> QED
  BY <1>1, <1>4 DEF Abstract!Next, Abstract!Statuses, Statuses

\* The library keeps its promise to the users of RemoteCall: a call is served
\* at most once by each server, never after a refusal, and returns what some
\* server made of it or a timeout, with any number of calls, servers and losses.
THEOREM PromiseKept == RPCSpec => KeepsPromise
<1>1. RPCInv /\ [RPCNext]_vars => [Abstract!Next]_Abstract!vars
  <2> SUFFICES ASSUME RPCInv, [RPCNext]_vars
               PROVE  [Abstract!Next]_Abstract!vars
    OBVIOUS
  <2>1. CASE UNCHANGED <<pc, outcome, served>>
    BY <2>1 DEF Abstract!vars, Phases, Returned
  <2> QED
    BY <2>1, CallImplements, ServeImplements, RPCStepKinds
       DEF LinkActs, KeepCalls, callVars, handVars, PublishOnNil, TakeReply, LookUp,
           Store, CloseDone, TakeRequest, Reply, vars
<1> QED
  BY <1>1, AbstractInit, RPCConsistent, PTL DEF RPCSpec, KeepsPromise, Abstract!Spec
=============================================================================
