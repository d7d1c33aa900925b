-------------------------------- MODULE RPC --------------------------------
(***************************************************************************)
(* A client and the servers of the RPC library (pkg/rabbitmq copy/rmq_rpc, *)
(* client/client.go and server/server.go): the links of all of them, from  *)
(* RPCLink, and over them the calls.  The exchanges are fanouts without    *)
(* durable queues: a request reaches every server that listens at that     *)
(* moment, a reply reaches the client if it listens.                       *)
(*                                                                         *)
(* pendingCall's status and body are one answer here: they are written     *)
(* apart only by a second answer to the same call, which then panics.      *)
(***************************************************************************)
EXTENDS RPCLink

CONSTANTS
  Client, Servers,
  Calls,   \* invocations of RemoteCall, each with a uuid of its own
  Unknown, \* those whose handler no server has in its router
  NoMessage,
  Stopped  \* the processes whose program calls Shutdown

Statuses == {"success", "badHandler", "internal"}
Replies == [call : Calls, status : Statuses, by : Servers]

\* The links are the client's and the servers', and carry requests and replies.
ASSUME PeersAreTheirs ==
  /\ Peers = {Client} \cup Servers /\ Client \notin Servers
  /\ Stopped \subseteq Peers
  /\ Messages = Calls \cup Replies
  /\ Unknown \subseteq Calls

\* A request is not a reply: they are marshalled from different types.
ASSUME MessagesAreApart ==
  /\ Calls \cap Replies = {}
  /\ NoMessage \notin Calls \cup Replies

VARIABLES
  pc,     \* where each call stands in RemoteCall
  outcome, \* what it returns
  calls,  \* the table of pending calls
  answer, \* the status and body stored for a call
  done,   \* the calls whose channel done is closed
  hand,   \* what each consumer is handling: a call, a reply or nothing
  lookup, \* where the client's consumer stands in getCall
  served  \* ghost: what each server has made of each call

callVars == <<pc, outcome, calls, answer, done>>
handVars == <<hand, lookup, served>>

vars == <<linkVars, callVars, handVars>>

CallTypes ==
  /\ TypeOK
  /\ pc \in [Calls -> {"idle", "sleep", "publish", "add", "wait", "leave", "done"}]
  /\ outcome \in [Calls -> {"none", "timeout", "closed", "publishError",
                            "unmarshalError"} \cup Statuses]
  /\ calls \subseteq Calls
  /\ answer \in [Calls -> Statuses \cup {"none"}]
  /\ done \subseteq Calls
  /\ hand \in [Peers -> Messages \cup {NoMessage}] /\ hand[Client] \notin Calls
  /\ lookup \in {"none", "found", "stored"}
  /\ served \in [Calls -> [Servers -> Statuses \cup {"none"}]]
  /\ \A p \in Peers : consumer[p] = "handle" <=> hand[p] # NoMessage
  /\ \A c \in calls : pc[c] \in {"wait", "leave"}

RPCInit ==
  /\ Init
  /\ pc = [c \in Calls |-> "idle"]
  /\ outcome = [c \in Calls |-> "none"]
  /\ calls = {}
  /\ answer = [c \in Calls |-> "none"]
  /\ done = {}
  /\ hand = [p \in Peers |-> NoMessage]
  /\ lookup = "none"
  /\ served = [c \in Calls |-> [s \in Servers |-> "none"]]

-----------------------------------------------------------------------------
(* RemoteCall, run by any number of goroutines of the client.              *)

Moves(c, label) == pc' = [pc EXCEPT ![c] = label]

Return(c, o) == outcome' = [outcome EXCEPT ![c] = o]

\* The first look at stop.
Begin(c) ==
  /\ Alive(Client)
  /\ pc[c] = "idle"
  /\ Moves(c, IF stop[Client] THEN "sleep" ELSE "publish")
  /\ UNCHANGED <<linkVars, outcome, calls, answer, done, handVars>>

\* The second one, after the sleep.
Wake(c) ==
  /\ Alive(Client)
  /\ pc[c] = "sleep"
  /\ \/ ~stop[Client] /\ Moves(c, "publish") /\ UNCHANGED outcome
     \/ stop[Client] /\ Moves(c, "done") /\ Return(c, "closed")
  /\ UNCHANGED <<linkVars, calls, answer, done, handVars>>

\* Publish on an open channel: every server that listens gets the request,
\* unless the connection dies with it.
Publish(c) ==
  /\ Alive(Client)
  /\ pc[c] = "publish"
  /\ chan[Client] = "up"
  /\ \/ /\ inbox' = [p \in Peers |->
                       IF p \in Servers /\ Listening(p)
                       THEN inbox[p] \cup {c} ELSE inbox[p]]
        /\ UNCHANGED <<chan, stop, consumer, tries, errs, shutdown, panicked,
                       losses>>
     \/ LoseLink(Client)
  /\ Moves(c, "add")
  /\ UNCHANGED <<outcome, calls, answer, done, handVars>>

\* The request cannot be marshalled, or the channel is closed.
PublishFails(c) ==
  /\ Alive(Client)
  /\ pc[c] = "publish"
  /\ Moves(c, "done")
  /\ Return(c, "publishError")
  /\ UNCHANGED <<linkVars, calls, answer, done, handVars>>

\* A connect that failed half way has left a nil channel behind.
PublishOnNil(c) ==
  /\ Alive(Client)
  /\ pc[c] = "publish"
  /\ chan[Client] = "none"
  /\ Panic(Client, "nil")
  /\ UNCHANGED <<chan, inbox, stop, consumer, tries, errs, shutdown, losses,
                 callVars, handVars>>

\* Only now is the call in the table: an earlier answer finds nothing.
Add(c) ==
  /\ Alive(Client)
  /\ pc[c] = "add"
  /\ calls' = calls \cup {c}
  /\ Moves(c, "wait")
  /\ UNCHANGED <<linkVars, outcome, answer, done, handVars>>

\* Mutant: the call returns on a timeout without deleteCall.
TimeoutStays(c) ==
  /\ Alive(Client)
  /\ pc[c] = "wait"
  /\ Moves(c, "done")
  /\ Return(c, "timeout")
  /\ UNCHANGED <<linkVars, calls, answer, done, handVars>>

\* Mutant: a call that times out while the client redials returns
\* ErrConnectionClosed.
TimeoutAsClosed(c) ==
  /\ Alive(Client)
  /\ pc[c] = "wait"
  /\ Moves(c, "leave")
  /\ Return(c, IF stop[Client] THEN "closed" ELSE "timeout")
  /\ UNCHANGED <<linkVars, calls, answer, done, handVars>>

Timeout(c) ==
  /\ Alive(Client)
  /\ pc[c] = "wait"
  /\ Moves(c, "leave")
  /\ Return(c, "timeout")
  /\ UNCHANGED <<linkVars, calls, answer, done, handVars>>

\* The channel done is closed: the status decides.
Answered(c) ==
  /\ Alive(Client)
  /\ pc[c] = "wait"
  /\ c \in done
  /\ Moves(c, "leave")
  /\ \/ Return(c, answer[c])
     \/ answer[c] = "success" /\ Return(c, "unmarshalError")
  /\ UNCHANGED <<linkVars, calls, answer, done, handVars>>

\* The deferred deleteCall.
Delete(c) ==
  /\ Alive(Client)
  /\ pc[c] = "leave"
  /\ calls' = calls \ {c}
  /\ Moves(c, "done")
  /\ UNCHANGED <<linkVars, outcome, answer, done, handVars>>

RemoteCall(c) ==
  \/ Wake(c) \/ Publish(c) \/ PublishFails(c) \/ PublishOnNil(c) \/ Add(c)
  \/ Timeout(c) \/ Answered(c) \/ Delete(c)

-----------------------------------------------------------------------------
(* The client's consumer.                                                  *)

Drop(p) ==
  /\ Finish(p)
  /\ hand' = [hand EXCEPT ![p] = NoMessage]

\* Acknowledged, which is of no consequence for an exclusive queue's reply.
TakeReply(m) ==
  /\ Take(Client, m)
  /\ hand' = [hand EXCEPT ![Client] = m]
  /\ UNCHANGED <<callVars, lookup, served>>

\* Mutant: only a good answer is looked at.
LookUpSuccess ==
  /\ Alive(Client)
  /\ hand[Client] # NoMessage
  /\ lookup = "none"
  /\ IF hand[Client].call \in calls /\ hand[Client].status = "success"
     THEN lookup' = "found" /\ UNCHANGED <<linkVars, hand>>
     ELSE Drop(Client) /\ UNCHANGED lookup
  /\ UNCHANGED <<callVars, served>>

\* getCall looks the call up, and lets go of the lock.
LookUp ==
  /\ Alive(Client)
  /\ hand[Client] # NoMessage
  /\ lookup = "none"
  /\ IF hand[Client].call \in calls
     THEN lookup' = "found" /\ UNCHANGED <<linkVars, hand>>
     ELSE Drop(Client) /\ UNCHANGED lookup
  /\ UNCHANGED <<callVars, served>>

Store ==
  /\ Alive(Client)
  /\ lookup = "found"
  /\ answer' = [answer EXCEPT ![hand[Client].call] = hand[Client].status]
  /\ lookup' = "stored"
  /\ UNCHANGED <<linkVars, pc, outcome, calls, done, hand, served>>

\* close(call.done): a second answer to a call that is still in the table, or
\* was when it was looked up, closes it twice.
CloseDone ==
  /\ Alive(Client)
  /\ lookup = "stored"
  /\ IF hand[Client].call \in done
     THEN /\ Panic(Client, "done")
          /\ UNCHANGED <<chan, inbox, stop, consumer, tries, errs, shutdown,
                         losses, done, hand, lookup>>
     ELSE /\ done' = done \cup {hand[Client].call}
          /\ lookup' = "none"
          /\ Drop(Client)
  /\ UNCHANGED <<pc, outcome, calls, answer, served>>

GetCall == LookUp \/ Store \/ CloseDone

-----------------------------------------------------------------------------
(* A server's consumer.                                                    *)

\* Acknowledged before it is served: it will not come again.
TakeRequest(s, c) ==
  /\ Take(s, c)
  /\ hand' = [hand EXCEPT ![s] = c]
  /\ UNCHANGED <<callVars, lookup, served>>

\* What serveCall can come to: no handler, or one that fails or ends well.
Results(c) == IF c \in Unknown THEN {"badHandler"} ELSE {"success", "internal"}

ReplyTo(c, status, s) == [call |-> c, status |-> status, by |-> s]

\* Mutant: a request whose handler failed is also put back into the queue.
ServeCallRetries(s) ==
  /\ Alive(s)
  /\ hand[s] \in Calls
  /\ \E status \in Results(hand[s]) :
       /\ served' = [served EXCEPT ![hand[s]][s] = status]
       /\ hand' = [hand EXCEPT ![s] = ReplyTo(hand[s], status, s)]
       /\ inbox' = IF status = "internal"
            THEN [inbox EXCEPT ![s] = @ \cup {hand[s]}] ELSE inbox
  /\ UNCHANGED <<chan, stop, consumer, tries, errs, shutdown, panicked, losses,
                 callVars, lookup>>

\* The handler runs, in the consumer's goroutine and behind every other call.
ServeCall(s) ==
  /\ Alive(s)
  /\ hand[s] \in Calls
  /\ \E status \in Results(hand[s]) :
       /\ served' = [served EXCEPT ![hand[s]][s] = status]
       /\ hand' = [hand EXCEPT ![s] = ReplyTo(hand[s], status, s)]
  /\ UNCHANGED <<linkVars, callVars, lookup>>

\* publish: to the client's exchange, if the channel is up and the client
\* listens.  An error is only logged.
Reply(s) ==
  /\ Alive(s)
  /\ hand[s] \in Replies
  /\ consumer' = [consumer EXCEPT ![s] = "select"]
  /\ hand' = [hand EXCEPT ![s] = NoMessage]
  /\ inbox' = IF chan[s] = "up" /\ Listening(Client)
       THEN [inbox EXCEPT ![Client] = @ \cup {hand[s]}] ELSE inbox
  /\ UNCHANGED <<chan, stop, tries, errs, shutdown, panicked, losses, callVars,
                 lookup, served>>

-----------------------------------------------------------------------------
(* The links of the client and of the servers.                             *)

KeepCalls == UNCHANGED <<callVars, handVars>>

ClientReconnect == Reconnect(Client) /\ KeepCalls

ClientConsumer ==
  \/ \E m \in inbox[Client] : TakeReply(m)
  \/ GetCall
  \/ SeeStop(Client) /\ KeepCalls

ServerReconnect(s) == Reconnect(s) /\ KeepCalls

ServerConsumer(s) ==
  \/ \E c \in inbox[s] : TakeRequest(s, c)
  \/ ServeCall(s)
  \/ Reply(s)
  \/ SeeStop(s) /\ KeepCalls

Environment(p) == (LoseLink(p) \/ Notified(p)) /\ KeepCalls

ClientShutdown == Client \in Stopped /\ Shutdown(Client) /\ KeepCalls

ServerShutdown(s) == s \in Stopped /\ Shutdown(s) /\ KeepCalls

RPCNext ==
  \/ \E c \in Calls : Begin(c) \/ RemoteCall(c)
  \/ ClientConsumer \/ ClientReconnect \/ ClientShutdown
  \/ \E s \in Servers :
       ServerConsumer(s) \/ ServerReconnect(s) \/ ServerShutdown(s)
  \/ \E p \in Peers : Environment(p)

RPCSpec == RPCInit /\ [][RPCNext]_vars

-----------------------------------------------------------------------------
(* Properties.                                                             *)

\* What a caller sees of its call.
Phases == [c \in Calls |-> IF pc[c] = "idle" THEN "idle"
                           ELSE IF pc[c] = "done" THEN "returned" ELSE "called"]
Returned == [c \in Calls |-> IF pc[c] = "done" THEN outcome[c] ELSE "none"]

Abstract == INSTANCE RemoteCalls WITH phase <- Phases, outcome <- Returned

\* The library keeps what RemoteCalls promises, across lost links, dropped and
\* late answers, the check of stop that is stale by the time of the Publish,
\* and shutdowns on both sides.
KeepsPromise == Abstract!Spec

\* A process of the library panics only where Shutdown meets a reconnect, where
\* two servers have answered one call, or where a call that began before a
\* loss publishes while the client dials; a server only in the first case.
PanicCauses ==
  /\ \A p \in Peers :
       panicked[p] = "stop" => shutdown[p] # "no"
  /\ \A s \in Servers : panicked[s] \in {"no", "stop"}
  /\ panicked[Client] = "done" =>
       \E c \in Calls, s, t \in Servers :
         s # t /\ served[c][s] # "none" /\ served[c][t] # "none"
  /\ panicked[Client] = "nil" => stop[Client] /\ consumer[Client] # "select"

\* The consumer lets go of an answer only if it has woken the call, or the call
\* does not wait: it has not got to the table yet, or has given up.
WaitingIsWoken ==
  [][\A c \in Calls :
       /\ hand[Client] # NoMessage /\ hand[Client].call = c
       /\ hand'[Client] = NoMessage
       /\ pc[c] = "wait"
       => c \in done']_vars
=============================================================================
