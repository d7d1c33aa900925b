------------------------------ MODULE RPCLink ------------------------------
(***************************************************************************)
(* The life of one end of the RPC library (pkg/rabbitmq copy/rmq_rpc): its *)
(* connection (connection.go) and the consumer goroutine, reconnect, Notify *)
(* and Shutdown that client/client.go and server/server.go have in common.  *)
(* A peer is a process that holds one Client or one Server.                *)
(*                                                                         *)
(* reconnect and Shutdown both close the channel stop, and nothing tells   *)
(* them of each other: to close it twice is a panic, which ends the peer.  *)
(***************************************************************************)
EXTENDS Naturals

CONSTANTS
  Peers,
  Messages, \* what the broker may put into a peer's queue
  Attempts, \* the option ConnAttempts
  MaxLosses \* bound on the connections lost to the network

\* With no attempt at all AttemptConnect would return nil unconnected.
ASSUME AttemptsArePositive == Attempts \in Nat \ {0}

ASSUME MaxLossesIsNat == MaxLosses \in Nat

VARIABLES
  chan,     \* conn.Channel: up, closed, or none (a nil pointer)
  inbox,    \* the peer's exclusive queue, with what the library has buffered
  stop,     \* the channel stop is closed
  consumer, \* where the goroutine that runs consumer and reconnect stands
  tries,    \* attempts AttemptConnect has left
  errs,     \* the channel error is closed
  shutdown, \* where the caller of Shutdown stands
  panicked, \* what the process died of
  losses

linkVars == <<chan, inbox, stop, consumer, tries, errs, shutdown, panicked, losses>>

TypeOK ==
  /\ chan \in [Peers -> {"up", "closed", "none"}]
  /\ inbox \in [Peers -> SUBSET Messages]
  /\ stop \in [Peers -> BOOLEAN]
  /\ consumer \in [Peers -> {"select", "handle", "dial", "declare", "report",
                             "closeErr", "ended"}]
  /\ tries \in [Peers -> 1 .. Attempts]
  /\ errs \in [Peers -> BOOLEAN]
  /\ shutdown \in [Peers -> {"no", "sleep", "returned"}]
  /\ panicked \in [Peers -> {"no", "stop", "done", "nil"}]
  /\ losses \in 0 .. MaxLosses

\* New has connected and started the consumer.
Init ==
  /\ chan = [p \in Peers |-> "up"]
  /\ inbox = [p \in Peers |-> {}]
  /\ stop = [p \in Peers |-> FALSE]
  /\ consumer = [p \in Peers |-> "select"]
  /\ tries = [p \in Peers |-> Attempts]
  /\ errs = [p \in Peers |-> FALSE]
  /\ shutdown = [p \in Peers |-> "no"]
  /\ panicked = [p \in Peers |-> "no"]
  /\ losses = 0

Alive(p) == panicked[p] = "no"

\* The peer's queue exists and is bound to its exchange.
Listening(p) == Alive(p) /\ chan[p] = "up" /\ consumer[p] # "declare"

Goto(p, label) == consumer' = [consumer EXCEPT ![p] = label]

Panic(p, cause) == panicked' = [panicked EXCEPT ![p] = cause]

-----------------------------------------------------------------------------
(* The broker.                                                             *)

Deliver(p, m) ==
  /\ Listening(p)
  /\ inbox' = [inbox EXCEPT ![p] = @ \cup {m}]
  /\ UNCHANGED <<chan, stop, consumer, tries, errs, shutdown, panicked, losses>>

LoseLink(p) ==
  /\ chan[p] = "up"
  /\ losses < MaxLosses
  /\ losses' = losses + 1
  /\ chan' = [chan EXCEPT ![p] = "closed"]
  /\ UNCHANGED <<inbox, stop, consumer, tries, errs, shutdown, panicked>>

-----------------------------------------------------------------------------
(* The consumer goroutine.  Its select takes any case that is ready.       *)

\* Also with stop closed, and also from what was buffered before a loss.
Take(p, m) ==
  /\ Alive(p)
  /\ consumer[p] = "select"
  /\ m \in inbox[p]
  /\ inbox' = [inbox EXCEPT ![p] = @ \ {m}]
  /\ Goto(p, "handle")
  /\ UNCHANGED <<chan, stop, tries, errs, shutdown, panicked, losses>>

\* getCall or serveCall returns.
Finish(p) ==
  /\ Alive(p)
  /\ consumer[p] = "handle"
  /\ Goto(p, "select")
  /\ UNCHANGED <<chan, inbox, stop, tries, errs, shutdown, panicked, losses>>

SeeStop(p) ==
  /\ Alive(p)
  /\ consumer[p] = "select"
  /\ stop[p]
  /\ Goto(p, "ended")
  /\ UNCHANGED <<chan, inbox, stop, tries, errs, shutdown, panicked, losses>>

\* Mutant: reconnect closes stop only if it is open, and goes on.
SeeClosedQuietly(p) ==
  /\ Alive(p)
  /\ consumer[p] = "select"
  /\ chan[p] = "closed"
  /\ inbox' = [inbox EXCEPT ![p] = {}]
  /\ stop' = [stop EXCEPT ![p] = TRUE]
  /\ Goto(p, "dial")
  /\ tries' = [tries EXCEPT ![p] = Attempts]
  /\ UNCHANGED <<chan, errs, shutdown, panicked, losses>>

\* Mutant: reconnect leaves stop open while it dials.
SeeClosedStopOpen(p) ==
  /\ Alive(p)
  /\ consumer[p] = "select"
  /\ chan[p] = "closed"
  /\ inbox' = [inbox EXCEPT ![p] = {}]
  /\ Goto(p, "dial")
  /\ tries' = [tries EXCEPT ![p] = Attempts]
  /\ UNCHANGED <<chan, stop, errs, shutdown, panicked, losses>>

\* Mutant: closed deliveries are taken for an empty message, again and again.
SeeClosedSpins(p) ==
  /\ Alive(p)
  /\ consumer[p] = "select"
  /\ chan[p] = "closed"
  /\ inbox' = [inbox EXCEPT ![p] = {}]
  /\ UNCHANGED <<chan, stop, consumer, tries, errs, shutdown, panicked, losses>>

\* The deliveries are closed: reconnect closes stop and starts to dial.  What
\* was in the exclusive queue is gone with it.
SeeClosed(p) ==
  /\ Alive(p)
  /\ consumer[p] = "select"
  /\ chan[p] = "closed"
  /\ inbox' = [inbox EXCEPT ![p] = {}]
  /\ IF stop[p]
     THEN Panic(p, "stop") /\ UNCHANGED <<stop, consumer, tries>>
     ELSE /\ stop' = [stop EXCEPT ![p] = TRUE]
          /\ Goto(p, "dial")
          /\ tries' = [tries EXCEPT ![p] = Attempts]
          /\ UNCHANGED panicked
  /\ UNCHANGED <<chan, errs, shutdown, losses>>

\* connect: Dial and Channel succeed; the new channel is visible at once.
OpenChannel(p) ==
  /\ Alive(p)
  /\ consumer[p] = "dial"
  /\ chan' = [chan EXCEPT ![p] = "up"]
  /\ Goto(p, "declare")
  /\ UNCHANGED <<inbox, stop, tries, errs, shutdown, panicked, losses>>

\* Dial fails and leaves conn.Channel alone, Channel fails and makes it nil, or
\* one of the declarations fails, with the channel.
FailedChan(p) ==
  IF consumer[p] = "dial" THEN {chan[p], "none"} ELSE {"closed"}

ConnectFails(p) ==
  /\ Alive(p)
  /\ consumer[p] \in {"dial", "declare"}
  /\ \E st \in FailedChan(p) : chan' = [chan EXCEPT ![p] = st]
  /\ IF tries[p] = 1
     THEN Goto(p, "report") /\ UNCHANGED tries
     ELSE Goto(p, "dial") /\ tries' = [tries EXCEPT ![p] = @ - 1]
  /\ UNCHANGED <<inbox, stop, errs, shutdown, panicked, losses>>

\* Mutant: reconnect starts a consumer with the stop it has closed itself.
DeclareKeepsStop(p) ==
  /\ Alive(p)
  /\ consumer[p] = "declare"
  /\ chan[p] = "up"
  /\ Goto(p, "select")
  /\ UNCHANGED <<chan, inbox, stop, tries, errs, shutdown, panicked, losses>>

\* connect has its queue; reconnect makes a new stop and a new consumer.
Declare(p) ==
  /\ Alive(p)
  /\ consumer[p] = "declare"
  /\ chan[p] = "up"
  /\ stop' = [stop EXCEPT ![p] = FALSE]
  /\ Goto(p, "select")
  /\ UNCHANGED <<chan, inbox, tries, errs, shutdown, panicked, losses>>

\* A user of Notify receives the error reconnect has been sending.
Notified(p) ==
  /\ Alive(p)
  /\ consumer[p] = "report"
  /\ Goto(p, "closeErr")
  /\ UNCHANGED <<chan, inbox, stop, tries, errs, shutdown, panicked, losses>>

CloseErrors(p) ==
  /\ Alive(p)
  /\ consumer[p] = "closeErr"
  /\ errs' = [errs EXCEPT ![p] = TRUE]
  /\ Goto(p, "ended")
  /\ UNCHANGED <<chan, inbox, stop, tries, shutdown, panicked, losses>>

-----------------------------------------------------------------------------
(* Shutdown, which a user calls once.                                      *)

Leave(p, label) == shutdown' = [shutdown EXCEPT ![p] = label]

\* Mutant: Shutdown sees that reconnect has failed, and takes no error from it.
ShutdownLooksOnly(p) ==
  /\ Alive(p)
  /\ shutdown[p] = "no"
  /\ \/ /\ consumer[p] = "report" \/ errs[p]
        /\ Leave(p, "returned")
        /\ UNCHANGED <<stop, panicked>>
     \/ /\ consumer[p] # "report" /\ ~errs[p]
        /\ Leave(p, "sleep")
        /\ stop' = [stop EXCEPT ![p] = TRUE]
        /\ IF stop[p] THEN Panic(p, "stop") ELSE UNCHANGED panicked
  /\ UNCHANGED <<chan, inbox, consumer, tries, errs, losses>>

\* The select on error: reconnect is sending, has closed the channel, or
\* neither.  Then stop is closed, or was closed before by a reconnect that is
\* under way or has just been heard by a user of Notify.
ShutdownBegins(p) ==
  /\ Alive(p)
  /\ shutdown[p] = "no"
  /\ \/ /\ consumer[p] = "report"
        /\ Goto(p, "closeErr")
        /\ Leave(p, "returned")
        /\ UNCHANGED <<stop, panicked>>
     \/ errs[p] /\ Leave(p, "returned") /\ UNCHANGED <<stop, consumer, panicked>>
     \/ /\ consumer[p] # "report" /\ ~errs[p]
        /\ Leave(p, "sleep")
        /\ stop' = [stop EXCEPT ![p] = TRUE]
        /\ IF stop[p] THEN Panic(p, "stop") ELSE UNCHANGED panicked
        /\ UNCHANGED consumer
  /\ UNCHANGED <<chan, inbox, tries, errs, losses>>

\* After the sleep, whatever the consumer is doing: Connection.Close.
ShutdownCloses(p) ==
  /\ Alive(p)
  /\ shutdown[p] = "sleep"
  /\ chan' = [chan EXCEPT ![p] = IF @ = "up" THEN "closed" ELSE @]
  /\ Leave(p, "returned")
  /\ UNCHANGED <<inbox, stop, consumer, tries, errs, panicked, losses>>

-----------------------------------------------------------------------------
Reconnect(p) ==
  SeeClosed(p) \/ OpenChannel(p) \/ ConnectFails(p) \/ Declare(p) \/ CloseErrors(p)

Consumer(p) ==
  (\E m \in inbox[p] : Take(p, m)) \/ Finish(p) \/ SeeStop(p) \/ Reconnect(p)

Shutdown(p) == ShutdownBegins(p) \/ ShutdownCloses(p)

Next == \E p \in Peers :
  \/ \E m \in Messages : Deliver(p, m)
  \/ LoseLink(p) \/ Consumer(p) \/ Notified(p) \/ Shutdown(p)

Spec == Init /\ [][Next]_linkVars

\* The goroutine runs, and a Shutdown that was called goes on.
FairSpec ==
  /\ Spec
  /\ \A p \in Peers : WF_linkVars(Consumer(p)) /\ WF_linkVars(ShutdownCloses(p))

-----------------------------------------------------------------------------
(* Properties.                                                             *)

\* Losses, reconnects and their failures alone never bring the process down:
\* stop is closed twice only where Shutdown takes part, and even then not at a
\* peer that has given up for good, its error taken and the channel closed.
PanicNeedsShutdown ==
  \A p \in Peers :
    panicked[p] = "stop" => shutdown[p] # "no" /\ ~errs[p]

\* RemoteCall takes an open stop for a consumer at work, and a user of Notify
\* silence for a library that goes on: while stop is open there is a consumer,
\* and it ends for good only after Shutdown or with the channel error closed.
ConsumerAccounted ==
  \A p \in Peers :
    /\ ~stop[p] => consumer[p] \in {"select", "handle"}
    /\ consumer[p] = "ended" => shutdown[p] # "no" \/ errs[p]

\* No reconnect that races with Shutdown brings the peer back: where both meet
\* the process panics instead.
DownStaysDown ==
  \A p \in Peers : shutdown[p] = "returned" => chan[p] # "up"

\* A lost link is dialled again or given up with an error, in bounded time.
LossIsHandled ==
  \A p \in Peers :
    chan[p] = "closed"
      ~> chan[p] = "up" \/ consumer[p] \in {"report", "ended"} \/ ~Alive(p)

\* Shutdown ends the consumer, which may go on with deliveries for a while.
ShutdownEndsConsumer ==
  \A p \in Peers :
    shutdown[p] # "no" ~> consumer[p] = "ended" \/ ~Alive(p)
=============================================================================
