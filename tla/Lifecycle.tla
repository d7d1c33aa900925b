----------------------------- MODULE Lifecycle -----------------------------
(***************************************************************************)
(* The life of the API server's process: internal/server/server.go, the    *)
(* HTTP server wrapper pkg/httpserver/server.go, and the set-up of the      *)
(* AMQP client, whose error NewAMQPClient drops.  Three goroutines decide  *)
(* together when the process ends: Run, the one that listens, and          *)
(* DecompressionConsumer, which calls os.Exit when it cannot consume.       *)
(*                                                                         *)
(* Time passes in ticks, which the deadlines are multiples of.             *)
(***************************************************************************)
EXTENDS Naturals

CONSTANTS
  Requests,        \* HTTP requests the process may get
  WaitTimeout,     \* of GetDecompressionResponse (100 s)
  WriteTimeout,    \* of the HTTP server (70 s)
  ShutdownTimeout  \* of its Shutdown (3 s)

ASSUME TimeoutsAreNat ==
  WaitTimeout \in Nat /\ WriteTimeout \in Nat /\ ShutdownTimeout \in Nat

VARIABLES
  run,      \* where Run stands
  channel,  \* the AMQP channel; closed with the error of a failed set-up
  consumer, \* where DecompressionConsumer stands
  listener, \* where the goroutine of start stands
  notify,   \* the channel notify, of capacity 1, has an error in it
  signalled, \* the channel interrupt, of capacity 1, has a signal in it
  handler,  \* where the handler of each request stands
  code,     \* the status it sends
  reply,    \* what the HTTP client has got
  age,      \* ticks since the request was read
  grace,    \* ticks since Shutdown was called
  fatal     \* the process was ended by os.Exit

processVars == <<run, channel, consumer, listener, notify, signalled, fatal>>
requestVars == <<handler, code, reply>>
clockVars   == <<age, grace>>
vars == <<processVars, requestVars, clockVars>>

Running == run # "exited"

\* An age is of no interest beyond the last deadline.
MaxAge == 1 + IF WaitTimeout > WriteTimeout THEN WaitTimeout ELSE WriteTimeout

TypeOK ==
  /\ run \in {"setup", "start", "wait", "stop", "shutdown", "exited"}
  /\ channel \in {"open", "closed"}
  /\ consumer \in {"none", "start", "range", "ended"}
  /\ listener \in {"none", "listen", "send", "ended"}
  /\ notify \in BOOLEAN /\ signalled \in BOOLEAN /\ fatal \in BOOLEAN
  /\ handler \in [Requests -> {"none", "accepted", "wait", "send", "ended"}]
  /\ code \in [Requests -> {"none", "200", "500"}]
  /\ reply \in [Requests -> {"none", "200", "500", "cut"}]
  /\ age \in [Requests -> 0 .. MaxAge]
  /\ grace \in 0 .. ShutdownTimeout + 1
  /\ consumer = "none" <=> run = "setup"
  /\ Running => (listener = "none" <=> run \in {"setup", "start"})
  /\ \A r \in Requests : code[r] = "none" => reply[r] \in {"none", "cut"}

Init ==
  /\ run = "setup"
  /\ channel = "open"
  /\ consumer = "none"
  /\ listener = "none"
  /\ notify = FALSE /\ signalled = FALSE /\ fatal = FALSE
  /\ handler = [r \in Requests |-> "none"]
  /\ code = [r \in Requests |-> "none"]
  /\ reply = [r \in Requests |-> "none"]
  /\ age = [r \in Requests |-> 0]
  /\ grace = 0

Open == {r \in Requests : handler[r] \in {"wait", "send"}}

\* The process ends, and with it every connection.
Exit ==
  /\ run' = "exited"
  /\ reply' = [r \in Requests |-> IF r \in Open THEN "cut" ELSE reply[r]]
  /\ handler' = [r \in Requests |-> IF r \in Open THEN "ended" ELSE handler[r]]
  /\ UNCHANGED <<channel, consumer, listener, notify, signalled, code, clockVars>>

-----------------------------------------------------------------------------
(* Run.                                                                    *)

\* NewAMQPClient declares the exchange and the queue.  A declaration that the
\* broker refuses closes the channel, and Run goes on all the same.
SetUp ==
  /\ run = "setup"
  /\ run' = "start"
  /\ channel' \in {"open", "closed"}
  /\ consumer' = "start"
  /\ UNCHANGED <<listener, notify, signalled, fatal, requestVars, clockVars>>

\* httpserver.New starts to listen; Run waits.
Start ==
  /\ run = "start"
  /\ run' = "wait"
  /\ listener' = "listen"
  /\ UNCHANGED <<channel, consumer, notify, signalled, fatal, requestVars, clockVars>>

\* A signal while Run handles them; before that it just ends the process.
Signal ==
  /\ run \in {"wait", "stop", "shutdown"}
  /\ ~signalled
  /\ signalled' = TRUE
  /\ UNCHANGED <<run, channel, consumer, listener, notify, fatal, requestVars, clockVars>>

Stop ==
  /\ run = "wait"
  /\ \/ signalled /\ signalled' = FALSE /\ UNCHANGED notify
     \/ notify /\ notify' = FALSE /\ UNCHANGED signalled
  /\ run' = "stop"
  /\ UNCHANGED <<channel, consumer, listener, fatal, requestVars, clockVars>>

\* http.Server.Shutdown closes the listener and waits for the handlers.
BeginShutdown ==
  /\ run = "stop"
  /\ run' = "shutdown"
  /\ listener' = IF listener = "listen" THEN "send" ELSE listener
  /\ UNCHANGED <<channel, consumer, notify, signalled, fatal, requestVars, clockVars>>

\* Mutant: the HTTP server is closed and not shut down.
ReturnAtOnce ==
  /\ run = "shutdown"
  /\ Exit
  /\ UNCHANGED fatal

\* It returns when they are done, or at its deadline; main returns.  Connections
\* with no request under way do not count: it closes them when they are idle.
Return ==
  /\ run = "shutdown"
  /\ Open = {} \/ grace > ShutdownTimeout
  /\ Exit
  /\ UNCHANGED fatal

-----------------------------------------------------------------------------
(* The other goroutines.                                                   *)

\* ListenAndServe fails, at once or later; after BeginShutdown it has returned.
ListenFails ==
  /\ Running
  /\ listener = "listen"
  /\ listener' = "send"
  /\ UNCHANGED <<run, channel, consumer, notify, signalled, fatal, requestVars, clockVars>>

SendError ==
  /\ Running
  /\ listener = "send"
  /\ ~notify
  /\ notify' = TRUE
  /\ listener' = "ended"
  /\ UNCHANGED <<run, channel, consumer, signalled, fatal, requestVars, clockVars>>

\* Mutant: DecompressionConsumer returns its error, which nobody looks at.
ConsumeReturnsError ==
  /\ Running
  /\ consumer = "start"
  /\ consumer' = IF channel = "open" THEN "range" ELSE "ended"
  /\ UNCHANGED <<run, channel, listener, notify, signalled, fatal, requestVars, clockVars>>

Consume ==
  /\ Running
  /\ consumer = "start"
  /\ channel = "open"
  /\ consumer' = "range"
  /\ UNCHANGED <<run, channel, listener, notify, signalled, fatal, requestVars, clockVars>>

\* Consume on a channel that the set-up has closed: Fatal.
ConsumeFails ==
  /\ Running
  /\ consumer = "start"
  /\ channel = "closed"
  /\ fatal' = TRUE
  /\ Exit

\* The connection is lost.  A consumer that had begun ends, and that is all.
ChannelCloses ==
  /\ Running
  /\ channel = "open" /\ consumer # "none"
  /\ channel' = "closed"
  /\ consumer' = IF consumer = "range" THEN "ended" ELSE consumer
  /\ UNCHANGED <<run, listener, notify, signalled, fatal, requestVars, clockVars>>

-----------------------------------------------------------------------------
(* Requests and time.                                                      *)

\* The listener accepts the connection of a request still to come.
Accept(r) ==
  /\ Running
  /\ listener = "listen"
  /\ handler[r] = "none"
  /\ handler' = [handler EXCEPT ![r] = "accepted"]
  /\ UNCHANGED <<processVars, code, reply, clockVars>>

\* The connection's goroutine reads the request and calls the handler, also when
\* the listener has failed since and while Shutdown waits.
Read(r) ==
  /\ Running
  /\ handler[r] = "accepted"
  /\ handler' = [handler EXCEPT ![r] = "wait"]
  /\ UNCHANGED <<processVars, code, reply, clockVars>>

\* The handler has an answer or an error before its deadline, or, at it, the
\* error of GetDecompressionResponse.
Answer(r) ==
  /\ Running
  /\ handler[r] = "wait"
  /\ handler' = [handler EXCEPT ![r] = "send"]
  /\ \/ age[r] <= WaitTimeout /\ \E s \in {"200", "500"} : code' = [code EXCEPT ![r] = s]
     \/ age[r] >= WaitTimeout /\ code' = [code EXCEPT ![r] = "500"]
  /\ UNCHANGED <<processVars, reply, clockVars>>

\* The response is written, unless the connection's write deadline has passed:
\* then the connection is closed and the handler none the wiser.
Send(r) ==
  /\ Running
  /\ handler[r] = "send"
  /\ handler' = [handler EXCEPT ![r] = "ended"]
  /\ reply' = [reply EXCEPT ![r] = IF age[r] <= WriteTimeout THEN code[r] ELSE "cut"]
  /\ UNCHANGED <<processVars, code, clockVars>>

\* A handler that waits does not miss its deadline by more than a tick.
Tick ==
  /\ Running
  /\ \A r \in Requests : handler[r] = "wait" => age[r] <= WaitTimeout
  /\ age' = [r \in Requests |-> IF r \in Open /\ age[r] < MaxAge
                                THEN age[r] + 1 ELSE age[r]]
  /\ grace' = IF run = "shutdown" /\ grace <= ShutdownTimeout THEN grace + 1 ELSE grace
  /\ age' # age \/ grace' # grace
  /\ UNCHANGED <<processVars, requestVars>>

Run == SetUp \/ Start \/ Stop \/ BeginShutdown \/ Return

Goroutines == SendError \/ Consume \/ ConsumeFails

Handle(r) == Answer(r) \/ Send(r)

Next ==
  \/ Run \/ Goroutines \/ Signal \/ ListenFails \/ ChannelCloses \/ Tick
  \/ \E r \in Requests : Accept(r) \/ Read(r) \/ Handle(r)

Spec == Init /\ [][Next]_vars

\* The goroutines run and time passes; handlers need not make progress before
\* their deadline, and nobody need send a signal.
FairSpec ==
  /\ Spec
  /\ WF_vars(Run) /\ WF_vars(Goroutines) /\ WF_vars(Tick)
  /\ \A r \in Requests : WF_vars(Handle(r) /\ age[r] >= WaitTimeout)

-----------------------------------------------------------------------------
(* Properties.                                                             *)

\* The process ends after a signal, after the HTTP server has failed, and when
\* there is no channel to start consuming on though the error of the set-up is
\* dropped: handlers that wait, requests that still come in, all three in any
\* order, nothing holds it up.  A channel lost once the responses are consumed is
\* not among these failures: the process goes on without it.
FailureEndsProcess ==
  \/ signalled
  \/ listener \in {"send", "ended"}
  \/ channel = "closed" /\ consumer = "start"
  ~> run = "exited"

\* A connection is cut off without an answer for one of three reasons only: the
\* write deadline, the end of the grace period, or the fatal error of the
\* consumer.  Shutdown alone cuts off nobody who is answered in time.
CutHasCause ==
  \A r \in Requests :
    reply[r] = "cut" => age[r] > WriteTimeout \/ grace > ShutdownTimeout \/ fatal
=============================================================================
