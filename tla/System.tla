------------------------------- MODULE System -------------------------------
(***************************************************************************)
(* The API server and a worker, joined by the exchange audio_compression:  *)
(* AMQPClient and AMQPWorker over one broker.  A request the server        *)
(* publishes is a message of the worker's queues, a response the broker    *)
(* accepts from the worker is a message of the server's queue, and result  *)
(* files are shared through the temporary directory.                       *)
(*                                                                         *)
(* AMQPClient says in two actions what a worker may do to its requests.    *)
(* ServerSpec states that the worker's tags, buffers, flags, requeues and  *)
(* lost channels come down to just that.                                   *)
(***************************************************************************)
EXTENDS AMQPWorker, FiniteSets

CONSTANTS
  Requests, Objects, CorrIds, Addresses, MaxRestarts,  \* of AMQPClient
  Empty, NoObject, NoWant, NoEntry, NoId, NoAddr, Malformed

Wants == [object : Objects, kind : {"compress", "decompress"}]
RequestsOf(k) == [corrId : CorrIds, want : [object : Objects, kind : {k}]]

\* The worker's messages are the server's; those it can read.
ASSUME QueuesAreTheServers ==
  /\ CompressMsgs = RequestsOf("compress")
  /\ DecompressMsgs = RequestsOf("decompress")
  /\ BadMsgs = {}

ASSUME ServerNullsAreOutside ==
  /\ {Empty, NoObject} \cap Objects = {} /\ Empty # NoObject
  /\ NoId \notin CorrIds
  /\ NoAddr \notin Addresses
  /\ NoWant \notin Wants
  /\ NoEntry \notin [want : Wants \cup {NoWant}, address : Addresses \cup {NoAddr}]
  /\ Malformed \notin [corrId : CorrIds, address : Addresses]

ASSUME KeysAreNotIds == \A o \in Objects : o.key \notin CorrIds

ASSUME MaxRestartsIsNat == MaxRestarts \in Nat

VARIABLES
  reqMap, pc, want, corr, poller, pollVal, got, content, bound, files,
  restarts, issued, sent,
  serverOpen, \* the server's channel is open (chanOpen is the worker's)
  answers,    \* messages of the queue decompress_response
  result,     \* the file ConsumeDecompression has written and not yet published
  published   \* ghost: the files whose address the broker has accepted

serverVars == <<reqMap, pc, want, corr, poller, pollVal, got, content,
                serverOpen, restarts, issued, sent>>
workerVars == vars
systemVars == <<serverVars, workerVars, bound, answers, files, result, published>>

\* The request messages the broker holds, as the server's module counts them.
Requested == ready \cup Held

Server == INSTANCE AMQPClient WITH
  requests <- Requested, chanOpen <- serverOpen, responses <- answers

\* The files as the server can know them: those with a published address.
PublishedFiles ==
  [a \in Addresses |-> IF a \in published THEN files[a] ELSE NoObject]

Client == INSTANCE AMQPClient WITH
  requests <- Requested, chanOpen <- serverOpen, responses <- answers,
  files <- PublishedFiles

\* The server's queue is declared and bound, no worker has run yet.
SystemInit ==
  /\ Init
  /\ Server!Init
  /\ result = NoAddr
  /\ published = {}

-----------------------------------------------------------------------------
(* The server; the worker and its files stay as they are.                  *)

ServerSteps ==
  /\ UNCHANGED <<workerVars, result, published>>
  /\ \/ \E r \in Requests : Server!Arrive(r) \/ Server!PollHit(r)
     \/ Server!ChannelCloses
     \/ Server!Restart

ServerConsumes ==
  /\ UNCHANGED <<workerVars, result, published>>
  /\ \/ \E m \in answers \ {Malformed} : Server!ConsumeResponse(m)
     \/ Server!ConsumeMalformed

\* Publish either reaches the queue it is routed to or comes to nothing.
ServerPublishes(r) ==
  /\ \/ bound /\ Enqueue(Server!Message(r))
     \/ UNCHANGED workerVars
  /\ Server!Publish(r)
  /\ UNCHANGED <<result, published>>

ServerHandles(r) ==
  \/ ServerPublishes(r)
  \/ /\ UNCHANGED <<workerVars, result, published>>
     /\ \/ Server!GetOrCreateRequest(r) \/ Server!PublishFails(r)
        \/ Server!Receive(r) \/ Server!WaitTimeout(r)
        \/ Server!ReadResult(r) \/ Server!ReadResultFails(r)

-----------------------------------------------------------------------------
(* The worker; the server and its queue stay as they are but for responses. *)

\* StartConsumer declares and binds the request queues: a worker runs.
WorkerStarts ==
  /\ UNCHANGED <<workerVars, result, published>>
  /\ Server!WorkerStarts

Delivers ==
  /\ bound
  /\ \E m \in ready : Deliver(m)
  /\ UNCHANGED <<serverVars, bound, answers, files, result, published>>

CompressionConsumer ==
  /\ bound
  /\ Compression
  /\ UNCHANGED <<serverVars, bound, answers, files, result, published>>

\* The steps of ConsumeDecompression that leave the result file alone.
TakesOrGivesUp ==
  /\ bound
  /\ \/ Take("decompression") \/ DecompressionFails
     \/ Settle("decompression") \/ LoopEnds("decompression")
  /\ UNCHANGED <<serverVars, bound, answers, files, result, published>>

\* GetDecompression has returned bytes (none, if the worker's cache has lost
\* its file) and WriteByteToFileSystem has put them into a new file.
WritesResult ==
  /\ bound
  /\ DecompressionEnds
  /\ \E a \in Addresses, o \in {current["decompression"].msg.want.object, Empty} :
       /\ files[a] = NoObject
       /\ files' = [files EXCEPT ![a] = o]
       /\ result' = a
  /\ UNCHANGED <<serverVars, bound, answers, published>>

Response(m) == [corrId |-> m.corrId, address |-> result]

\* Mutant: the response has a routing key that no queue is bound with.
PublishesUnrouted ==
  /\ ResponseAccepted
  /\ published' = published \cup {result}
  /\ result' = NoAddr
  /\ UNCHANGED <<serverVars, bound, answers, files>>

\* The response is published with the request's correlation id.
PublishesResult ==
  /\ ResponseAccepted
  /\ answers' = answers \cup {Response(current["decompression"].msg)}
  /\ published' = published \cup {result}
  /\ result' = NoAddr
  /\ UNCHANGED <<serverVars, bound, files>>

LosesResult ==
  /\ ResponseLost
  /\ result' = NoAddr
  /\ UNCHANGED <<serverVars, bound, answers, files, published>>

WorkerChannelCloses ==
  /\ bound
  /\ ChannelCloses
  /\ UNCHANGED <<serverVars, bound, answers, files, result, published>>

WorkerRestarts ==
  /\ bound
  /\ Restart
  /\ result' = NoAddr
  /\ UNCHANGED <<serverVars, bound, answers, files, published>>

DecompressionConsumer ==
  TakesOrGivesUp \/ WritesResult \/ PublishesResult \/ LosesResult

SystemNext ==
  \/ ServerSteps \/ ServerConsumes \/ \E r \in Requests : ServerHandles(r)
  \/ WorkerStarts \/ Delivers \/ CompressionConsumer \/ DecompressionConsumer
  \/ WorkerChannelCloses \/ WorkerRestarts

SystemSpec == SystemInit /\ [][SystemNext]_systemVars

\* The broker delivers while it can, and the three consumer goroutines and the
\* handlers run.
SystemFairSpec ==
  /\ SystemSpec
  /\ WF_systemVars(Delivers) /\ WF_systemVars(CompressionConsumer)
  /\ WF_systemVars(DecompressionConsumer) /\ WF_systemVars(ServerConsumes)
  /\ \A r \in Requests : WF_systemVars(ServerHandles(r))

-----------------------------------------------------------------------------
(* Properties.                                                             *)

\* What a worker does to the queues and the result files, with its buffers,
\* tags, requeues, retries and lost channels, is no more than what AMQPClient
\* lets its environment do: every message leaves alone, each response belongs
\* to a request the broker still holds, and names a file made for it.  So the
\* server's properties hold with this worker behind it.
ServerSpec == Client!Spec

\* The entry of m waits for an answer.
Unanswered(m) == /\ reqMap[m.corrId] # NoEntry
                 /\ reqMap[m.corrId].address = NoAddr

\* End to end: once a decompression request is in its queue, only a worker that
\* failed at it can leave the server's entry without an answer.  No lost
\* channel, redelivery or restart of the worker in between does.
LostHasCause ==
  \A m \in DecompressMsgs :
    m \in queued \ Requested /\ Unanswered(m)
      => outcome[m] = "failed" \/ \E a \in answers \ {Malformed} :
                                     a.corrId = m.corrId

\* An entry whose request has reached the queue gets its answer in the end, behind
\* compressions that are retried and other entries' requests, unless the worker
\* fails at it, the server's channel is lost, or the request is back in its queue
\* and there is no channel (within the bound: no tag) to deliver it on.
EntryAnswered ==
  \A m \in DecompressMsgs :
    m \in Requested /\ Unanswered(m)
      ~> \/ ~Unanswered(m)
         \/ outcome[m] = "failed"
         \/ ~serverOpen
         \/ m \in ready /\ (~chanOpen \/ nextTag > MaxTag)

\* Every HTTP request the server reads gets an answer, whatever happens to the
\* channels, the worker and the messages.
EveryRequestAnswered == Server!EveryRequestAnswered
=============================================================================
