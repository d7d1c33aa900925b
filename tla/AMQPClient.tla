----------------------------- MODULE AMQPClient -----------------------------
(***************************************************************************)
(* The API server process: the HTTP handlers of                            *)
(* internal/controller/http/v1/compression.go, the AMQP client that        *)
(* publishes their requests (internal/controller/rmq/amqp_client.go), the  *)
(* table of requests in flight (decompression_client.go) and the consumer  *)
(* of the responses.  The broker and the workers appear only by what they  *)
(* do to the two queues the server touches and to the result files.        *)
(*                                                                         *)
(* An Object is a bucket and a key.  Delivery order is left open: several  *)
(* workers take from one queue and publish to the other.                   *)
(***************************************************************************)
EXTENDS Naturals, FiniteSets

CONSTANTS
  Requests,    \* HTTP requests the server may receive, each used once
  Objects,     \* buckets and keys users ask for
  CorrIds,     \* correlation ids randSeq may return
  Addresses,   \* names os.CreateTemp may give a result file
  MaxRestarts, \* bound on the number of restarts of the server
  Empty, NoObject, NoWant, NoEntry, NoId, NoAddr, Malformed

ASSUME NullsAreOutside ==
  /\ {Empty, NoObject} \cap Objects = {} /\ Empty # NoObject
  /\ NoId \notin CorrIds
  /\ NoAddr \notin Addresses
  /\ NoWant \notin [object : Objects, kind : {"compress", "decompress"}]
  /\ NoEntry \notin [want : [object : Objects, kind : {"compress", "decompress"}]
                              \cup {NoWant},
                     address : Addresses \cup {NoAddr}]
  /\ Malformed \notin [corrId : CorrIds, address : Addresses]

\* A key is gin's *key and begins with a slash; randSeq makes an id of letters.
ASSUME KeysAreNotIds == \A o \in Objects : o.key \notin CorrIds

ASSUME MaxRestartsIsNat == MaxRestarts \in Nat

VARIABLES
  reqMap,     \* DecompressionClient.reqMap, by correlation id
  pc, want,   \* where each HTTP request stands, and what it asks for
  corr,       \* the correlation id GetOrCreateRequest gave it
  poller,     \* state of the goroutine GetDecompressionResponse starts
  pollVal,    \* the address that goroutine is sending on resultChan
  got,        \* the address its handler received
  content,    \* the object whose bytes the handler answered with
  chanOpen,   \* the server's AMQP channel is open
  bound,      \* the request queues exist and are bound to the exchange
  requests,   \* request messages the broker holds, unacknowledged ones too
  responses,  \* messages of the queue decompress_response
  files,      \* what each result file contains
  restarts,   \* how often the server was restarted
  issued,     \* ghost: what each correlation id was generated for
  sent        \* ghost: the request messages the channel has accepted

serverVars == <<reqMap, pc, want, corr, poller, pollVal, got, content>>
brokerVars == <<bound, requests, responses, files>>
ghostVars  == <<issued, sent>>
vars == <<serverVars, chanOpen, brokerVars, restarts, ghostVars>>

Kinds   == {"compress", "decompress"}
Wants   == [object : Objects, kind : Kinds]
Entries == [want : Wants \cup {NoWant}, address : Addresses \cup {NoAddr}]
Contents == Objects \cup {Empty, NoObject}
RequestMsgs  == [corrId : CorrIds, want : Wants]
ResponseMsgs == [corrId : CorrIds, address : Addresses]

Active == {"lookup", "publish", "await", "read"}
Done   == {"ok", "failed"}

\* The types, and that an id, an address or a want is there where it is used.
TypeOK ==
  /\ reqMap \in [CorrIds -> Entries \cup {NoEntry}]
  /\ pc \in [Requests -> {"idle"} \cup Active \cup Done]
  /\ want \in [Requests -> Wants \cup {NoWant}]
  /\ corr \in [Requests -> CorrIds \cup {NoId}]
  /\ poller \in [Requests -> {"none", "polling", "sending"}]
  /\ pollVal \in [Requests -> Addresses \cup {NoAddr}]
  /\ got \in [Requests -> Addresses \cup {NoAddr}]
  /\ content \in [Requests -> Contents]
  /\ chanOpen \in BOOLEAN
  /\ bound \in BOOLEAN
  /\ requests \subseteq RequestMsgs
  /\ responses \subseteq ResponseMsgs \cup {Malformed}
  /\ files \in [Addresses -> Contents]
  /\ restarts \in 0 .. MaxRestarts
  /\ issued \in [CorrIds -> Wants \cup {NoWant}]
  /\ sent \subseteq RequestMsgs
  /\ \A r \in Requests :
       /\ pc[r] # "idle" => want[r] # NoWant
       /\ pc[r] \in {"publish", "await", "read"} \/ poller[r] # "none"
            => corr[r] # NoId
       /\ poller[r] = "sending" => pollVal[r] # NoAddr
       /\ pc[r] = "read" => got[r] # NoAddr

\* The durable response queue may hold a message of another publisher, and
\* the request queues exist only once some worker has ever declared them.
Init ==
  /\ reqMap = [c \in CorrIds |-> NoEntry]
  /\ pc = [r \in Requests |-> "idle"]
  /\ want = [r \in Requests |-> NoWant]
  /\ corr = [r \in Requests |-> NoId]
  /\ poller = [r \in Requests |-> "none"]
  /\ pollVal = [r \in Requests |-> NoAddr]
  /\ got = [r \in Requests |-> NoAddr]
  /\ content = [r \in Requests |-> NoObject]
  /\ chanOpen = TRUE
  /\ bound \in BOOLEAN
  /\ requests = {}
  /\ responses \in {{}, {Malformed}}
  /\ files = [a \in Addresses |-> NoObject]
  /\ restarts = 0
  /\ issued = [c \in CorrIds |-> NoWant]
  /\ sent = {}

-----------------------------------------------------------------------------
(* The HTTP handlers and the AMQP client they call.                        *)

Goto(r, label) == pc' = [pc EXCEPT ![r] = label]

\* compressionRoutes.compress and .decompress read their parameters.
Arrive(r) ==
  /\ pc[r] = "idle"
  /\ Goto(r, "lookup")
  /\ \E w \in Wants : want' = [want EXCEPT ![r] = w]
  /\ UNCHANGED <<reqMap, corr, poller, pollVal, got, content, chanOpen,
                 brokerVars, restarts, ghostVars>>

\* Mutant: the loop compares the key it was asked for, as its parameters suggest.
MatchingKey(w) == {c \in CorrIds : reqMap[c] # NoEntry /\ reqMap[c].want = w}

\* The entries GetOrCreateRequest's loop stops at.  Its range variable key hides
\* the parameter key: the object's key is compared with the id of the entry.  An
\* answered entry has no bucket, key or type any more.
Matching(w) ==
  {c \in CorrIds : /\ reqMap[c] # NoEntry
                   /\ reqMap[c].want # NoWant
                   /\ reqMap[c].want.object.bucket = w.object.bucket
                   /\ reqMap[c].want.object.key = c
                   /\ reqMap[c].want.kind = w.kind}

\* After GetOrCreateRequest, GetDecompression waits in
\* GetDecompressionResponse (which first starts the polling goroutine) and
\* PlanCompression returns nil.
Proceed(r) ==
  IF want[r].kind = "decompress"
  THEN Goto(r, "await") /\ poller' = [poller EXCEPT ![r] = "polling"]
  ELSE Goto(r, "ok") /\ UNCHANGED poller

\* Mutant: ids are unique only among the entries of this run (a counter that
\* starts again with the process) and a response of an earlier run fits.
CreateReusedId(r) ==
  /\ \E c \in CorrIds :
       /\ reqMap[c] = NoEntry
       /\ issued' = [issued EXCEPT ![c] = want[r]]
       /\ reqMap' = [reqMap EXCEPT ![c] = [want |-> want[r], address |-> NoAddr]]
       /\ corr' = [corr EXCEPT ![r] = c]
  /\ Goto(r, "publish")
  /\ UNCHANGED poller

\* A new random id; this request must publish.
Create(r) ==
  /\ \E c \in CorrIds :
       /\ issued[c] = NoWant
       /\ issued' = [issued EXCEPT ![c] = want[r]]
       /\ reqMap' = [reqMap EXCEPT ![c] = [want |-> want[r], address |-> NoAddr]]
       /\ corr' = [corr EXCEPT ![r] = c]
  /\ Goto(r, "publish")
  /\ UNCHANGED poller

\* One critical section.  A request that found an entry would share its id and
\* its answer and publish nothing; EachOnItsOwn says that none ever does.
GetOrCreateRequest(r) ==
  /\ pc[r] = "lookup"
  /\ IF Matching(want[r]) = {}
     THEN Create(r)
     ELSE /\ \E c \in Matching(want[r]) : corr' = [corr EXCEPT ![r] = c]
          /\ Proceed(r)
          /\ UNCHANGED <<reqMap, issued>>
  /\ UNCHANGED <<want, pollVal, got, content, chanOpen, brokerVars, restarts, sent>>

Message(r) == [corrId |-> corr[r], want |-> want[r]]

\* CallCompressionApi on an open channel.  Nothing confirms a publish: it is
\* dropped when no queue is bound, and lost when the connection dies with it.
Publish(r) ==
  /\ pc[r] = "publish"
  /\ chanOpen
  /\ sent' = sent \cup {Message(r)}
  /\ \/ bound /\ requests' = requests \cup {Message(r)} /\ UNCHANGED chanOpen
     \/ ~bound /\ UNCHANGED <<requests, chanOpen>>
     \/ chanOpen' = FALSE /\ UNCHANGED requests
  /\ Proceed(r)
  /\ UNCHANGED <<reqMap, want, corr, pollVal, got, content, bound, responses,
                 files, restarts, issued>>

\* CallCompressionApi on a closed channel: the handler answers 500, and the
\* entry GetOrCreateRequest made stays.
PublishFails(r) ==
  /\ pc[r] = "publish"
  /\ ~chanOpen
  /\ Goto(r, "failed")
  /\ UNCHANGED <<reqMap, want, corr, poller, pollVal, got, content, chanOpen,
                 brokerVars, restarts, ghostVars>>

\* Mutant: the goroutine does not test ResultAddress # "".
PollHitUnanswered(r) ==
  /\ poller[r] = "polling"
  /\ reqMap[corr[r]] # NoEntry
  /\ poller' = [poller EXCEPT ![r] = "sending"]
  /\ pollVal' = [pollVal EXCEPT ![r] = reqMap[corr[r]].address]
  /\ UNCHANGED <<reqMap, pc, want, corr, got, content, chanOpen, brokerVars,
                 restarts, ghostVars>>

\* The goroutine finds an address under the id and starts to send it.
PollHit(r) ==
  /\ poller[r] = "polling"
  /\ reqMap[corr[r]] # NoEntry
  /\ reqMap[corr[r]].address # NoAddr
  /\ poller' = [poller EXCEPT ![r] = "sending"]
  /\ pollVal' = [pollVal EXCEPT ![r] = reqMap[corr[r]].address]
  /\ UNCHANGED <<reqMap, pc, want, corr, got, content, chanOpen, brokerVars,
                 restarts, ghostVars>>

\* The handler receives from resultChan; the goroutine, which has no return
\* after the send, goes on polling.
Receive(r) ==
  /\ pc[r] = "await"
  /\ poller[r] = "sending"
  /\ got' = [got EXCEPT ![r] = pollVal[r]]
  /\ poller' = [poller EXCEPT ![r] = "polling"]
  /\ Goto(r, "read")
  /\ UNCHANGED <<reqMap, want, corr, pollVal, content, chanOpen, brokerVars,
                 restarts, ghostVars>>

\* Mutant: the wait has no deadline as long as the channel is open.
WaitTimeoutOnClose(r) ==
  /\ pc[r] = "await"
  /\ ~chanOpen
  /\ Goto(r, "failed")
  /\ UNCHANGED <<reqMap, want, corr, poller, pollVal, got, content, chanOpen,
                 brokerVars, restarts, ghostVars>>

\* Mutant: a wait that has timed out publishes the request again.
WaitTimeoutRepublishes(r) ==
  /\ pc[r] = "await"
  /\ Goto(r, "publish")
  /\ UNCHANGED <<reqMap, want, corr, poller, pollVal, got, content, chanOpen,
                 brokerVars, restarts, ghostVars>>

\* The 100 seconds of GetDecompressionResponse are over; the goroutine stays.
WaitTimeout(r) ==
  /\ pc[r] = "await"
  /\ Goto(r, "failed")
  /\ UNCHANGED <<reqMap, want, corr, poller, pollVal, got, content, chanOpen,
                 brokerVars, restarts, ghostVars>>

\* GetByteFromFileSystem: the handler serves the file's bytes.
ReadResult(r) ==
  /\ pc[r] = "read"
  /\ files[got[r]] # NoObject
  /\ content' = [content EXCEPT ![r] = files[got[r]]]
  /\ Goto(r, "ok")
  /\ UNCHANGED <<reqMap, want, corr, poller, pollVal, got, chanOpen,
                 brokerVars, restarts, ghostVars>>

\* os.ReadFile fails (the worker's temporary directory is on another host).
ReadResultFails(r) ==
  /\ pc[r] = "read"
  /\ Goto(r, "failed")
  /\ UNCHANGED <<reqMap, want, corr, poller, pollVal, got, content, chanOpen,
                 brokerVars, restarts, ghostVars>>

-----------------------------------------------------------------------------
(* The consumer of the responses, the channel, and the process.            *)

\* Mutant: SetDecompressionResponse changes a copy of the entry.
ConsumeIntoCopy(m) ==
  /\ chanOpen
  /\ m \in responses \ {Malformed}
  /\ \/ responses' = responses \ {m} /\ UNCHANGED chanOpen
     \/ chanOpen' = FALSE /\ UNCHANGED responses
  /\ UNCHANGED <<serverVars, bound, requests, files, restarts, ghostVars>>

\* DecompressionConsumer handles a response: SetDecompressionResponse stores
\* it if the id is still known, then the delivery is acknowledged, which fails
\* when the channel closes first.  The worker fills in no bucket, key or type.
ConsumeResponse(m) ==
  /\ chanOpen
  /\ m \in responses \ {Malformed}
  /\ reqMap' = IF reqMap[m.corrId] = NoEntry THEN reqMap
               ELSE [reqMap EXCEPT ![m.corrId] = [want |-> NoWant,
                                                  address |-> m.address]]
  /\ \/ responses' = responses \ {m} /\ UNCHANGED chanOpen
     \/ chanOpen' = FALSE /\ UNCHANGED responses
  /\ UNCHANGED <<pc, want, corr, poller, pollVal, got, content, bound,
                 requests, files, restarts, ghostVars>>

\* A body json.Unmarshal refuses is logged, acknowledged and forgotten.
ConsumeMalformed ==
  /\ chanOpen
  /\ Malformed \in responses
  /\ responses' = responses \ {Malformed}
  /\ UNCHANGED <<serverVars, chanOpen, bound, requests, files, restarts,
                 ghostVars>>

\* The broker connection is lost.  Nothing opens another one: the consumer's
\* loop ends and every later Publish fails.
ChannelCloses ==
  /\ chanOpen
  /\ chanOpen' = FALSE
  /\ UNCHANGED <<serverVars, brokerVars, restarts, ghostVars>>

\* The process stops, by a crash or a signal, and is started again: the table
\* and the goroutines are gone and every open HTTP request is cut off.
Restart ==
  /\ restarts < MaxRestarts
  /\ restarts' = restarts + 1
  /\ reqMap' = [c \in CorrIds |-> NoEntry]
  /\ pc' = [r \in Requests |-> IF pc[r] \in Active THEN "failed" ELSE pc[r]]
  /\ poller' = [r \in Requests |-> "none"]
  /\ chanOpen' = TRUE
  /\ UNCHANGED <<want, corr, pollVal, got, content, brokerVars, ghostVars>>

-----------------------------------------------------------------------------
(* What the workers do to the queues (internal/controller/rmq/amqp_worker.go). *)

\* StartConsumer declares the two request queues and binds them.
WorkerStarts ==
  /\ ~bound
  /\ bound' = TRUE
  /\ UNCHANGED <<serverVars, chanOpen, requests, responses, files, restarts,
                 ghostVars>>

\* ConsumeDecompression writes a result file and publishes its address.  The
\* file is empty when the worker's cache lost its own file before reading it
\* (usecase.go logs that error and goes on).  The request stays when the worker
\* fails before its Ack: it is delivered again.
WorkerResponds(m, a) ==
  /\ m \in requests
  /\ m.want.kind = "decompress"
  /\ files[a] = NoObject
  /\ \E o \in {m.want.object, Empty} : files' = [files EXCEPT ![a] = o]
  /\ responses' = responses \cup {[corrId |-> m.corrId, address |-> a]}
  /\ requests' \in {requests, requests \ {m}}
  /\ UNCHANGED <<serverVars, chanOpen, bound, restarts, ghostVars>>

\* A message leaves its queue with no response: a compression acknowledged, a
\* decompression rejected without requeue, or a response whose Publish failed.
WorkerSettles(m) ==
  /\ m \in requests
  /\ requests' = requests \ {m}
  /\ UNCHANGED <<serverVars, chanOpen, bound, responses, files, restarts,
                 ghostVars>>

-----------------------------------------------------------------------------
Handler(r) ==
  \/ GetOrCreateRequest(r) \/ Publish(r) \/ PublishFails(r)
  \/ Receive(r) \/ WaitTimeout(r) \/ ReadResult(r) \/ ReadResultFails(r)

Next ==
  \/ \E r \in Requests : Arrive(r) \/ Handler(r) \/ PollHit(r)
  \/ \E m \in responses \ {Malformed} : ConsumeResponse(m)
  \/ ConsumeMalformed
  \/ ChannelCloses
  \/ Restart
  \/ WorkerStarts
  \/ \E m \in requests : \E a \in Addresses : WorkerResponds(m, a)
  \/ \E m \in requests : WorkerSettles(m)

Spec == Init /\ [][Next]_vars

\* The Go scheduler runs every handler that can run.
FairSpec == Spec /\ \A r \in Requests : WF_vars(Handler(r))

-----------------------------------------------------------------------------
(* Properties.                                                             *)

\* A decompress request answered 200 never gets the bytes of another object:
\* across redelivered requests, several responses to one id, requests for one
\* object side by side, a server that restarts and responses left over from
\* before, the correlation id still leads to a result file made for what was
\* asked.
OwnContent ==
  \A r \in Requests :
    pc[r] = "ok" /\ want[r].kind = "decompress"
      => content[r] \in {want[r].object, Empty}

\* Requests have nothing to do with each other, also those for one object at one
\* time and those of earlier runs: each has an id of its own, and the handler
\* has published under it, once, exactly if it is past Publish.  isAlreadyExist
\* is never true: the look-up compares a key with an id.  So ten requests for an
\* object are ten messages, and no request depends on another's publish.
EachOnItsOwn ==
  /\ \A r, s \in Requests : corr[r] # NoId /\ corr[r] = corr[s] => r = s
  /\ \A r \in Requests : corr[r] # NoId /\ pc[r] # "failed" =>
       (Message(r) \in sent <=> pc[r] # "publish")

\* Nothing is left that could answer the entry of c.
Lost(c) ==
  /\ reqMap[c] # NoEntry
  /\ reqMap[c].address = NoAddr
  /\ \A r \in Requests : ~(pc[r] = "publish" /\ corr[r] = c)
  /\ \A m \in requests : m.corrId # c
  /\ \A m \in responses \ {Malformed} : m.corrId # c

\* Once its message or its response is lost an entry stays unanswered until the
\* server restarts, and the handler that waits for it is not told: no other
\* request for the object, late response or worker revives it, and the wait
\* cannot end but by its 100 s.
LostStaysLost ==
  [][\A c \in CorrIds : Lost(c) =>
       \/ restarts' # restarts
       \/ Lost(c)' /\ \A r \in Requests : corr[r] = c => pc'[r] # "read"]_vars

\* Every HTTP request the server reads gets an answer, whatever happens to the
\* channel, the workers and the messages.
EveryRequestAnswered ==
  \A r \in Requests : pc[r] = "lookup" ~> pc[r] \in Done

\* The API's description of /compress ("trigger compression", 200 or 500): when
\* compress answers 200, the broker has a message to compress the object.
OkMeansTriggered ==
  [][\A r \in Requests :
       pc[r] # "ok" /\ pc'[r] = "ok" /\ want[r].kind = "compress"
         => \E m \in requests' : m.want = want[r]]_vars
=============================================================================
