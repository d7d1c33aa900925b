# Specifications of tar_compression

TLA+ models of the two programs of this repository, the API server
(`cmd/server`) and the worker (`cmd/worker`), of the broker between them, and of
the copied RPC library, checked with TLC. All their safety properties that hold
are proved with TLAPS for every value of the constants.

## The system

    HTTP client --> API server --> exchange audio_compression --> worker --> S3
                        ^                                           |
                        +------ queue decompress_response <---------+
                        +------ result files in the temp directory -+

| Part | State | Operations | What makes it hard | Modules |
| --- | --- | --- | --- | --- |
| API server: `controller/http/v1/compression.go`, `controller/rmq/amqp_client.go`, `decompression_client.go` | `reqMap` (correlation id -> request or answer) under one mutex; per request a handler and, for a decompression, a polling goroutine with an unbuffered channel; the AMQP channel | `compress`, `decompress`, `GetOrCreateRequest`, `Publish`, `SetDecompressionResponse`, the 100 s wait, reading the result file | a look-up that never finds anything, unconfirmed publishes, lost or repeated responses, a channel that is never reopened, restarts with messages in durable queues | `AMQPClient` |
| Worker consumers: `controller/rmq/amqp_worker.go` | two queues, one channel, delivery tags | `ConsumeCompression`, `ConsumeDecompression`, Ack/Reject, Publish | both consumers share the tags and one of them uses `Ack(true)`; retries; crash between publish and ack; no prefetch limit | `AMQPWorker` |
| Decompression cache: `compression/repository.go`, `usecase.go` | the list `dos` under a mutex, temporary files, job goroutines | `GetDecompression`, `CreateDecompression`, `Update...`, `decompressionListWorker` | the scan reads the list without the mutex, jobs end late, look-up and creation are two critical sections, 60 s of life against 80 s of waiting | `DecompressionCache` |
| Pipeline: `usecase.go` `DoCompression`/`DoDecompression`, `pkg/archive`, `storage/s3repo` | two buffers shared by all compressions, temporary files | download, extract, compress, upload | reuse of buffers after errors, which errors are retried | `Pipeline` |
| Broker: exchange, two request queues, one response queue | ready and unacknowledged messages, bindings | declare, deliver, requeue | at-least-once delivery, request queues declared by the worker only | `System`, `WorkerRun` |
| RPC copy: `pkg/rabbitmq copy/rmq_rpc` | per process a connection, the channels `stop` and `error`; the table of pending calls | `RemoteCall`, `getCall`, `serveCall`, `reconnect`, `Notify`, `Shutdown` | reconnect and Shutdown close the same channel, answers race with timeouts, every server answers | `RPCLink`, `RPC`, `RemoteCalls` |
| Life cycle: `server.go`, `worker.go`, `pkg/httpserver` | signal, error and notify channels, the HTTP server, its handlers | start, failure, signal, shutdown | three goroutines can end the process; deadlines of 3, 70 and 100 s; a set-up error is dropped | `Lifecycle`, `WorkerRun` |
| Telemetry, logging, metrics, configuration, database handle, audio converter, API docs | | | see Not modelled | |

`PROJECT.json` lists every component with its files, and every hazard with the
line where it bites and the properties that watch it.

How the modules fit together:

    System  = AMQPClient + AMQPWorker over one broker,  System => AMQPClient
    AMQPWorker's GetDecompression = DecompressionCache, its DoCompression = Pipeline
    WorkerRun, Lifecycle = what comes before and after the two programs' loops
    RPC     = RPCLink (one link per process) + calls,   RPC => RemoteCalls

## Modules

### AMQPClient (`MCAMQPClient`, `AMQPClientProofs`)

The API server. One action per step of a handler: `Arrive` (the HTTP
parameters), `GetOrCreateRequest` (one critical section, with `Matching`, its
loop, and `Create`, the new entry), `Publish` / `PublishFails`, `Receive` / `WaitTimeout` (the select of
`GetDecompressionResponse`), `ReadResult` / `ReadResultFails`. `PollHit` is the
polling goroutine (`poller`, `pollVal`), which survives its handler.
`ConsumeResponse` and `ConsumeMalformed` are the consumer, `ChannelCloses` and
`Restart` the failures. `WorkerStarts`, `WorkerResponds` and `WorkerSettles`
say what workers can do to the queues and result files; `System` shows that the
worker of this repository does no more. `content = Empty` is the empty
result the worker publishes when its cached file vanished before it was read.

The loop of `GetOrCreateRequest` declares a variable `key` that hides the
parameter of that name (`decompression_client.go:43`), so line 44 compares the
object's key with the entry's correlation id. `Matching` does the same. A key
begins with a slash, as gin's `*key` does, and an id is ten letters
(`KeysAreNotIds`), so the loop finds nothing and `isAlreadyExist` is never true:
every request makes an entry and publishes a message, and ten requests for one
object are ten messages and, for a decompression, up to ten responses.
`EachOnItsOwn` says so, `NobodyJoins` proves it. The branch for an entry that is
found is kept as the code has it and never taken.

Abstractions: an `Object` is a bucket and a key, with values of their own; queues are sets, because several
workers and requeueing leave the order open; ten random letters are an id that
was not used before (`issued`); only the fact that a wait can end by its timeout
is kept of the 100 s. A response already buffered when the channel closes is
consumed before the close, which no handler can tell apart.

Two ghosts, `issued` and `sent`, remember across restarts what each id was
generated for and what was published; the code has no such memory and no guard
but the freshness of ids uses them.

### DecompressionCache (`MCDecompressionCache`, `DecompressionCacheProofs`)

The worker's list and `GetDecompression`. `slots` is the array under
`CompressionRepository.dos` and `len` its length: an append stores the length
first (`CreateLength`) and the element second (`CreateStore`), as the compiler
does it, and in between the unlocked range of `decompressionListWorker` reads
what the slot held before: the zero object, or one left there by an earlier
removal. `scan` is that goroutine (`ScanBegin`, `ScanKeeps`,
`ScanFindsExpired`, `ScanRemoves`); when an append moves the list to a larger
array the scan keeps walking the old one. Calls are `Call`, `Check`,
`PollPath`, `PollError`, `ReadFound`, `TimeOut`; the goroutines they start are
`JobWrites`, `JobFails`, `JobReports` and go on after the call has returned.
As wired, one consumer goroutine makes the calls, so they do not overlap; jobs,
the scan and a call do.

Not represented: a slice header or an object read half before and half after a
write. Reading the unwritten slot covers what that can lead to in the list (an
object that looks expired). A temporary file that is created but cannot be
written is not named anywhere afterwards and is left out.

One tick is about 40 s: TTL 1 (60 s, "more than one tick") is below the timeout
2 (80 s), the order that matters and that `TimesAreNat` states. The clock is
bounded by `MaxTime`; calls begin early enough, and the clock waits for them to
begin their wait, so that every timeout fits.

### AMQPWorker (`MCAMQPWorker`, `AMQPWorkerProofs`)

The worker's consumers and the broker's view of their channel. `Enqueue` is a
publisher's message reaching its queue (`queued` is all that ever did).
`Deliver` numbers deliveries with the channel's tags and puts them into the
consumer's buffer (there is no `Qos`), `Take`, `SkipBadCompression` and
`TakeBadDecompression` start a loop body, `CompressionEnds`,
`DecompressionFails`, `DecompressionEnds`, `ResponseAccepted` and `ResponseLost`
choose the answer, `Settle` gives it: it removes one delivery or, with
`Ack(true)`, all with a lower or equal tag; an unknown tag closes the channel.
`LoseChannel` requeues what is unacknowledged; `LoopEnds` ends a loop whose
channel is closed. The ghost `outcome` is how the last handling of a message
ended, `responses` counts the responses the broker accepted.

`GoneOnlyAfterHandling` and `AnswersKnownTag` name their one exception,
`BadAcknowledged`: after an unreadable decompression request the `Ack(true)` of
line 226 acknowledges every lower tag of the channel, compressions in hand
included; they are then lost if the worker dies, and answering them closes the
channel. The exception is made for compressions and their consumer only: that
the `Ack(true)` takes no decompression, and that nothing but it takes a
compression, is checked and proved. No publisher in this repository sends an
unreadable body.

### Pipeline (`MCPipeline`, `PipelineProofs`)

What the worker does to an object. `pc`, `object`, `source`, `output`,
`extracted` and `result` are one `DoCompression` after the other: `source` and
`output` are the two buffers of `compBuffer`, which outlive a call, and `Begin`
resets them as lines 139-140 do. `RefuseExtension`, `Begin`, `Download`,
`DownloadNotFound`, `DownloadFails`, `Extract`, `Compress`, `CompressFails`,
`Upload`, `UploadFails` are its steps and returns; result `"retry"` and
`"giveup"` are errors with `shouldRetry` true and false, which the consumer
answers with a requeue and an acknowledgement. `job` and its companions are the
goroutines in `DoDecompression`, each with buffers of its own; `temp` is the
directory with the temporary files. `PutSource` is a user who stores a new
version of the archive at any moment; `Restart` a crash of the worker.

Bytes are sequences of blocks: a tar entry, the end marker, something broken, or
a whole gzip member. `FilesIn`, `Tar`, `TarGz` and `Gunzip` are the archivers at
that grain: extraction stops at the first marker and leaves the padding unread, a
missing marker is an end like any other, several members are one stream.
`AsFile` is the regular file that the archivers make of an entry: only name and
body are kept, so links and directories come out as empty files. Each failure
path leaves in the buffers what the code can leave there: an upload that failed
may have read nothing, a part or all of `output`, and the store may have taken
the object though the answer was lost.

`versions` is the history of a source, its last element what S3 has now;
`storedFrom`, `jobFrom`, `read` and `began` are ghosts that remember from which
version something was made and how many there were when the call began.

Assumed: users replace objects but do not delete them; one download sees one
version (the SDK may fetch a large object in several ranges); what is in the
compressed bucket before the worker runs does not unpack; one worker, whose one
consumer goroutine compresses one message at a time. A compressed name ends in
`.tar.gz` and is therefore never itself a source, and different sources have
different compressed names. An object of no bytes is an error of the download that
is retried for ever (`s3_repo.go:72`).

### System (`MCSystem`, `SystemProofs`)

Server and worker over one broker. It extends `AMQPWorker`, whose variables are
the worker's, and instances `AMQPClient` as `Server`, whose channel is
`serverOpen`, whose response queue is `answers` and whose requests are
`Requested`, the messages that are ready or unacknowledged. A step of one
program is a step of its module while the other's variables stay, and the four
steps that touch both join an action of each: `ServerPublishes` (the message reaches its queue if one
is bound, else it is dropped), `WorkerStarts` (the set-up declares and binds),
`PublishesResult` (a response enters the server's queue) and `WritesResult`
(the file of the shared directory, before its address is published). A message of
the worker's queues is the correlation id with what is wanted, so a response
carries the id of its request by construction of the code, not of the model:
`Response(m)` is the `CorrelationId: d.CorrelationId` of line 248.

`ServerSpec == Client!Spec` is the refinement: seen through `Requested` and
through `PublishedFiles` (the files whose address was published), every step of the worker is one that `AMQPClient` lets its
environment take, or a stutter. Together with the theorems about `AMQPClient`
this says that `OwnContent` and the others hold with this worker behind the
server. All messages are readable here, as every publisher of the repository
makes them; `AMQPWorker` has the unreadable ones.

### RPCLink (`MCRPCLink`), RPC (`MCRPC`, `RPCProofs`) and RemoteCalls

The copied library under `pkg/rabbitmq copy/rmq_rpc`, which neither program
uses. `RPCLink` is what client and server have in common: the connection
(`chan`: up, closed, or nil after a connect that failed half way), the consumer
goroutine with the `reconnect` it calls (`consumer` says where it stands),
`Notify` and `Shutdown`. The goroutine's select may take any ready case, so
`Take` is possible with `stop` closed.

`RPC` extends it with the calls: `PeersAreTheirs` says that the peers are a client
and its servers and that the messages are requests and replies. `Begin` and `Wake` are the two looks at `stop`, `Publish`,
`PublishFails` and `PublishOnNil` what the publish comes to, `Add` the entry of
the table, which comes after the publish, `Timeout` and `Answered` the select,
`Delete` the deferred `deleteCall`. The client's consumer is `TakeReply`,
`LookUp`, `Store` and `CloseDone`, a server's `TakeRequest`, `ServeCall` and
`Reply`. Exchanges are fanouts: a request reaches every server that listens at
that moment, and every one of them answers. `hand` is what a consumer handles;
the ghost `served` is what each server made of each call.

`RemoteCalls` is what the library promises: each server serves a call at most
once, a refused call is never served, an outcome is one a server gave, and after
a timeout nothing is known. `KeepsPromise` is `RPC => RemoteCalls!Spec`, under `Phases` (what
a caller can tell of where its call stands) and `Returned`.

`pendingCall`'s status and body are one `answer`: the code writes them apart,
and only a second answer to the same call, which panics in `CloseDone`, could be
seen half written. `Attempts = 0` (with which `AttemptConnect` returns nil
unconnected) is excluded by `AttemptsArePositive`. `Shutdown` is called at most
once per process.

### Lifecycle (`MCLifecycle`, `LifecycleProofs`)

The server's process: `SetUp`, `Start`, `Stop`, `BeginShutdown` and `Return` are
`Run` with `httpserver.New` and `Shutdown` in it; `ListenFails` and `SendError`
the goroutine of `start`; `Consume`, `ConsumeFails` (`Fatal`, `os.Exit`) and
`ChannelCloses` the response consumer as far as the process depends on it;
`Accept`, `Read`, `Answer` and `Send` an HTTP request with the connection's
write deadline. A connection that was accepted may bring its request later, when
the listener has failed or `Shutdown` waits; one that is idle is closed. A set-up that failed leaves a closed channel and no error, because
`NewAMQPClient` tests an older `err`; the process still ends, since the consumer
then calls `Fatal`.

What the model also shows: the 500 that `GetDecompressionResponse` returns after
100 s never reaches its client, whose connection may only be written for 70 s
(the first cause in `CutHasCause`).

### WorkerRun (`WorkerRunProofs`)

The worker's process: `Declare`, `Consume`, `Go`, `Listen` and `Unblock` are
`StartConsumer`, `SetUpFails` its error returns, `Stop` and `Close` the rest of
`Run`. A channel lost between `Consume` and `NotifyClose` closes the channel
that `NotifyClose` is given: `StartConsumer` then returns a nil `*amqp.Error` in
a non-nil `error`, and logging it panics (`ListenTooLate`). Two observations of
no consequence for a property: "compression worker started" is logged only after
`StartConsumer` has returned, which is when its channel is lost; and a signal
before that ends the process without `CloseChan`.

## Runs

| Run | Bounds | Shows | Why the bounds suffice |
| --- | --- | --- | --- |
| `client` | 2 requests, 2 objects, 2 ids, 2 files, 1 restart | `TypeOK`, `OwnContent`, `EachOnItsOwn`, `LostStaysLost` | two requests with an entry each to mix up, for one object or for two, two objects to receive the wrong one, one restart to leave old responses behind; the theorems cover the rest |
| `client_trigger` | 2 requests, no restart | violation of `OkMeansTriggered` | see Findings |
| `cache` | 2 keys, 2 calls, 2 files, TTL 1, timeout 2, clock to 4, fairness | `TypeOK`, `RemovalInRange`, `OneObjectPerKey`, `CallContent`, `FinishedJobVisible`, `CallReturns`, `ObjectsExpire` | a call, its late job, and a second call for the same or another key all meet |
| `cache_expired` | the same, no fairness | violation of `RemovesOnlyExpired` | see Findings |
| `worker` | 2 + 2 messages, one unreadable in each queue, 5 deliveries per channel, 2 lost channels, fairness | `TypeOK`, `GoneOnlyAfterHandling`, `AnswersKnownTag`, `ResponseBeforeAck`, `RepeatsNeedLoss`, `DeliveriesAnswered` | one more delivery than messages leaves room for a retry, two losses for a second redelivery |
| `pipeline` | 3 keys, one without `.tar`; 4 archives (padded with a link, unterminated, broken, empty); 2 puts; 2 jobs, 2 files | `TypeOK`, `CompressedFromSource`, `DoneMeansStored`, `GivesUpOnlyOnBadObject`, `RoundTrip` | two keys so that one message can leave something to another, two puts so that a source is replaced, two jobs beside a compression; the theorems cover the rest |
| `system_refines` | 2 requests, 1 object, 2 ids, 2 files, 1 restart of the server, 1 loss or restart of the worker, 3 deliveries per channel | `LostHasCause`, `ServerSpec` | a decompression and a compression or two entries across a restart, one delivery more than messages |
| `system_answers` | 2 requests, 1 object, 2 ids, 2 files, 4 deliveries, no restarts, no loss of the worker's channel, fairness | `EntryAnswered`, `EveryRequestAnswered` | a compression that is retried twice and an entry beside it; `EntryAnswered` excuses an entry whose request is in its queue when the tags are used up, not one that was delivered. What a lost channel of the worker does to an entry is in `system_refines` (`LostHasCause`) |
| `rpclink` | 1 peer, 2 messages, 2 attempts, 3 losses, fairness | `PanicNeedsShutdown`, `ConsumerAccounted`, `DownStaysDown`, `LossIsHandled`, `ShutdownEndsConsumer` | peers do not share anything; a loss before, during and after a reconnect; the theorems cover the rest |
| `rpc` | 1 call, 2 servers, shutdown of the client and one server, 2 losses, 1 attempt | `CallTypes`, `PanicCauses`, `KeepsPromise`, `WaitingIsWoken` | calls do not touch each other's entries; two servers for two answers; two losses for one end after the other, or one twice |
| `lifecycle` | 2 requests, waits 10, writes 7, shutdown 1, fairness | `CutHasCause`, `FailureEndsProcess` | a tick is 10 s, the 3 s of the shutdown are rounded up to 1; one request older and one younger than a deadline |
| `workerrun` | 3 processes, fairness | `ConsumedIsHandled`, `LossIsNoticed` | first, second and a later life, with none, one or both queues declared before |

Runs without a fairness condition use symmetry where the sets are
interchangeable, those with liveness do not. Every run has
`CHECK_DEADLOCK FALSE`: with a bounded number of requests, calls, deliveries or
processes the system legitimately comes to rest.

## Fairness

* `AMQPWorker`, `System`: weak for each consumer goroutine. `DoCompression`
  returns because its S3 calls do; `GetDecompression` because of its timeout
  (`CallReturns`). `System` adds `Delivers` (a broker with a consumer and no
  `Qos` delivers what it has), the server's response consumer, and
  `ServerHandles(r)` for each request: handlers are goroutines that block on a
  timer at most. Losses, closes, restarts and new requests are not fair.
* `DecompressionCache`: the clock, the scan, and the calls' own steps. Nothing is
  assumed of the jobs: a download may never end.
* `RPCLink`: the consumer goroutine, which includes its reconnect, and a
  `Shutdown` that was called. Nobody need call `Notify`, and `Take` may be chosen
  over `stop` as often as there are messages.
* `Lifecycle`: `Run`, the other goroutines, time, and handlers at their deadline;
  not handlers before it, and no signal.
* `WorkerRun`: `Run` and the loops.
* `Pipeline`, `AMQPClient` and `RPC` by themselves have safety properties only.

## Findings

* `client_trigger`, `OkMeansTriggered` (`amqp_client.go:115`): the publish is
  neither confirmed nor mandatory. Before any worker has declared the request
  queues the exchange has nowhere to route the message and drops it; a connection
  that dies takes it along. `Publish` returns nil in both cases and `compress`
  answers 200, against the API description "trigger compression ... 200 / 500"
  (`compression.go:33-39`).
* `cache_expired`, `RemovesOnlyExpired` (`repository.go:69`): the unlocked range
  takes a half-appended object for an expired one; the comment at line 71 says
  "Removing object from list if already expired". The caller of that object then
  waits 80 s for nothing and its request is rejected.

An observation that contradicts no doc and is therefore not a finding: the look-up
of `GetOrCreateRequest` never finds an entry, see AMQPClient. Its caller's
`isAlreadyExist` suggests that requests were meant to share one; `EachOnItsOwn`
states what they do.

## Proofs

`AMQPClientProofs` proves, for all sets of requests, objects, ids and files and
any number of restarts, from the three assumptions on constants in `AMQPClient`
(the null values are outside the sets they complete; a key is no correlation id;
the bound is a number):

* `TypeCorrect`: `Spec => []TypeOK`. `TypeOK` is inductive by itself.
* `Correlated`: `Spec => []IInv`. None of the other invariants is inductive: that
  a handler answers with the right bytes depends on the file named by an address
  that came from a message published for an id that may have been forgotten by a
  restart. `IInv` follows that chain: `EntriesIssued` (an entry belongs to what
  its id was issued for; an answered entry leads to a file made for it),
  `MessagesIssued` (so do requests and responses in the queues),
  `HandlersIssued` (so do the ids, and the addresses read under them, of handlers
  and goroutines), `HandlersAnswered` (a handler gets an address only under an
  entry that was answered), `EachOnItsOwn`, `OwnContent`. Lemma
  `Kept` says why the chain cannot break: ids are not reissued and files are not
  rewritten. One lemma per conjunct, one step per action that can disturb it.
* `NobodyJoins`: `Spec => [](\A w \in Wants : Matching(w) = {})`.
* `NoForeignContent` (`OwnContent`), `EachAlone` (`EachOnItsOwn`): the invariants
  that the runs check, from `Correlated`.
* `LostForGood`: `Spec => LostStaysLost`, an action property.

`PipelineProofs` proves, for all sets of keys, archives, entries, jobs and files,
any function `AsFile` that is idempotent and any number of puts:

* `Consistent`: `Spec => []IInv`. `CallInv` says what the buffers and locals of
  `DoCompression` hold at each place in terms of the version it read; in
  particular `output` is empty until `Compress`, which is what the reset of
  `Begin` is for. `StoreInv` and `JobInv` say the same of the stored objects and
  of each goroutine. `DoneMeansStored` and `GivesUpOnlyOnBadObject` are conjuncts:
  with `CallInv` they are inductive.
* `TypeCorrect`, `StoredAsRead`, `DoneIsDone`, `GivesUpRightly`, `RoundTripped`:
  the properties the runs check.
* Lemmas about the archivers: `StopFacts` (the search stops at the first block
  that is not an entry; it rests on `LeastElement`, which is derived from the
  well-foundedness of inclusion among finite sets), `TarReadable`, `TarRoundTrip`
  (what was extracted once survives packing and unpacking), `GunzipTarGz`.

The assumptions used are those `Pipeline` names: the markers and gzip members are
not entries, archives are sequences of blocks, `Absent` is not a byte sequence.

`AMQPWorkerProofs` proves, for any messages, readable or not, and any number of
deliveries and lost channels, from the assumptions `AMQPWorker` names (a message
is of one queue, the bounds are numbers, `NoDelivery` is no delivery):

* `Agreed`: `Spec => []IInv`. Not even `TypeOK` is inductive: that a requeued
  message is not at the broker twice needs unique tags. `TagsInv` says that tags
  identify deliveries on both sides of the channel, `OrderInv` that a consumer
  handles them in rising order, so that `Ack(true)` takes nothing the
  decompression consumer has yet to handle. `AwaitedInv` is the core: what a
  consumer has is unacknowledged, or the channel is closed and the message ready
  again, or (compressions only) an unreadable decompression was acknowledged
  before; and every unacknowledged decompression is in its consumer's hands. `VerdictInv` says what
  each answer means (only compressions are requeued), `RepeatInv` that the
  response beyond the lost channels is followed by its acknowledgement.
* `TypeCorrect`, `HandledBeforeGone` (`GoneOnlyAfterHandling`), `KnownTagsOnly`
  (`AnswersKnownTag`), `ResponseFirst` (`ResponseBeforeAck`), `BoundedRepeats`
  (`RepeatsNeedLoss`): all safety properties of the `worker` run.

`DecompressionCacheProofs` proves, for any keys, calls, jobs and files, any TTL and
timeout and a clock that runs as long as one likes, from the assumptions
`DecompressionCache` names:

* `CacheConsistent`: `Spec => []IInv`. `ScanInv` is about the unlocked scan:
  nothing but a removal shortens the list, and the removal ends the scan, so the
  index that was found without the mutex is still in the list when it is used.
  `CallInv` is what the single consumer goroutine gives: at most one call is under
  way, beside the jobs of earlier ones. `OwnerInv` says of each whole object
  (`Whole`: all but one that is being appended) that it is its owner's and
  shows what its owner's job has reported; `UniqueInv` that a key is listed once, and
  not at all while a call is about to append it, which is why a report by key
  reaches the right object wherever removals have moved it. `FileInv` follows a path
  from the job that made its file to the call that reads it.
* `TypeCorrect`, `RemovalNeverPanics` (`RemovalInRange`), `KeyListedOnce`
  (`OneObjectPerKey`), `ContentOfOwnKey` (`CallContent`), `ResultIsShown`
  (`FinishedJobVisible`): all safety properties of the `cache` run.

The step lemmas `LengthEffect`, `StoreEffect`, `ReportEffect` and `RemoveEffect` say
once what each writer of the list does to every index.

`RPCProofs` proves, for any peers, messages, attempts and losses, from
`AttemptsArePositive` and `MaxLossesIsNat`, of the links:

* `TypeCorrect`, and `LinksConsistent`: `Spec => []IInv`, which says for each
  peer who has closed `stop` (a reconnect under way, or Shutdown), where a
  reconnect may stand with an open channel, and what Shutdown leaves.
* `LossesAreSurvived` (`PanicNeedsShutdown`), `AlwaysAccounted`
  (`ConsumerAccounted`), `DownForGood` (`DownStaysDown`);

and, for any number of servers and calls, from `PeersAreTheirs` and
`MessagesAreApart` besides, of the library:

* `RPCConsistent`: `RPCSpec => []RPCInv`. Its parts are `IInv`, which survives
  fanned out requests, replies and panics; `CallTypes`; `RouteInv`, that a request
  that a server has is its only copy and not yet served, that a reply is at one
  place only and says what its server made of the call, and that nobody has
  a call that was refused; `TableInv`, that whatever the client stores or
  returns was given by a server, and that a call whose `done` is closed has used up
  a reply (`Spent`); `DeadInv`, where a client that panicked stood.
* `PanicsHaveCauses` (`PanicCauses`): `Spent` is why a second close of `done`
  needs a second server. `AnswersWake` (`WaitingIsWoken`), `CallTypesCorrect`.
* `LinksUnderCalls`: the three properties of the links hold with calls under way,
  where a client may also die of a nil channel or a second answer.
* `PromiseKept`: `RPCSpec => KeepsPromise`. `Begin` is an invocation, `ServeCall` a
  service, a return is `Wake` on a closed `stop`, `PublishFails` or `Delete`; every
  other step stutters. The return needs `RPCInv`: the outcome was given by a
  server, or nothing was published.

`LifecycleProofs` proves `TypeCorrect` and `CutsHaveCauses` (`CutHasCause`) for
any requests and deadlines that are numbers; the only step that is not local is
`Exit`, which cuts off whoever is `Open`.

`WorkerRunProofs` proves `SetUpInOrder`, the invariant of what each step of the
set-up finds declared and consumed and that both loops run while the channel is
open, and from it `NothingConsumedInVain` (`ConsumedIsHandled`), for any number of
processes.

`SystemProofs` proves, for any requests, objects, ids and files and any number of
deliveries, restarts and lost channels, from `QueuesAreTheServers` (the two
programs name the same messages, all readable), `ServerNullsAreOutside` and
`KeysAreNotIds`:

* `SystemConsistent`: `SystemSpec => []SystemInv`. The worker's half is `IInv` of
  `AMQPWorkerProofs`, which carries over because every step of the system is a step
  of the worker or none (`WorkerSteps`). The server's half is `ServerInv`: types,
  `HandlerInv` (ids, wants and addresses are there where they are used) and
  `AddressInv` (the server knows the address of a published file only).
  `ResultInv` and `AnswerInv` join the two: what is about to be published was made
  for the message in hand, and a response that was accepted waits in the queue or
  has come to its entry.
* `LossHasCause` (`LostHasCause`): a message that is gone was handled
  (`GoneOnlyAfterHandling`), one that was handled well had its response accepted
  (`ResponseBeforeAck`), and by `AnswerInv` that response is not lost.
* `WorkerRefinesEnvironment`: `SystemSpec => ServerSpec`, step by step. Its core is
  `LeavesAlone`: messages leave `Requested` one at a time, since no message is
  delivered under two tags and `Ack(true)` is given for unreadable messages only
  (`VerdictInv`), of which the server publishes none.

So the invariants `AMQPClientProofs` derives from `AMQPClient!Spec` hold of the two
programs together: `OwnContent` on the files as the server can see them, and
the ones about table and handlers as they are. This is an argument from two
theorems, not a third one: the prover does not carry a theorem through `INSTANCE`
with its variables substituted.

Only model-checked: the liveness properties (`EveryRequestAnswered`,
`EntryAnswered`, `CallReturns`, `ObjectsExpire`, `DeliveriesAnswered`,
`LossIsHandled`, `ShutdownEndsConsumer`, `FailureEndsProcess`, `LossIsNoticed`),
which are out of the prover's reach. Every other property of a passing run is
stated by a theorem.

## Mutants

Each module holds, before the definition it changes and marked "Mutant", a
variant with a plausible bug for every property; `PROJECT.json` says which
property each one breaks.

## Not modelled

* Telemetry, logging and metrics observe and do not act; the closers of the
  telemetry providers are neither awaited nor looked at by anything modelled.
* Configuration is read once, before anything starts, or ends the process.
* The database handle is opened and closed and never queried; the audio
  converter is called by nothing; the API documentation is generated.
* Memory and disk: polling goroutines, entries of the table, result files and
  some temporary files are never given back. The models show that they stay
  (`LostStaysLost`), not what happens when there are too many.
* A torn read of a slice header in the unlocked range, see DecompressionCache.
* The contents of logs and of HTTP bodies other than the decompressed bytes.

## Plan

Done: the API server, the cache, the consumers, the pipeline; their composition,
the RPC library and both life cycles; proofs of every safety property that
the passing runs check, the two refinements included. Left:

1. The server's invariants restated over `SystemSpec`, `OwnContent` first, so that
   the last step of the argument above is a theorem too. It needs the chain of
   `AMQPClientProofs` with the worker's messages in it.
2. Six hazards in `PROJECT.json` have a note instead of a property: nothing in the
   repository says what should happen there. A property can follow once the
   authors decide it: whether a worker consumes again after it has lost its
   channel, whether an empty result is an error, which deadline is the longer.
