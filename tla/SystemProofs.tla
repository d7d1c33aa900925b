---------------------------- MODULE SystemProofs ----------------------------
(***************************************************************************)
(* Theorems about System: the server and a worker over one broker, for any  *)
(* requests, objects, ids and files, and any number of deliveries, restarts *)
(* and lost channels.  AMQPWorkerProofs has the worker's half of the        *)
(* invariant.                                                              *)
(***************************************************************************)
EXTENDS System, AMQPWorkerProofs

-----------------------------------------------------------------------------
(* The server's half of the inductive invariant, and what joins the two.   *)

Entries == [want : Wants \cup {NoWant}, address : Addresses \cup {NoAddr}]
Results == [corrId : CorrIds, address : Addresses]
Filled  == Objects \cup {Empty}

TableTypes ==
  /\ reqMap \in [CorrIds -> Entries \cup {NoEntry}]
  /\ issued \in [CorrIds -> Wants \cup {NoWant}]

HandlerTypes ==
  /\ pc \in [Requests -> {"idle", "lookup", "publish", "await", "read", "ok",
                          "failed"}]
  /\ want \in [Requests -> Wants \cup {NoWant}]
  /\ corr \in [Requests -> CorrIds \cup {NoId}]
  /\ poller \in [Requests -> {"none", "polling", "sending"}]
  /\ pollVal \in [Requests -> Addresses \cup {NoAddr}]
  /\ got \in [Requests -> Addresses \cup {NoAddr}]

FileTypes ==
  /\ answers \subseteq Results \cup {Malformed}
  /\ files \in [Addresses -> Filled \cup {NoObject}]
  /\ published \subseteq Addresses

\* Ids, addresses and wants are there where they are used, and a request that
\* is to be published has had its id generated.
HandlerInv == \A r \in Requests :
  /\ pc[r] # "idle" => want[r] # NoWant
  /\ pc[r] = "publish" \/ poller[r] # "none" => corr[r] # NoId
  /\ pc[r] = "publish" => issued[corr[r]] # NoWant
  /\ poller[r] = "sending" => pollVal[r] # NoAddr
  /\ pc[r] = "read" => got[r] # NoAddr

\* The address of a file is nowhere in the server before the broker has it.
AddressInv ==
  /\ \A a \in published : files[a] # NoObject
  /\ \A m \in answers \ {Malformed} : m.address \in published
  /\ \A c \in CorrIds :
       reqMap[c] # NoEntry => reqMap[c].address \in published \cup {NoAddr}
  /\ \A r \in Requests : /\ pollVal[r] \in published \cup {NoAddr}
                         /\ got[r] \in published \cup {NoAddr}

\* What is about to be published was made for the request in hand.
ResultInv ==
  step["decompression"] = "publish" =>
    /\ result \in Addresses \ published
    /\ files[result] \in {current["decompression"].msg.want.object, Empty}

\* A response the broker has accepted waits for the server, or has come to
\* where the entry was: its id is never generated again.
AnswerInv ==
  /\ \A m \in queued : issued[m.corrId] # NoWant
  /\ \A m \in DecompressMsgs : responses[m] >= 1 =>
       /\ m \in queued
       /\ ~Unanswered(m) \/ \E a \in answers \ {Malformed} : a.corrId = m.corrId

ServerInv == TableTypes /\ HandlerTypes /\ FileTypes /\ HandlerInv /\ AddressInv

SystemInv == IInv /\ ServerInv /\ ResultInv /\ AnswerInv

LEMMA SystemInvInit == SystemInit => SystemInv
<1> SUFFICES ASSUME SystemInit PROVE SystemInv
  OBVIOUS
<1>1. IInv
  BY InvInit DEF SystemInit
<1>2. ServerInv
  BY DEF SystemInit, Server!Init, ServerInv, TableTypes, HandlerTypes, FileTypes,
         HandlerInv, AddressInv
<1>3. ResultInv /\ AnswerInv
  BY QueueConstants DEF SystemInit, Init, ResultInv, AnswerInv, Msgs
<1> QED
  BY <1>1, <1>2, <1>3 DEF SystemInv

-----------------------------------------------------------------------------
(* The steps.                                                              *)

QuietWorker == UNCHANGED <<workerVars, result, published>>
QuietServer == UNCHANGED <<serverVars, bound, answers>>

\* The server's steps that do not change its table, nor read a file or publish.
Handles(r) ==
  \/ Server!Arrive(r) \/ Server!PollHit(r) \/ Server!PublishFails(r)
  \/ Server!Receive(r) \/ Server!WaitTimeout(r)
  \/ Server!ReadResultFails(r)

LEMMA SystemStepKinds ==
  ASSUME [SystemNext]_systemVars
  PROVE  \/ QuietWorker /\ \E r \in Requests :
              Handles(r) \/ Server!GetOrCreateRequest(r) \/ Server!ReadResult(r)
         \/ QuietWorker /\ \E m \in answers \ {Malformed} : Server!ConsumeResponse(m)
         \/ QuietWorker /\ (Server!ChannelCloses \/ Server!ConsumeMalformed
                              \/ Server!WorkerStarts)
         \/ QuietWorker /\ Server!Restart
         \/ \E r \in Requests : ServerPublishes(r)
         \/ Delivers \/ CompressionConsumer \/ TakesOrGivesUp
         \/ WorkerChannelCloses \/ WritesResult \/ PublishesResult \/ LosesResult
         \/ WorkerRestarts
         \/ UNCHANGED systemVars
BY DEF SystemNext, ServerSteps, ServerConsumes, ServerHandles, WorkerStarts,
       DecompressionConsumer, QuietWorker, Handles

\* GetOrCreateRequest finds no entry, so it makes one.
Creates(r) ==
  /\ pc[r] = "lookup"
  /\ Server!Create(r)
  /\ UNCHANGED <<want, pollVal, got, content, serverOpen, bound, Requested,
                 answers, files, restarts, sent>>

LEMMA NothingMatches ==
  ASSUME SystemInv, NEW w PROVE Server!Matching(w) = {} /\ Client!Matching(w) = {}
<1>1. ASSUME NEW c \in CorrIds, reqMap[c] # NoEntry, reqMap[c].want # NoWant
      PROVE  reqMap[c].want.object.key # c
  <2>1. reqMap[c] \in Entries
    BY <1>1 DEF SystemInv, ServerInv, TableTypes
  <2>2. reqMap[c].want \in Wants
    BY <1>1, <2>1 DEF Entries
  <2>3. reqMap[c].want.object \in Objects
    BY <2>2 DEF Wants
  <2> QED
    BY <2>3, KeysAreNotIds
<1> QED
  BY <1>1 DEF Server!Matching, Client!Matching

LEMMA ServerCreates ==
  ASSUME SystemInv, NEW r \in Requests, Server!GetOrCreateRequest(r)
  PROVE  Creates(r)
BY NothingMatches DEF Server!GetOrCreateRequest, Creates, Server!brokerVars

\* The messages of the worker's queues are those the server can publish.
LEMMA MessagesAre ==
  /\ Msgs = [corrId : CorrIds, want : Wants]
  /\ \A m \in DecompressMsgs : m.want.kind = "decompress"
  /\ BadMsgs = {} /\ ~BadAcknowledged
<1>1. \A w \in Wants : w \in [object : Objects, kind : {"compress"}]
                       \/ w \in [object : Objects, kind : {"decompress"}]
  BY DEF Wants
<1>2. \A k \in {"compress", "decompress"} : [object : Objects, kind : {k}] \subseteq Wants
  BY DEF Wants
<1>3. ASSUME NEW m \in [corrId : CorrIds, want : Wants] PROVE m \in Msgs
  BY <1>1, QueuesAreTheServers DEF Msgs, RequestsOf
<1>4. ASSUME NEW m \in Msgs PROVE m \in [corrId : CorrIds, want : Wants]
  BY <1>2, QueuesAreTheServers DEF Msgs, RequestsOf
<1>5. \A m \in DecompressMsgs : m.want.kind = "decompress"
  BY QueuesAreTheServers DEF RequestsOf
<1> QED
  BY <1>3, <1>4, <1>5, QueuesAreTheServers DEF BadAcknowledged

\* Every step is one of the worker's, or leaves it alone.
LEMMA WorkerSteps ==
  ASSUME SystemInv, [SystemNext]_systemVars
  PROVE  [Next]_vars
<1>1. ASSUME NEW r \in Requests, ServerPublishes(r) PROVE [Next]_vars
  <2>1. pc[r] = "publish"
    BY <1>1 DEF ServerPublishes, Server!Publish
  <2>2. corr[r] \in CorrIds /\ want[r] \in Wants
    BY <2>1 DEF SystemInv, ServerInv, HandlerTypes, HandlerInv
  <2>3. Server!Message(r) \in Msgs
    BY <2>2, MessagesAre DEF Server!Message
  <2> QED
    BY <1>1, <2>3 DEF ServerPublishes, Next, workerVars
<1>2. QuietWorker \/ UNCHANGED systemVars => UNCHANGED vars
  BY DEF QuietWorker, systemVars, workerVars
<1>3. ASSUME Delivers PROVE Next
  <2>1. PICK m \in ready : Deliver(m)
    BY <1>3 DEF Delivers
  <2>2. m \in Msgs
    BY DEF SystemInv, IInv, Invs, TypeOK, BrokerTypes
  <2> QED
    BY <2>1, <2>2 DEF Next
<1>4. ASSUME CompressionConsumer \/ TakesOrGivesUp \/ WorkerChannelCloses
               \/ WritesResult \/ PublishesResult \/ LosesResult \/ WorkerRestarts
      PROVE  Next
  BY <1>4 DEF CompressionConsumer, TakesOrGivesUp, WorkerChannelCloses,
              WritesResult, PublishesResult, LosesResult, WorkerRestarts, Next,
              Decompression
<1> QED
  BY <1>1, <1>2, <1>3, <1>4, SystemStepKinds

-----------------------------------------------------------------------------
(* The worker, as the server's module sees it.                             *)

\* A message that is delivered stays with the broker; one by one they leave,
\* each with an answer of the worker that holds it.
LEMMA LeavesAlone ==
  ASSUME IInv, [Next]_vars, \A m \in Msgs : ~Enqueue(m)
  PROVE  Requested' = Requested \/ \E m \in Requested : Requested' = Requested \ {m}
<1> USE DEF Requested
<1>1. /\ ready \subseteq queued /\ queued \subseteq Msgs /\ Held \cap ready = {}
      /\ \A d, e \in unacked : d.msg = e.msg => d = e
  BY DEF IInv, Invs, TypeOK, BrokerTypes
<1>2. ASSUME LoseChannel PROVE Requested' = Requested
  BY <1>2 DEF LoseChannel, Held
<1>3. ASSUME UNCHANGED brokerVars PROVE Requested' = Requested
  BY <1>3 DEF brokerVars, Held
<1>4. ASSUME NEW m \in Msgs, Deliver(m) PROVE Requested' = Requested
  <2>1. PICK d : d.msg = m /\ unacked' = unacked \cup {d}
    BY <1>4, NewKnown DEF IInv, Invs
  <2>2. Held' = Held \cup {m}
    BY <2>1 DEF Held
  <2> QED
    BY <1>4, <2>2 DEF Deliver
<1>5. CASE Restart
  BY <1>5 DEF Restart, Held, IInv, Invs, TagsInv
<1>6. ASSUME NEW q \in Consumers, Settle(q)
      PROVE  Requested' = Requested \/ \E m \in Requested : Requested' = Requested \ {m}
  <2>1. ASSUME current[q] \in unacked, unacked' = unacked \ {current[q]}
        PROVE  Held' = Held \ {current[q].msg} /\ current[q].msg \in Held
    BY <1>1, <2>1 DEF Held
  <2>2. verdict[q] # "ackMultiple"
    BY MessagesAre DEF IInv, Invs, VerdictInv, VerdictRight
  <2> QED
    BY <1>1, <1>2, <1>3, <1>6, <2>1, <2>2, SettleKinds DEF IInv, Invs
<1> QED
  BY <1>2, <1>3, <1>4, <1>5, <1>6, StepKinds, ChoosingKeeps
     DEF ChannelCloses, ResponseLost, SkipBadCompression, TakeBadDecompression,
         Take, LoopEnds, vars

\* The worker's own steps publish no request.
WorkerActs ==
  \/ Delivers \/ CompressionConsumer \/ TakesOrGivesUp \/ WorkerChannelCloses
  \/ WritesResult \/ LosesResult \/ WorkerRestarts \/ PublishesResult

LEMMA WorkerPublishesNone ==
  ASSUME WorkerActs PROVE queued' = queued
BY DEF WorkerActs, Delivers, CompressionConsumer, TakesOrGivesUp,
       WorkerChannelCloses, WritesResult, LosesResult, WorkerRestarts,
       PublishesResult, Deliver, Compression, Take, SkipBadCompression,
       CompressionEnds, Settle, LoopEnds, DecompressionFails, ChannelCloses,
       DecompressionEnds, ResponseLost, Restart, ResponseAccepted, brokerVars

\* Of the files the server can know only PublishesResult changes one.
LEMMA PublishedFilesKept ==
  ASSUME SystemInv, published' = published,
         files' = files \/ WritesResult
  PROVE  PublishedFiles' = PublishedFiles
<1>1. ASSUME NEW a \in published, a \in Addresses PROVE files'[a] = files[a]
  <2>1. CASE files' = files
    BY <2>1
  <2>2. CASE WritesResult
    BY <1>1, <2>2 DEF WritesResult, SystemInv, ServerInv, AddressInv, FileTypes
  <2> QED
    BY <2>1, <2>2
<1> QED
  BY <1>1 DEF PublishedFiles

\* What ConsumeDecompression publishes is its request's, which the broker holds.
LEMMA PublishedForRequest ==
  ASSUME SystemInv, PublishesResult
  PROVE  LET m == current["decompression"].msg IN
         /\ m \in Requested /\ m \in DecompressMsgs /\ m \in queued
         /\ result \in Addresses \ published
         /\ files[result] \in {m.want.object, Empty}
         /\ Response(m) \in Results /\ Response(m) # Malformed
         /\ Response(m).corrId = m.corrId /\ Response(m).address = result
<1> DEFINE d == current["decompression"]
<1>1. /\ "decompression" \in Consumers
      /\ step["decompression"] = "publish" /\ chanOpen
  BY DEF PublishesResult, ResponseAccepted, Consumers
<1>2. d # NoDelivery
  BY <1>1 DEF SystemInv, IInv, Invs, TypeOK, ConsumerTypes
<1>3. d \in Deliveries /\ d.msg \in Msgs /\ d \in Local("decompression")
  BY <1>1, <1>2, CurrentTypes DEF SystemInv, IInv, Invs
<1>4. d \in unacked
  BY <1>1, <1>3 DEF SystemInv, IInv, Invs, AwaitedInv
<1>5. QueueOf(d.msg) = "decompression" /\ d.msg \in queued
  BY <1>1, <1>3 DEF SystemInv, IInv, Invs, TagsInv, Known
<1>6. d.msg \in Requested /\ d.msg \in DecompressMsgs
  BY <1>3, <1>4, <1>5, QueueConstants DEF Requested, Held
<1>7. result \in Addresses \ published /\ files[result] \in {d.msg.want.object, Empty}
  BY <1>1 DEF SystemInv, ResultInv
<1>8. d.msg.corrId \in CorrIds
  BY <1>3, MessagesAre
<1>9. Response(d.msg) \in Results
  BY <1>7, <1>8 DEF Response, Results
<1>10. Response(d.msg) # Malformed
  BY <1>9, ServerNullsAreOutside DEF Results
<1> QED
  BY <1>5, <1>6, <1>7, <1>9, <1>10 DEF Response

-----------------------------------------------------------------------------
(* The refinement.                                                         *)

LEMMA InitImplements == SystemInit => Client!Init
<1> SUFFICES ASSUME SystemInit PROVE Client!Init
  OBVIOUS
<1>1. Server!Init /\ published = {}
  BY DEF SystemInit
<1>2. PublishedFiles = [a \in Addresses |-> NoObject]
  BY <1>1 DEF PublishedFiles
<1> QED
  BY <1>1, <1>2 DEF Server!Init, Client!Init

\* The server's own steps are the same in both.
LEMMA ServerImplements ==
  ASSUME SystemInv, [SystemNext]_systemVars, ~WorkerActs
  PROVE  [Client!Next]_Client!vars
<1> USE DEF Client!serverVars, Client!brokerVars, Client!ghostVars,
            Server!serverVars, Server!brokerVars, Server!ghostVars
<1>1. ASSUME QuietWorker, files' = files PROVE PublishedFiles' = PublishedFiles
  BY <1>1, PublishedFilesKept DEF QuietWorker
<1>2. ASSUME QuietWorker, NEW r \in Requests, Handles(r) PROVE Client!Next
  <2>1. PublishedFiles' = PublishedFiles
    BY <1>1, <1>2
       DEF Handles, Server!Arrive, Server!PollHit,
           Server!PublishFails, Server!Receive, Server!WaitTimeout,
           Server!ReadResultFails
  <2>2. CASE Server!Arrive(r)
    BY <2>1, <2>2 DEF Server!Arrive, Client!Arrive, Server!Goto, Client!Goto,
       Server!Wants, Client!Wants, Server!Kinds, Client!Kinds, Client!Next
  <2>3. CASE Server!PollHit(r)
    BY <2>1, <2>3 DEF Server!PollHit, Client!PollHit, Client!Next
  <2>4. CASE Server!PublishFails(r) \/ Server!WaitTimeout(r) \/ Server!ReadResultFails(r)
    BY <2>1, <2>4 DEF Server!PublishFails, Client!PublishFails,
       Server!WaitTimeout, Client!WaitTimeout, Server!ReadResultFails,
       Client!ReadResultFails, Server!Goto, Client!Goto, Client!Next, Client!Handler
  <2>5. CASE Server!Receive(r)
    BY <2>1, <2>5 DEF Server!Receive, Client!Receive, Server!Goto, Client!Goto,
       Client!Next, Client!Handler
  <2> QED
    BY <1>2, <2>2, <2>3, <2>4, <2>5 DEF Handles
<1>3. ASSUME QuietWorker, NEW r \in Requests, Server!GetOrCreateRequest(r)
      PROVE  Client!Next
  <2>1. Creates(r)
    BY <1>3, ServerCreates
  <2>2. PublishedFiles' = PublishedFiles
    BY <1>1, <1>3, <2>1 DEF Creates
  <2>3. Client!Create(r)
    BY <2>1 DEF Creates, Server!Create, Client!Create, Server!Goto, Client!Goto
  <2>4. Client!GetOrCreateRequest(r)
    BY <2>1, <2>2, <2>3, NothingMatches DEF Creates, Client!GetOrCreateRequest
  <2> QED
    BY <2>4 DEF Client!Next, Client!Handler
<1>4. ASSUME QuietWorker, NEW r \in Requests, Server!ReadResult(r)
      PROVE  Client!Next
  <2>1. PublishedFiles' = PublishedFiles
    BY <1>1, <1>4 DEF Server!ReadResult
  <2>2. got[r] \in published /\ got[r] \in Addresses
    BY <1>4 DEF Server!ReadResult, SystemInv, ServerInv, HandlerInv, AddressInv,
                FileTypes
  <2>3. PublishedFiles[got[r]] = files[got[r]]
    BY <2>2 DEF PublishedFiles
  <2> QED
    BY <1>4, <2>1, <2>3 DEF Server!ReadResult, Client!ReadResult, Server!Goto,
       Client!Goto, Client!Next, Client!Handler
<1>5. ASSUME QuietWorker, NEW m \in answers \ {Malformed}, Server!ConsumeResponse(m)
      PROVE  Client!Next
  <2>1. PublishedFiles' = PublishedFiles
    BY <1>1, <1>5 DEF Server!ConsumeResponse
  <2> QED
    BY <1>5, <2>1 DEF Server!ConsumeResponse, Client!ConsumeResponse, Client!Next
<1>6. ASSUME QuietWorker,
             Server!ChannelCloses \/ Server!ConsumeMalformed \/ Server!WorkerStarts
      PROVE  Client!Next
  <2>1. PublishedFiles' = PublishedFiles
    BY <1>1, <1>6 DEF Server!ChannelCloses, Server!ConsumeMalformed,
       Server!WorkerStarts
  <2> QED
    BY <1>6, <2>1 DEF Server!ChannelCloses, Client!ChannelCloses,
       Server!ConsumeMalformed, Client!ConsumeMalformed, Server!WorkerStarts,
       Client!WorkerStarts, Client!Next
<1>7. ASSUME QuietWorker, Server!Restart PROVE Client!Next
  <2>1. PublishedFiles' = PublishedFiles
    BY <1>1, <1>7 DEF Server!Restart
  <2> QED
    BY <1>7, <2>1 DEF Server!Restart, Client!Restart, Server!Active, Client!Active,
       Client!Next
<1>8. ASSUME NEW r \in Requests, ServerPublishes(r) PROVE Client!Next
  <2>1. PublishedFiles' = PublishedFiles
    BY <1>8, PublishedFilesKept DEF ServerPublishes, Server!Publish
  <2> QED
    BY <1>8, <2>1 DEF ServerPublishes, Server!Publish, Client!Publish,
       Server!Message, Client!Message, Server!Proceed, Client!Proceed,
       Server!Goto, Client!Goto, Client!Next, Client!Handler
<1>9. ASSUME UNCHANGED systemVars PROVE UNCHANGED Client!vars
  <2>1. PublishedFiles' = PublishedFiles /\ Requested' = Requested
    BY <1>9 DEF systemVars, workerVars, vars, brokerVars, PublishedFiles,
       Requested, Held
  <2> QED
    BY <1>9, <2>1 DEF systemVars, serverVars, Client!vars
<1> QED
  BY <1>2, <1>3, <1>4, <1>5, <1>6, <1>7, <1>8, <1>9, SystemStepKinds DEF WorkerActs

\* The worker's come down to three: nothing, a message that leaves, a response.
LEMMA WorkerImplements ==
  ASSUME SystemInv, [SystemNext]_systemVars, WorkerActs
  PROVE  [Client!Next]_Client!vars
<1> USE DEF Client!serverVars, Client!brokerVars, Client!ghostVars
<1>1. Requested' = Requested \/ \E m \in Requested : Requested' = Requested \ {m}
  <2>1. \A m \in Msgs : ~Enqueue(m)
    BY WorkerPublishesNone DEF Enqueue
  <2> QED
    BY <2>1, WorkerSteps, LeavesAlone DEF SystemInv
<1>2. CASE PublishesResult
  <2> DEFINE m == current["decompression"].msg
             a == result
             o == files[result]
  <2>1. /\ m \in Requested /\ m \in DecompressMsgs /\ a \in Addresses \ published
        /\ o \in {m.want.object, Empty}
    BY <1>2, PublishedForRequest
  <2>2. m.want.kind = "decompress"
    BY <2>1, MessagesAre
  <2>3. PublishedFiles[a] = NoObject
    BY <2>1 DEF PublishedFiles
  <2>4. PublishedFiles' = [PublishedFiles EXCEPT ![a] = o]
    BY <1>2, <2>1 DEF PublishesResult, PublishedFiles
  <2>5. Requested' = Requested
    BY <1>2 DEF PublishesResult, ResponseAccepted, brokerVars, Requested, Held
  <2>6. answers' = answers \cup {[corrId |-> m.corrId, address |-> a]}
    BY <1>2 DEF PublishesResult, Response
  <2>7. UNCHANGED <<serverVars, bound>>
    BY <1>2 DEF PublishesResult
  <2> HIDE DEF m, a, o
  <2>8. Client!WorkerResponds(m, a)
    BY <2>1, <2>2, <2>3, <2>4, <2>5, <2>6, <2>7
       DEF Client!WorkerResponds, serverVars
  <2> QED
    BY <2>1, <2>8 DEF Client!Next
<1>3. CASE ~PublishesResult
  <2>1. QuietServer /\ published' = published /\ (files' = files \/ WritesResult)
    BY <1>3 DEF WorkerActs, QuietServer, Delivers, CompressionConsumer,
       TakesOrGivesUp, WorkerChannelCloses, WritesResult, LosesResult,
       WorkerRestarts
  <2>2. PublishedFiles' = PublishedFiles
    BY <2>1, PublishedFilesKept
  <2>3. CASE Requested' = Requested
    BY <2>1, <2>2, <2>3 DEF QuietServer, serverVars, Client!vars
  <2>4. ASSUME NEW m \in Requested, Requested' = Requested \ {m}
        PROVE  Client!Next
    BY <2>1, <2>2, <2>4 DEF QuietServer, serverVars, Client!WorkerSettles, Client!Next
  <2> QED
    BY <1>1, <2>3, <2>4
<1> QED
  BY <1>2, <1>3

-----------------------------------------------------------------------------
(* The invariant is kept.                                                  *)

\* A worker's step leaves the server alone, but for a response.
LEMMA WorkerActsLeave ==
  ASSUME WorkerActs
  PROVE  /\ UNCHANGED <<serverVars, bound>>
         /\ PublishesResult \/ UNCHANGED <<answers, published>>
         /\ files' = files \/ WritesResult
BY DEF WorkerActs, Delivers, CompressionConsumer, TakesOrGivesUp,
       WorkerChannelCloses, WritesResult, PublishesResult, LosesResult,
       WorkerRestarts

\* And the server's leaves the worker alone, but for a new message.
LEMMA ServerActsLeave ==
  ASSUME [SystemNext]_systemVars, ~WorkerActs
  PROVE  /\ UNCHANGED <<files, result, published, consumerVars, ghostVars>>
         /\ queued' = queued \/ \E r \in Requests : ServerPublishes(r)
<1>1. ASSUME NEW r \in Requests, ServerPublishes(r)
      PROVE  UNCHANGED <<files, result, published, consumerVars, ghostVars>>
  BY <1>1 DEF ServerPublishes, Server!Publish, Enqueue, workerVars, vars
<1>2. ASSUME QuietWorker
      PROVE  UNCHANGED <<result, published, consumerVars, ghostVars, queued>>
  BY <1>2 DEF QuietWorker, workerVars, vars, brokerVars
<1>3. ASSUME QuietWorker, ~ \E r \in Requests : ServerPublishes(r) PROVE files' = files
  BY <1>1, <1>3, SystemStepKinds
     DEF WorkerActs, Handles, Server!Arrive, Server!PollHit,
         Server!PublishFails, Server!Receive, Server!WaitTimeout,
         Server!ReadResultFails, Server!GetOrCreateRequest, Server!ReadResult,
         Server!ConsumeResponse, Server!ChannelCloses, Server!ConsumeMalformed,
         Server!WorkerStarts, Server!Restart, Server!brokerVars, systemVars
<1>4. CASE UNCHANGED systemVars
  BY <1>4 DEF systemVars, workerVars, vars, brokerVars
<1> QED
  BY <1>1, <1>2, <1>3, <1>4, SystemStepKinds DEF WorkerActs

LEMMA FilesKept ==
  ASSUME SystemInv, [SystemNext]_systemVars
  PROVE  /\ files' \in [Addresses -> Filled \cup {NoObject}]
         /\ published' \subseteq Addresses /\ published \subseteq published'
         /\ \A a \in published' : files'[a] # NoObject
<1> USE DEF SystemInv, ServerInv, FileTypes, AddressInv, Filled
<1>1. CASE files' = files /\ published' = published
  BY <1>1
<1>2. CASE WritesResult
  <2> DEFINE d == current["decompression"]
  <2>1. "decompression" \in Consumers /\ step["decompression"] = "work"
    BY <1>2 DEF WritesResult, DecompressionEnds, Consumers
  <2>2. d # NoDelivery
    BY <2>1 DEF IInv, Invs, TypeOK, ConsumerTypes
  <2>3. d.msg \in Msgs
    BY <2>1, <2>2, CurrentTypes DEF IInv, Invs
  <2>4. d.msg.want.object \in Objects
    BY <2>3, MessagesAre DEF Wants
  <2>5. PICK a \in Addresses, o \in {d.msg.want.object, Empty} :
             files[a] = NoObject /\ files' = [files EXCEPT ![a] = o]
    BY <1>2 DEF WritesResult
  <2>6. o \in Objects \cup {Empty}
    BY <2>4, <2>5
  <2> HIDE DEF d
  <2> QED
    BY <1>2, <2>5, <2>6 DEF WritesResult
<1>3. CASE PublishesResult
  <2> DEFINE d == current["decompression"]
  <2>1. /\ d.msg \in Requested /\ d.msg \in DecompressMsgs
        /\ result \in Addresses /\ files[result] \in {d.msg.want.object, Empty}
    BY <1>3, PublishedForRequest
  <2>2. d.msg \in Msgs
    BY <2>1 DEF Msgs
  <2>3. d.msg.want.object \in Objects
    BY <2>2, MessagesAre DEF Wants
  <2>4. files[result] # NoObject
    BY <2>1, <2>3, ServerNullsAreOutside
  <2> QED
    BY <1>3, <2>1, <2>4 DEF PublishesResult
<1> QED
  BY <1>1, <1>2, <1>3, WorkerActsLeave, ServerActsLeave

\* What each step of the server does to its variables; one lemma per invariant.
LEMMA TableTypesKept ==
  ASSUME SystemInv, [SystemNext]_systemVars PROVE TableTypes'
<1> USE DEF SystemInv, ServerInv, TableTypes
<1>1. ASSUME NEW r \in Requests, Server!GetOrCreateRequest(r) PROVE TableTypes'
  <2>1. want[r] \in Wants
    BY <1>1, ServerCreates DEF Creates, Server!Create, HandlerTypes, HandlerInv
  <2>2. [want |-> want[r], address |-> NoAddr] \in Entries
    BY <2>1 DEF Entries
  <2> QED
    BY <1>1, <2>1, <2>2, ServerCreates DEF Creates, Server!Create
<1>2. ASSUME NEW m \in answers \ {Malformed}, Server!ConsumeResponse(m)
      PROVE  TableTypes'
  <2>1. [want |-> NoWant, address |-> m.address] \in Entries /\ m.corrId \in CorrIds
    BY <1>2 DEF FileTypes, Results, Entries
  <2>2. reqMap' = reqMap \/ reqMap' = [reqMap EXCEPT ![m.corrId] =
                                         [want |-> NoWant, address |-> m.address]]
    BY <1>2 DEF Server!ConsumeResponse
  <2> QED
    BY <1>2, <2>1, <2>2 DEF Server!ConsumeResponse, Server!ghostVars
<1>3. CASE Server!Restart
  BY <1>3 DEF Server!Restart, Server!ghostVars
<1>4. CASE UNCHANGED <<reqMap, issued>>
  BY <1>4
<1> QED
  BY <1>1, <1>2, <1>3, <1>4, SystemStepKinds, WorkerActsLeave
     DEF WorkerActs, Handles, Server!Arrive, Server!PollHit,
         Server!PublishFails, Server!Receive, Server!WaitTimeout,
         Server!ReadResultFails, Server!ReadResult, Server!ChannelCloses,
         Server!ConsumeMalformed, Server!WorkerStarts, ServerPublishes,
         Server!Publish, Server!serverVars, Server!ghostVars, serverVars,
         systemVars

HandlerVars == <<pc, want, corr, poller, pollVal, got>>

LEMMA HandlerTypesKept ==
  ASSUME SystemInv, [SystemNext]_systemVars
  PROVE  HandlerTypes' /\ HandlerInv'
<1> USE DEF SystemInv, ServerInv, HandlerTypes, HandlerInv, TableTypes, Server!Goto
<1>1. ASSUME NEW r \in Requests, Server!Arrive(r) PROVE HandlerTypes' /\ HandlerInv'
  <2>1. PICK w \in Wants : want' = [want EXCEPT ![r] = w]
    BY <1>1 DEF Server!Arrive, Server!Wants, Server!Kinds, Wants
  <2>2. w # NoWant
    BY <2>1, ServerNullsAreOutside
  <2> QED
    BY <1>1, <2>1, <2>2 DEF Server!Arrive, Server!ghostVars
<1>2. ASSUME NEW r \in Requests, Server!PollHit(r)
      PROVE HandlerTypes' /\ HandlerInv'
  <2>1. corr[r] \in CorrIds
    BY <1>2 DEF Server!PollHit
  <2>2. reqMap[corr[r]].address \in Addresses
    BY <1>2, <2>1 DEF Server!PollHit, Entries
  <2>3. /\ poller' = [poller EXCEPT ![r] = "sending"]
        /\ pollVal' = [pollVal EXCEPT ![r] = reqMap[corr[r]].address]
    BY <1>2 DEF Server!PollHit
  <2> QED
    BY <1>2, <2>2, <2>3, ServerNullsAreOutside DEF Server!PollHit, Server!ghostVars
<1>3. ASSUME NEW r \in Requests, Server!GetOrCreateRequest(r)
      PROVE HandlerTypes' /\ HandlerInv'
  <2>1. PICK c \in CorrIds : /\ issued' = [issued EXCEPT ![c] = want[r]]
                             /\ corr' = [corr EXCEPT ![r] = c]
                             /\ issued[c] = NoWant
    BY <1>3, ServerCreates DEF Creates, Server!Create
  <2>2. want[r] # NoWant
    BY <1>3, ServerCreates DEF Creates, Server!Create
  <2>3. \A s \in Requests :
             corr[s] \in CorrIds /\ issued[corr[s]] # NoWant
               => issued'[corr[s]] # NoWant
    BY <2>1, <2>2
  <2> QED
    BY <1>3, <2>1, <2>2, <2>3, ServerNullsAreOutside, ServerCreates DEF Creates, Server!Create
<1>4. ASSUME NEW r \in Requests, Server!PublishFails(r) \/ Server!WaitTimeout(r)
               \/ Server!ReadResultFails(r) \/ Server!ReadResult(r)
      PROVE HandlerTypes' /\ HandlerInv'
  BY <1>4 DEF Server!PublishFails, Server!WaitTimeout, Server!ReadResultFails,
              Server!ReadResult, Server!ghostVars
<1>5. ASSUME NEW r \in Requests, Server!Receive(r)
      PROVE HandlerTypes' /\ HandlerInv'
  BY <1>5 DEF Server!Receive, Server!ghostVars
<1>6. ASSUME NEW r \in Requests, ServerPublishes(r)
      PROVE HandlerTypes' /\ HandlerInv'
  BY <1>6 DEF ServerPublishes, Server!Publish, Server!Proceed
<1>7. CASE Server!Restart
  BY <1>7 DEF Server!Restart, Server!Active, Server!ghostVars
<1>8. CASE UNCHANGED <<HandlerVars, issued>>
  BY <1>8 DEF HandlerVars
<1> QED
  BY <1>1, <1>2, <1>3, <1>4, <1>5, <1>6, <1>7, <1>8, SystemStepKinds,
     WorkerActsLeave
     DEF WorkerActs, Handles, Server!ConsumeResponse, Server!ChannelCloses,
         Server!ConsumeMalformed, Server!WorkerStarts, Server!serverVars,
         Server!ghostVars, serverVars, HandlerVars, systemVars

LEMMA AnswersTyped ==
  ASSUME SystemInv, [SystemNext]_systemVars
  PROVE  answers' \subseteq Results \cup {Malformed}
<1> USE DEF SystemInv, ServerInv, FileTypes
<1>1. CASE PublishesResult
  BY <1>1, PublishedForRequest DEF PublishesResult
<1>2. CASE answers' \subseteq answers
  BY <1>2
<1> QED
  BY <1>1, <1>2, SystemStepKinds, WorkerActsLeave
     DEF WorkerActs, Handles, Server!Arrive, Server!PollHit,
         Server!GetOrCreateRequest, Server!PublishFails, Server!Receive,
         Server!WaitTimeout, Server!ReadResultFails, Server!ReadResult,
         Server!ConsumeResponse, Server!ChannelCloses, Server!ConsumeMalformed,
         Server!WorkerStarts, Server!Restart, ServerPublishes, Server!Publish,
         Server!brokerVars, systemVars

LEMMA AddressKept ==
  ASSUME SystemInv, [SystemNext]_systemVars PROVE AddressInv'
<1> USE DEF SystemInv, ServerInv, TableTypes, HandlerTypes, AddressInv
<1> DEFINE Known2 == published' \cup {NoAddr}
<1>1. published \subseteq published' /\ \A a \in published' : files'[a] # NoObject
  BY FilesKept
<1>2. \A m \in answers' \ {Malformed} : m.address \in published'
  <2>1. CASE PublishesResult
    BY <1>1, <2>1, PublishedForRequest DEF PublishesResult
  <2>2. CASE answers' \subseteq answers
    BY <1>1, <2>2
  <2> QED
    BY <2>1, <2>2, SystemStepKinds, WorkerActsLeave
       DEF WorkerActs, Handles, Server!Arrive, Server!PollHit,
           Server!GetOrCreateRequest, Server!PublishFails, Server!Receive,
           Server!WaitTimeout, Server!ReadResultFails, Server!ReadResult,
           Server!ConsumeResponse, Server!ChannelCloses, Server!ConsumeMalformed,
           Server!WorkerStarts, Server!Restart, ServerPublishes, Server!Publish,
           Server!brokerVars, systemVars
<1>3. \A c \in CorrIds : reqMap'[c] # NoEntry => reqMap'[c].address \in Known2
  <2>1. ASSUME NEW r \in Requests, Server!GetOrCreateRequest(r), NEW c \in CorrIds,
               reqMap'[c] # NoEntry
        PROVE  reqMap'[c].address \in Known2
    <3>1. reqMap'[c] = reqMap[c] \/ reqMap'[c].address = NoAddr
      BY <2>1, ServerCreates DEF Creates, Server!Create
    <3> QED
      BY <1>1, <2>1, <3>1
  <2>2. ASSUME NEW m \in answers \ {Malformed}, Server!ConsumeResponse(m),
               NEW c \in CorrIds, reqMap'[c] # NoEntry
        PROVE  reqMap'[c].address \in Known2
    <3>1. reqMap'[c] = reqMap[c] \/ reqMap'[c].address = m.address
      BY <2>2 DEF Server!ConsumeResponse
    <3> QED
      BY <1>1, <2>2, <3>1
  <2>3. CASE Server!Restart
    BY <2>3 DEF Server!Restart
  <2>4. CASE reqMap' = reqMap
    BY <1>1, <2>4
  <2> HIDE DEF Known2
  <2> QED
    BY <2>1, <2>2, <2>3, <2>4, SystemStepKinds, WorkerActsLeave
       DEF WorkerActs, Handles, Server!Arrive, Server!PollHit,
           Server!PublishFails, Server!Receive, Server!WaitTimeout,
           Server!ReadResultFails, Server!ReadResult, Server!ChannelCloses,
           Server!ConsumeMalformed, Server!WorkerStarts, ServerPublishes,
           Server!Publish, Server!serverVars, serverVars, systemVars
<1>4. \A r \in Requests : pollVal'[r] \in Known2 /\ got'[r] \in Known2
  <2>1. ASSUME NEW r \in Requests, Server!PollHit(r)
        PROVE  \A s \in Requests : pollVal'[s] \in Known2 /\ got'[s] \in Known2
    <3>1. corr[r] \in CorrIds /\ reqMap[corr[r]] # NoEntry
      BY <2>1 DEF Server!PollHit, HandlerInv
    <3>2. reqMap[corr[r]].address \in Known2
      BY <1>1, <3>1
    <3>3. /\ pollVal' = [pollVal EXCEPT ![r] = reqMap[corr[r]].address]
          /\ got' = got
      BY <2>1 DEF Server!PollHit
    <3> HIDE DEF Known2
    <3>4. \A s \in Requests : pollVal[s] \in Known2 /\ got[s] \in Known2
      BY <1>1 DEF Known2
    <3> QED
      BY <3>2, <3>3, <3>4
  <2>2. ASSUME NEW r \in Requests, Server!Receive(r)
        PROVE  \A s \in Requests : pollVal'[s] \in Known2 /\ got'[s] \in Known2
    BY <1>1, <2>2 DEF Server!Receive
  <2>3. CASE UNCHANGED <<pollVal, got>>
    BY <1>1, <2>3
  <2> HIDE DEF Known2
  <2> QED
    BY <2>1, <2>2, <2>3, SystemStepKinds, WorkerActsLeave
       DEF WorkerActs, Handles, Server!Arrive,
           Server!GetOrCreateRequest, Server!PublishFails, Server!WaitTimeout,
           Server!ReadResultFails, Server!ReadResult, Server!ConsumeResponse,
           Server!ChannelCloses, Server!ConsumeMalformed, Server!WorkerStarts,
           Server!Restart, ServerPublishes, Server!Publish, Server!serverVars,
           serverVars, systemVars
<1> QED
  BY <1>1, <1>2, <1>3, <1>4

LEMMA ServerInvKept ==
  ASSUME SystemInv, [SystemNext]_systemVars PROVE ServerInv'
BY TableTypesKept, HandlerTypesKept, FilesKept, AnswersTyped, AddressKept
   DEF ServerInv, FileTypes

\* The worker has a result in its hands from WritesResult to its answer.
LEMMA ResultKept ==
  ASSUME SystemInv, [SystemNext]_systemVars PROVE ResultInv'
<1> USE DEF SystemInv, ResultInv
<1> DEFINE q == "decompression"
<1>0. q \in Consumers /\ step \in [Consumers -> {"idle", "work", "publish", "settle", "ended"}]
  BY DEF Consumers, IInv, Invs, TypeOK, ConsumerTypes
<1>1. CASE ~WorkerActs
  BY <1>1, ServerActsLeave DEF consumerVars
<1>2. CASE WritesResult
  <2>1. UNCHANGED <<current, published>>
    BY <1>2 DEF WritesResult, DecompressionEnds
  <2>2. PICK a \in Addresses, o \in {current[q].msg.want.object, Empty} :
             files[a] = NoObject /\ files' = [files EXCEPT ![a] = o] /\ result' = a
    BY <1>2 DEF WritesResult
  <2>3. a \notin published /\ files'[a] = o
    BY <2>2 DEF ServerInv, AddressInv, FileTypes
  <2> QED
    BY <2>1, <2>2, <2>3
<1>3. CASE WorkerActs /\ ~WritesResult
  <2>1. ASSUME step'[q] = "publish"
        PROVE  /\ step[q] = "publish" /\ current'[q] = current[q]
               /\ UNCHANGED <<result, published, files>>
    <3>1. CASE Delivers \/ WorkerChannelCloses
      BY <2>1, <3>1 DEF Delivers, WorkerChannelCloses, Deliver, ChannelCloses,
         consumerVars
    <3>2. CASE CompressionConsumer
      <4>1. step'[q] = step[q] /\ current'[q] = current[q]
        BY <1>0, <3>2 DEF CompressionConsumer, Compression, Take,
           SkipBadCompression, CompressionEnds, Decide, Settle, LoopEnds,
           IInv, Invs, TypeOK, ConsumerTypes
      <4> QED
        BY <2>1, <3>2, <4>1 DEF CompressionConsumer
    <3>3. CASE TakesOrGivesUp
      BY <1>0, <2>1, <3>3 DEF TakesOrGivesUp, Take, DecompressionFails, Decide,
         Settle, LoopEnds
    <3>4. CASE PublishesResult \/ LosesResult
      BY <1>0, <2>1, <3>4 DEF PublishesResult, LosesResult, ResponseAccepted,
         ResponseLost, Decide
    <3>5. CASE WorkerRestarts
      BY <1>0, <2>1, <3>5 DEF WorkerRestarts, Restart
    <3> QED
      BY <1>3, <3>1, <3>2, <3>3, <3>4, <3>5 DEF WorkerActs
  <2> QED
    BY <2>1
<1> QED
  BY <1>1, <1>2, <1>3

\* The broker takes in a server's message, never another, and keeps its name.
LEMMA QueuedGrows ==
  ASSUME SystemInv, [SystemNext]_systemVars
  PROVE  /\ queued \subseteq queued'
         /\ \A m \in queued' : m \in queued \/ \E r \in Requests :
              ServerPublishes(r) /\ m = Server!Message(r)
<1>1. ASSUME NEW r \in Requests, ServerPublishes(r)
      PROVE  queued' = queued
               \/ queued' = queued \cup {Server!Message(r)}
  BY <1>1 DEF ServerPublishes, Enqueue, workerVars, vars, brokerVars
<1>2. CASE WorkerActs
  BY <1>2, WorkerPublishesNone
<1>3. CASE queued' = queued
  BY <1>3
<1> QED
  BY <1>1, <1>2, <1>3, ServerActsLeave

\* Ids are generated once; a generated one keeps its want.
LEMMA IssuedStays ==
  ASSUME SystemInv, [SystemNext]_systemVars, NEW c \in CorrIds, issued[c] # NoWant
  PROVE  issued'[c] = issued[c]
<1> USE DEF SystemInv, ServerInv, TableTypes
<1>1. ASSUME NEW r \in Requests, Server!GetOrCreateRequest(r) PROVE issued'[c] = issued[c]
  BY <1>1, ServerCreates DEF Creates, Server!Create
<1>2. CASE issued' = issued
  BY <1>2
<1> QED
  BY <1>1, <1>2, SystemStepKinds, WorkerActsLeave
     DEF WorkerActs, Handles, Server!Arrive, Server!PollHit,
         Server!PublishFails, Server!Receive, Server!WaitTimeout,
         Server!ReadResultFails, Server!ReadResult, Server!ConsumeResponse,
         Server!ChannelCloses, Server!ConsumeMalformed, Server!WorkerStarts,
         Server!Restart, ServerPublishes, Server!Publish, Server!ghostVars,
         serverVars, systemVars

LEMMA PublishedIssued ==
  ASSUME SystemInv, [SystemNext]_systemVars, NEW m \in queued'
  PROVE  m.corrId \in CorrIds /\ issued'[m.corrId] # NoWant
<1> USE DEF SystemInv
<1>1. CASE m \in queued
  <2>1. m \in Msgs /\ issued[m.corrId] # NoWant
    BY <1>1 DEF IInv, Invs, TypeOK, BrokerTypes, AnswerInv
  <2>2. m.corrId \in CorrIds
    BY <2>1, MessagesAre
  <2> QED
    BY <2>1, <2>2, IssuedStays
<1>2. ASSUME NEW r \in Requests, ServerPublishes(r),
             m = Server!Message(r)
      PROVE  m.corrId \in CorrIds /\ issued'[m.corrId] # NoWant
  <2>1. corr[r] \in CorrIds /\ issued[corr[r]] # NoWant
    BY <1>2 DEF ServerPublishes, Server!Publish, ServerInv, HandlerTypes, HandlerInv
  <2> QED
    BY <1>2, <2>1, IssuedStays DEF Server!Message
<1> QED
  BY <1>1, <1>2, QueuedGrows

\* The step that changes an entry with a generated id gives it its answer or
\* forgets it; no answer leaves the queue otherwise.
LEMMA AnsweredStays ==
  ASSUME SystemInv, [SystemNext]_systemVars, NEW m \in Msgs,
         issued[m.corrId] # NoWant,
         ~Unanswered(m) \/ \E a \in answers \ {Malformed} : a.corrId = m.corrId
  PROVE  ~Unanswered(m)' \/ \E a \in answers' \ {Malformed} : a.corrId = m.corrId
<1> USE DEF SystemInv, ServerInv, TableTypes, Unanswered
<1>0. m.corrId \in CorrIds
  BY MessagesAre
<1>1. ASSUME NEW r \in Requests, Server!GetOrCreateRequest(r)
      PROVE  reqMap'[m.corrId] = reqMap[m.corrId] /\ answers' = answers
  BY <1>0, <1>1, ServerCreates DEF Creates, Server!Create, Server!brokerVars
<1>2. ASSUME NEW a \in answers \ {Malformed}, Server!ConsumeResponse(a),
             a.corrId = m.corrId
      PROVE  ~Unanswered(m)'
  <2>1. a.address # NoAddr
    BY <1>2, ServerNullsAreOutside DEF FileTypes, Results
  <2> QED
    BY <1>0, <1>2, <2>1 DEF Server!ConsumeResponse
<1>3. ASSUME NEW a \in answers \ {Malformed}, Server!ConsumeResponse(a),
             a.corrId # m.corrId
      PROVE  /\ reqMap'[m.corrId] = reqMap[m.corrId]
             /\ \A b \in answers : b.corrId = m.corrId => b \in answers'
  BY <1>0, <1>3 DEF Server!ConsumeResponse
<1>4. CASE Server!Restart
  BY <1>0, <1>4 DEF Server!Restart
<1>5. CASE reqMap' = reqMap /\ answers \ {Malformed} \subseteq answers'
  BY <1>5
<1>6. CASE PublishesResult
  BY <1>5, <1>6 DEF PublishesResult, serverVars
<1> QED
  BY <1>1, <1>2, <1>3, <1>4, <1>5, <1>6, SystemStepKinds, WorkerActsLeave
     DEF WorkerActs, Handles, Server!Arrive, Server!PollHit,
         Server!PublishFails, Server!Receive, Server!WaitTimeout,
         Server!ReadResultFails, Server!ReadResult, Server!ChannelCloses,
         Server!ConsumeMalformed, Server!WorkerStarts, ServerPublishes,
         Server!Publish, Server!serverVars, Server!brokerVars, serverVars,
         systemVars

LEMMA AnswerKept ==
  ASSUME SystemInv, [SystemNext]_systemVars PROVE AnswerInv'
<1> USE DEF SystemInv
<1>1. \A m \in queued' : issued'[m.corrId] # NoWant
  BY PublishedIssued
<1>2. ASSUME NEW m \in DecompressMsgs, responses'[m] >= 1
      PROVE  /\ m \in queued'
             /\ ~Unanswered(m)' \/ \E a \in answers' \ {Malformed} : a.corrId = m.corrId
  <2>0. m \in Msgs
    BY DEF Msgs
  <2>1. CASE responses[m] >= 1
    <3>1. /\ m \in queued /\ issued[m.corrId] # NoWant
          /\ ~Unanswered(m) \/ \E a \in answers \ {Malformed} : a.corrId = m.corrId
      BY <2>1 DEF AnswerInv
    <3> QED
      BY <2>0, <3>1, QueuedGrows, AnsweredStays
  <2>2. CASE ~(responses[m] >= 1)
    <3>1. /\ responses[m] \in Nat /\ ResponseAccepted
          /\ current["decompression"].msg = m /\ responses'[m] # responses[m]
      BY <1>2, <2>0, <2>2, WorkerSteps, ResponsesGrow DEF IInv
    <3>2. PublishesResult
      <4>1. CASE ~WorkerActs
        BY <3>1, <4>1, ServerActsLeave DEF ghostVars
      <4>2. CASE WorkerActs
        <5>1. step["decompression"] = "publish" /\ "decompression" \in Consumers
          BY <3>1 DEF ResponseAccepted, Consumers
        <5> QED
          BY <3>1, <4>2, <5>1
             DEF WorkerActs, Delivers, CompressionConsumer, TakesOrGivesUp,
                 WorkerChannelCloses, WritesResult, LosesResult, WorkerRestarts,
                 Deliver, Compression, Take, SkipBadCompression, CompressionEnds,
                 Settle, LoopEnds, DecompressionFails, ChannelCloses,
                 DecompressionEnds, ResponseLost, Restart, ghostVars
      <4> QED
        BY <4>1, <4>2
    <3>3. m \in queued /\ Response(m) # Malformed /\ Response(m).corrId = m.corrId
      BY <3>1, <3>2, PublishedForRequest
    <3>4. Response(m) \in answers'
      BY <3>1, <3>2 DEF PublishesResult
    <3> QED
      BY <3>3, <3>4, QueuedGrows
  <2> QED
    BY <2>1, <2>2
<1> QED
  BY <1>1, <1>2 DEF AnswerInv

LEMMA SystemInvKept ==
  ASSUME SystemInv, [SystemNext]_systemVars PROVE SystemInv'
<1>1. IInv'
  BY WorkerSteps, InvKept DEF SystemInv
<1> QED
  BY <1>1, ServerInvKept, ResultKept, AnswerKept DEF SystemInv

-----------------------------------------------------------------------------
(* The theorems.                                                           *)

\* Ids, wants, addresses and files agree between the two processes and the
\* broker in every reachable state: AMQPClient's tables, AMQPWorker's tags and
\* what neither module can say alone.
THEOREM SystemConsistent == SystemSpec => []SystemInv
<1>1. SystemInv /\ [SystemNext]_systemVars => SystemInv'
  BY SystemInvKept
<1> QED
  BY <1>1, SystemInvInit, PTL DEF SystemSpec

\* An entry of the server's table that waits for a request the broker no longer
\* holds has its answer on the way, or the worker failed at that request
\* (ConsumeDecompression rejects it and sends no response): no lost channel,
\* redelivery or restart of either process takes the answer away.
THEOREM LossHasCause == SystemSpec => []LostHasCause
<1>1. SystemInv => LostHasCause
  <2> SUFFICES ASSUME SystemInv, NEW m \in DecompressMsgs,
                      m \in queued \ Requested, Unanswered(m),
                      outcome[m] # "failed"
               PROVE  \E a \in answers \ {Malformed} : a.corrId = m.corrId
    BY DEF LostHasCause
  <2> USE DEF SystemInv, IInv
  <2>1. m \in Msgs \ BadMsgs /\ m \in DecompressMsgs \ BadMsgs /\ ~BadAcknowledged
    BY MessagesAre DEF Msgs
  <2>2. Gone(m)
    BY DEF Gone, Requested
  <2>3. outcome[m] = "done"
    BY <2>1, <2>2 DEF GoneOnlyAfterHandling
  <2>4. responses[m] >= 1
    BY <2>1, <2>2, <2>3 DEF ResponseBeforeAck
  <2> QED
    BY <2>4 DEF AnswerInv
<1> QED
  BY <1>1, SystemConsistent, PTL

\* AMQPWorker behind AMQPClient does what AMQPClient lets its workers do, and
\* nothing else: the refinement System_refines checks on a small instance.  So
\* what AMQPClientProofs proves of the server holds of the two processes
\* together.
THEOREM WorkerRefinesEnvironment == SystemSpec => ServerSpec
<1>1. SystemInv /\ [SystemNext]_systemVars => [Client!Next]_Client!vars
  BY ServerImplements, WorkerImplements
<1> QED
  BY <1>1, InitImplements, SystemConsistent, PTL
     DEF SystemSpec, ServerSpec, Client!Spec
=============================================================================
