----------------------------- MODULE AMQPWorker -----------------------------
(***************************************************************************)
(* The worker process (internal/controller/rmq/amqp_worker.go): two        *)
(* consumer goroutines that share one AMQP channel, one for each request   *)
(* queue, and the broker as far as that channel sees it.                   *)
(*                                                                         *)
(* The worker never calls Qos, so the broker delivers all it has; each     *)
(* delivery gets the channel's next tag and waits in its consumer's buffer. *)
(* A channel that closes, for whatever reason, gives the unacknowledged    *)
(* deliveries back to their queues.  Queue order is left open: requeued    *)
(* messages, other workers and other publishers change it anyway.          *)
(***************************************************************************)
EXTENDS Naturals, Sequences

CONSTANTS
  CompressMsgs,   \* messages of the queue compress_request
  DecompressMsgs, \* messages of the queue decompress_request
  BadMsgs,        \* those of them whose body json.Unmarshal refuses
  MaxTag,         \* bound on the deliveries of one channel
  MaxCloses,      \* bound on channels lost to the network or a crash
  NoDelivery

Msgs == CompressMsgs \cup DecompressMsgs

ASSUME QueuesAreApart ==
  /\ CompressMsgs \cap DecompressMsgs = {}
  /\ BadMsgs \subseteq Msgs

ASSUME BoundsAreNat == MaxTag \in Nat /\ MaxCloses \in Nat

Deliveries == [tag : 1 .. MaxTag, msg : Msgs]

ASSUME NoDeliveryIsNone == NoDelivery \notin Deliveries

Consumers == {"compression", "decompression"}

VARIABLES
  queued,   \* messages the two queues have ever taken in
  ready,    \* those in the queues now, to be delivered
  unacked,  \* deliveries of the open channel the broker waits for
  nextTag,  \* the tag of the channel's next delivery
  chanOpen, \* the channel is open
  closes,   \* how many channels were lost
  buffer,   \* the deliveries each consumer has yet to take
  step,     \* where each consumer's loop stands
  current,  \* the delivery it handles
  verdict,  \* the answer it will give for it
  outcome,  \* ghost: how the last handling of each message ended
  responses \* how many responses to each message the broker has accepted

brokerVars   == <<queued, ready, unacked, nextTag, chanOpen, closes>>
consumerVars == <<buffer, step, current, verdict>>
ghostVars    == <<outcome, responses>>
vars == <<brokerVars, consumerVars, ghostVars>>

QueueOf(m) == IF m \in CompressMsgs THEN "compression" ELSE "decompression"

Held == {d.msg : d \in unacked}

BrokerTypes ==
  /\ queued \subseteq Msgs
  /\ ready \subseteq queued
  /\ unacked \subseteq Deliveries
  /\ nextTag \in 1 .. MaxTag + 1
  /\ chanOpen \in BOOLEAN
  /\ closes \in Nat
  /\ Held \subseteq queued \ ready
  /\ \A d, e \in unacked : d.tag = e.tag \/ d.msg = e.msg => d = e

ConsumerTypes ==
  /\ buffer \in [Consumers -> Seq(Deliveries)]
  /\ step \in [Consumers -> {"idle", "work", "publish", "settle", "ended"}]
  /\ current \in [Consumers -> Deliveries \cup {NoDelivery}]
  /\ verdict \in [Consumers -> {"none", "ack", "ackMultiple", "requeue", "drop"}]
  /\ \A q \in Consumers :
       /\ step[q] \in {"work", "publish", "settle"} <=> current[q] # NoDelivery
       /\ step[q] = "settle" <=> verdict[q] # "none"

GhostTypes ==
  /\ outcome \in [Msgs -> {"none", "done", "failed", "retry"}]
  /\ responses \in [Msgs -> Nat]

TypeOK == BrokerTypes /\ ConsumerTypes /\ GhostTypes

\* StartConsumer has declared the queues and started both consumers.
Init ==
  /\ queued = {}
  /\ ready = {}
  /\ unacked = {}
  /\ nextTag = 1
  /\ chanOpen = TRUE
  /\ closes = 0
  /\ buffer = [q \in Consumers |-> << >>]
  /\ step = [q \in Consumers |-> "idle"]
  /\ current = [q \in Consumers |-> NoDelivery]
  /\ verdict = [q \in Consumers |-> "none"]
  /\ outcome = [m \in Msgs |-> "none"]
  /\ responses = [m \in Msgs |-> 0]

-----------------------------------------------------------------------------
(* The queues and the channel.                                             *)

\* A publisher's message reaches its queue: the server's, or another's.
Enqueue(m) ==
  /\ m \notin queued
  /\ queued' = queued \cup {m}
  /\ ready' = ready \cup {m}
  /\ UNCHANGED <<unacked, nextTag, chanOpen, closes, consumerVars, ghostVars>>

Deliver(m) ==
  /\ chanOpen
  /\ m \in ready
  /\ nextTag <= MaxTag
  /\ LET d == [tag |-> nextTag, msg |-> m]
         q == QueueOf(m)
     IN  /\ unacked' = unacked \cup {d}
         /\ buffer' = [buffer EXCEPT ![q] = Append(@, d)]
  /\ ready' = ready \ {m}
  /\ nextTag' = nextTag + 1
  /\ UNCHANGED <<queued, chanOpen, closes, step, current, verdict, ghostVars>>

\* The channel is gone: what was unacknowledged is ready again, also what a
\* consumer has in its buffer or in hand.
LoseChannel ==
  /\ chanOpen' = FALSE
  /\ closes' = closes + 1
  /\ ready' = ready \cup Held
  /\ unacked' = {}

ChannelCloses ==
  /\ chanOpen
  /\ closes < MaxCloses
  /\ LoseChannel
  /\ UNCHANGED <<queued, nextTag, consumerVars, ghostVars>>

\* The process dies, or is stopped once its channel is gone (it never opens
\* another one), and a new one starts with a new channel.
Restart ==
  /\ \/ ~chanOpen /\ UNCHANGED <<ready, closes>>
     \/ /\ chanOpen
        /\ closes < MaxCloses
        /\ closes' = closes + 1
        /\ ready' = ready \cup Held
  /\ unacked' = {}
  /\ nextTag' = 1
  /\ chanOpen' = TRUE
  /\ buffer' = [q \in Consumers |-> << >>]
  /\ step' = [q \in Consumers |-> "idle"]
  /\ current' = [q \in Consumers |-> NoDelivery]
  /\ verdict' = [q \in Consumers |-> "none"]
  /\ UNCHANGED <<queued, ghostVars>>

-----------------------------------------------------------------------------
(* The loops of ConsumeCompression and ConsumeDecompression.               *)

\* The next delivery has a body that can be read.
Take(q) ==
  /\ step[q] = "idle"
  /\ buffer[q] # << >>
  /\ Head(buffer[q]).msg \notin BadMsgs
  /\ current' = [current EXCEPT ![q] = Head(buffer[q])]
  /\ buffer' = [buffer EXCEPT ![q] = Tail(@)]
  /\ step' = [step EXCEPT ![q] = "work"]
  /\ UNCHANGED <<brokerVars, verdict, ghostVars>>

\* Mutant: the consumer returns where it should continue.
ReturnOnBadCompression ==
  /\ step["compression"] = "idle"
  /\ buffer["compression"] # << >>
  /\ Head(buffer["compression"]).msg \in BadMsgs
  /\ step' = [step EXCEPT !["compression"] = "ended"]
  /\ UNCHANGED <<brokerVars, buffer, current, verdict, ghostVars>>

\* ConsumeCompression sleeps and goes on, with no answer for the delivery.
SkipBadCompression ==
  /\ step["compression"] = "idle"
  /\ buffer["compression"] # << >>
  /\ Head(buffer["compression"]).msg \in BadMsgs
  /\ buffer' = [buffer EXCEPT !["compression"] = Tail(@)]
  /\ UNCHANGED <<brokerVars, step, current, verdict, ghostVars>>

\* ConsumeDecompression calls Ack(true), which is for all lower tags as well.
TakeBadDecompression ==
  /\ step["decompression"] = "idle"
  /\ buffer["decompression"] # << >>
  /\ Head(buffer["decompression"]).msg \in BadMsgs
  /\ current' = [current EXCEPT !["decompression"] = Head(buffer["decompression"])]
  /\ buffer' = [buffer EXCEPT !["decompression"] = Tail(@)]
  /\ step' = [step EXCEPT !["decompression"] = "settle"]
  /\ verdict' = [verdict EXCEPT !["decompression"] = "ackMultiple"]
  /\ UNCHANGED <<brokerVars, ghostVars>>

Decide(q, v, o) ==
  /\ verdict' = [verdict EXCEPT ![q] = v]
  /\ step' = [step EXCEPT ![q] = "settle"]
  /\ outcome' = [outcome EXCEPT ![current[q].msg] = o]

\* Mutant: a failed compression is rejected without requeue though it should be
\* retried.
CompressionEndsDropped ==
  /\ step["compression"] = "work"
  /\ \/ Decide("compression", "ack", "done")
     \/ Decide("compression", "drop", "retry")
     \/ Decide("compression", "ack", "failed")
  /\ UNCHANGED <<brokerVars, buffer, current, responses>>

\* Mutant: a finished compression is acknowledged with Ack(true).
CompressionEndsMultiple ==
  /\ step["compression"] = "work"
  /\ \/ Decide("compression", "ackMultiple", "done")
     \/ Decide("compression", "requeue", "retry")
     \/ Decide("compression", "ack", "failed")
  /\ UNCHANGED <<brokerVars, buffer, current, responses>>

\* DoCompression ends: well, or with an error it should or should not retry.
CompressionEnds ==
  /\ step["compression"] = "work"
  /\ \/ Decide("compression", "ack", "done")
     \/ Decide("compression", "requeue", "retry")
     \/ Decide("compression", "ack", "failed")
  /\ UNCHANGED <<brokerVars, buffer, current, responses>>

\* GetDecompression or WriteByteToFileSystem fails.
DecompressionFails ==
  /\ step["decompression"] = "work"
  /\ Decide("decompression", "drop", "failed")
  /\ UNCHANGED <<brokerVars, buffer, current, responses>>

\* There is a result file to publish.
DecompressionEnds ==
  /\ step["decompression"] = "work"
  /\ step' = [step EXCEPT !["decompression"] = "publish"]
  /\ UNCHANGED <<brokerVars, buffer, current, verdict, ghostVars>>

\* Mutant: the response goes through a channel of its own, which may fail alone.
PublishElsewhere ==
  /\ step["decompression"] = "publish"
  /\ Decide("decompression", "ack", "done")
  /\ \E n \in {0, 1} :
       responses' = [responses EXCEPT ![current["decompression"].msg] = @ + n]
  /\ UNCHANGED <<brokerVars, buffer, current>>

\* Mutant: the request is put back after its response was published.
PublishAndRequeue ==
  /\ step["decompression"] = "publish"
  /\ Decide("decompression", "requeue", "done")
  /\ responses' = IF chanOpen
       THEN [responses EXCEPT ![current["decompression"].msg] = @ + 1]
       ELSE responses
  /\ UNCHANGED <<brokerVars, buffer, current>>

\* The response is published and the broker accepts it.
ResponseAccepted ==
  /\ step["decompression"] = "publish"
  /\ chanOpen
  /\ Decide("decompression", "ack", "done")
  /\ responses' = [responses EXCEPT ![current["decompression"].msg] = @ + 1]
  /\ UNCHANGED <<brokerVars, buffer, current>>

\* The response is lost with the channel or refused by a closed one; Publish
\* may return an error, which is not looked at.
ResponseLost ==
  /\ step["decompression"] = "publish"
  /\ Decide("decompression", "ack", "done")
  /\ \/ chanOpen /\ closes < MaxCloses /\ LoseChannel /\ UNCHANGED <<queued, nextTag>>
     \/ ~chanOpen /\ UNCHANGED brokerVars
  /\ UNCHANGED <<buffer, current, responses>>

\* What an answer takes from the unacknowledged deliveries.
Answered(q) ==
  IF verdict[q] = "ackMultiple"
  THEN {d \in unacked : d.tag <= current[q].tag}
  ELSE {d \in unacked : d.tag = current[q].tag}

\* Mutant: a retry publishes the message again and leaves the delivery
\* unanswered.
SettleWithCopy(q) ==
  /\ step[q] = "settle"
  /\ chanOpen
  /\ unacked' = IF verdict[q] = "requeue" THEN unacked ELSE unacked \ Answered(q)
  /\ ready' = IF verdict[q] = "requeue" THEN ready \cup {current[q].msg}
              ELSE ready
  /\ step' = [step EXCEPT ![q] = "idle"]
  /\ current' = [current EXCEPT ![q] = NoDelivery]
  /\ verdict' = [verdict EXCEPT ![q] = "none"]
  /\ UNCHANGED <<queued, nextTag, chanOpen, closes, buffer, ghostVars>>

\* Ack or Reject.  An answer for a tag the broker does not wait for is an
\* error that closes the channel; on a closed channel it has no effect.
Settle(q) ==
  /\ step[q] = "settle"
  /\ \/ /\ chanOpen /\ Answered(q) # {}
        /\ unacked' = unacked \ Answered(q)
        /\ ready' = IF verdict[q] = "requeue" THEN ready \cup {current[q].msg}
                    ELSE ready
        /\ UNCHANGED <<queued, nextTag, chanOpen, closes>>
     \/ /\ chanOpen /\ Answered(q) = {}
        /\ LoseChannel
        /\ UNCHANGED <<queued, nextTag>>
     \/ ~chanOpen /\ UNCHANGED brokerVars
  /\ step' = [step EXCEPT ![q] = "idle"]
  /\ current' = [current EXCEPT ![q] = NoDelivery]
  /\ verdict' = [verdict EXCEPT ![q] = "none"]
  /\ UNCHANGED <<buffer, ghostVars>>

\* The range over the deliveries of a closed channel ends, be it empty or not:
\* the library may still hand over some of those it has buffered, or none.
LoopEnds(q) ==
  /\ step[q] = "idle"
  /\ ~chanOpen
  /\ step' = [step EXCEPT ![q] = "ended"]
  /\ buffer' = [buffer EXCEPT ![q] = << >>]
  /\ UNCHANGED <<brokerVars, current, verdict, ghostVars>>

-----------------------------------------------------------------------------
Compression ==
  \/ Take("compression") \/ SkipBadCompression \/ CompressionEnds
  \/ Settle("compression") \/ LoopEnds("compression")

Decompression ==
  \/ Take("decompression") \/ TakeBadDecompression \/ DecompressionFails
  \/ DecompressionEnds \/ ResponseAccepted \/ ResponseLost
  \/ Settle("decompression") \/ LoopEnds("decompression")

Next ==
  \/ \E m \in Msgs : Enqueue(m) \/ Deliver(m)
  \/ ChannelCloses \/ Restart
  \/ Compression \/ Decompression

Spec == Init /\ [][Next]_vars

\* Both goroutines run as long as they can: DoCompression returns, and
\* GetDecompression does because of its timeout (DecompressionCache).
FairSpec == Spec /\ WF_vars(Compression) /\ WF_vars(Decompression)

-----------------------------------------------------------------------------
(* Properties.                                                             *)

\* The broker is done with a message.
Gone(m) == m \in queued /\ m \notin ready /\ m \notin Held

\* A decompression message with an unreadable body was acknowledged.
BadAcknowledged == \E m \in BadMsgs \cap DecompressMsgs : Gone(m)

\* A message leaves the broker only after its own handler has brought it to an
\* end.  The Ack(true) of ConsumeDecompression is the exception: as both queues
\* share the channel's tags it also takes away compressions that wait or are in
\* hand.  It never takes a decompression, and without it there is no exception.
GoneOnlyAfterHandling ==
  \A m \in Msgs \ BadMsgs :
    Gone(m) => \/ outcome[m] \in {"done", "failed"}
               \/ m \in CompressMsgs /\ BadAcknowledged

\* The broker waits for every tag a consumer answers, whatever was redelivered
\* before, so that no answer ever closes the channel under the other consumer.
\* The Ack(true) breaks this for the compression consumer, and for it alone.
AnswersKnownTag ==
  \A q \in Consumers :
    step[q] # "idle" /\ current[q] # NoDelivery /\ chanOpen
      => \/ current[q] \in unacked
         \/ q = "compression" /\ BadAcknowledged

\* A decompression that ended well and is acknowledged has its response at the
\* broker: the unchecked Publish comes first on the same channel, so where it
\* is lost the acknowledgement is lost with it and the message comes again.
ResponseBeforeAck ==
  \A m \in DecompressMsgs \ BadMsgs :
    Gone(m) /\ outcome[m] = "done" => responses[m] >= 1

\* At-least-once: a response is repeated only when a channel was lost.
RepeatsNeedLoss == \A m \in DecompressMsgs : responses[m] <= 1 + closes

\* Each delivery is answered in the end, behind unreadable bodies, failures and
\* retries of other messages, unless the channel is lost first.
DeliveriesAnswered ==
  \A m \in Msgs \ BadMsgs :
    m \in Held ~> (m \notin Held \/ ~chanOpen)
=============================================================================
