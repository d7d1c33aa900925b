------------------------- MODULE AMQPWorkerProofs -------------------------
(***************************************************************************)
(* Theorems about AMQPWorker: for any messages, readable or not, and any    *)
(* number of deliveries and lost channels.                                 *)
(***************************************************************************)
EXTENDS AMQPWorker, TLAPS

LOCAL INSTANCE Functions \* Range

\* The deliveries a consumer has yet to answer.
Local(q) == Range(buffer[q]) \cup ({current[q]} \ {NoDelivery})

Known == unacked \cup Local("compression") \cup Local("decompression")

Increasing(s) == \A i, j \in 1 .. Len(s) : i < j => s[i].tag < s[j].tag

\* Tags identify deliveries, on both sides of the channel.
TagsInv ==
  /\ \A d \in Known : d.tag < nextTag /\ d.msg \in queued
  /\ \A d, e \in Known : d.tag = e.tag => d = e
  /\ \A q \in Consumers : \A d \in Local(q) : QueueOf(d.msg) = q
  /\ ~chanOpen => unacked = {}

\* A consumer handles its deliveries in the order of their tags.
OrderInv == \A q \in Consumers :
  /\ Increasing(buffer[q])
  /\ current[q] # NoDelivery => \A d \in Range(buffer[q]) : current[q].tag < d.tag

\* The broker waits for what a consumer has yet to answer, or, once the channel
\* is gone, has it back in the queue; and it waits for no other decompression.
AwaitedInv ==
  /\ \A d \in Local("compression") :
       d \in unacked \/ (~chanOpen /\ d.msg \in ready) \/ BadAcknowledged
  /\ \A d \in Local("decompression") :
       d \in unacked \/ (~chanOpen /\ d.msg \in ready)
  /\ \A d \in unacked :
       QueueOf(d.msg) = "decompression" => d \in Local("decompression")

\* What an answer to come says of the message.
VerdictRight(q) ==
  /\ step[q] \in {"work", "publish"} => current[q].msg \notin BadMsgs
  /\ step[q] = "publish" => q = "decompression"
  /\ verdict[q] = "requeue" => q = "compression"
  /\ verdict[q] = "ackMultiple" => q = "decompression" /\ current[q].msg \in BadMsgs
  /\ verdict[q] = "ack" => outcome[current[q].msg] \in {"done", "failed"}
  /\ verdict[q] = "drop" => outcome[current[q].msg] = "failed"
  /\ q = "decompression" /\ verdict[q] = "ack" /\ chanOpen
       => responses[current[q].msg] >= 1

VerdictInv == \A q \in Consumers : VerdictRight(q)

Answering(m) ==
  /\ chanOpen
  /\ verdict["decompression"] = "ack"
  /\ current["decompression"].msg = m

\* One response more than channels lost, and then the acknowledgement is next.
RepeatInv == \A m \in DecompressMsgs :
  \/ responses[m] <= closes
  \/ responses[m] <= 1 + closes /\ (Gone(m) \/ Answering(m))

-----------------------------------------------------------------------------
(* Buffers.                                                                *)

LEMMA RangeEmpty ==
  ASSUME NEW S
  PROVE  << >> \in Seq(S) /\ Range(<< >>) = {} /\ Increasing(<< >>)
<1>1. << >> \in Seq(S) /\ Len(<< >>) = 0 /\ DOMAIN << >> = {}
  OBVIOUS
<1>2. Increasing(<< >>)
  BY <1>1 DEF Increasing
<1>3. Range(<< >>) = {}
  BY <1>1 DEF Range
<1> QED
  BY <1>1, <1>2, <1>3

LEMMA RangeAppend ==
  ASSUME NEW S, NEW s \in Seq(S), NEW d \in S
  PROVE  Append(s, d) \in Seq(S) /\ Range(Append(s, d)) = Range(s) \cup {d}
<1>1. /\ Append(s, d) \in Seq(S)
      /\ DOMAIN Append(s, d) = 1 .. Len(s) + 1
      /\ DOMAIN s = 1 .. Len(s) /\ Len(s) \in Nat
      /\ Append(s, d)[Len(s) + 1] = d
      /\ \A i \in 1 .. Len(s) : Append(s, d)[i] = s[i]
  OBVIOUS
<1> QED
  BY <1>1 DEF Range

LEMMA RangeTail ==
  ASSUME NEW S, NEW s \in Seq(S), s # << >>
  PROVE  /\ Head(s) \in S /\ Tail(s) \in Seq(S)
         /\ Range(s) = {Head(s)} \cup Range(Tail(s))
<1>1. /\ Head(s) \in S /\ Tail(s) \in Seq(S)
      /\ Len(s) \in Nat \ {0}
      /\ DOMAIN s = 1 .. Len(s)
      /\ DOMAIN Tail(s) = 1 .. Len(s) - 1
      /\ Head(s) = s[1]
      /\ \A i \in 1 .. Len(s) - 1 : Tail(s)[i] = s[i + 1]
  OBVIOUS
<1>2. \A i \in 1 .. Len(s) : i = 1 \/ (i - 1 \in 1 .. Len(s) - 1 /\ Tail(s)[i - 1] = s[i])
  BY <1>1
<1>3. ASSUME NEW e \in Range(s) PROVE e = Head(s) \/ e \in Range(Tail(s))
  <2>1. PICK i \in 1 .. Len(s) : e = s[i]
    BY <1>1 DEF Range
  <2> QED
    BY <2>1, <1>1, <1>2 DEF Range
<1>4. ASSUME NEW e \in Range(Tail(s)) PROVE e \in Range(s)
  <2>1. PICK i \in 1 .. Len(s) - 1 : e = Tail(s)[i]
    BY <1>1 DEF Range
  <2>2. e = s[i + 1] /\ i + 1 \in 1 .. Len(s)
    BY <2>1, <1>1
  <2> QED
    BY <2>2, <1>1 DEF Range
<1>5. Head(s) \in Range(s)
  BY <1>1 DEF Range
<1> QED
  BY <1>1, <1>3, <1>4, <1>5

LEMMA IncreasingAppend ==
  ASSUME NEW s \in Seq(Deliveries), NEW d \in Deliveries, Increasing(s),
         \A e \in Range(s) : e.tag < d.tag
  PROVE  Increasing(Append(s, d))
<1>1. /\ Len(Append(s, d)) = Len(s) + 1
      /\ DOMAIN s = 1 .. Len(s) /\ Len(s) \in Nat
      /\ Append(s, d)[Len(s) + 1] = d
      /\ \A i \in 1 .. Len(s) : Append(s, d)[i] = s[i]
  OBVIOUS
<1>2. \A i \in 1 .. Len(s) : s[i].tag < d.tag
  BY <1>1 DEF Range
<1> QED
  BY <1>1, <1>2 DEF Increasing

LEMMA IncreasingTail ==
  ASSUME NEW s \in Seq(Deliveries), s # << >>, Increasing(s)
  PROVE  Increasing(Tail(s)) /\ \A e \in Range(Tail(s)) : Head(s).tag < e.tag
<1>1. /\ Len(s) \in Nat \ {0}
      /\ DOMAIN Tail(s) = 1 .. Len(s) - 1 /\ Len(Tail(s)) = Len(s) - 1
      /\ Head(s) = s[1]
      /\ \A i \in 1 .. Len(s) - 1 : Tail(s)[i] = s[i + 1]
  OBVIOUS
<1> QED
  BY <1>1 DEF Increasing, Range

-----------------------------------------------------------------------------
(* What the steps do to a consumer's deliveries.                           *)

\* The steps that only choose an answer.
Choosing == CompressionEnds \/ DecompressionFails \/ DecompressionEnds
              \/ ResponseAccepted

LEMMA ChoosingKeeps == Choosing => UNCHANGED <<brokerVars, buffer, current>>
BY DEF Choosing, CompressionEnds, DecompressionFails, DecompressionEnds,
   ResponseAccepted

LEMMA StepKinds ==
  ASSUME [Next]_vars
  PROVE  \/ \E m \in Msgs : Enqueue(m) \/ Deliver(m)
         \/ ChannelCloses \/ Restart \/ Choosing \/ ResponseLost
         \/ SkipBadCompression \/ TakeBadDecompression
         \/ \E q \in Consumers : Take(q) \/ Settle(q) \/ LoopEnds(q)
         \/ UNCHANGED vars
BY DEF Next, Compression, Decompression, Choosing, Consumers

LEMMA NewDelivery ==
  ASSUME TypeOK, NEW m \in Msgs, Deliver(m)
  PROVE  LET d == [tag |-> nextTag, msg |-> m] IN
         /\ d \in Deliveries
         /\ \A q \in Consumers :
              /\ buffer'[q] = IF q = QueueOf(m) THEN Append(buffer[q], d) ELSE buffer[q]
              /\ buffer'[q] \in Seq(Deliveries)
              /\ Range(buffer'[q]) = IF q = QueueOf(m) THEN Range(buffer[q]) \cup {d}
                                     ELSE Range(buffer[q])
<1> DEFINE d == [tag |-> nextTag, msg |-> m]
<1>1. d \in Deliveries
  BY BoundsAreNat DEF TypeOK, ConsumerTypes, BrokerTypes, Deliver, Deliveries
<1>2. QueueOf(m) \in Consumers
  BY DEF QueueOf, Consumers
<1>3. \A q \in Consumers :
        buffer'[q] = IF q = QueueOf(m) THEN Append(buffer[q], d) ELSE buffer[q]
  BY <1>2 DEF Deliver, TypeOK, ConsumerTypes, BrokerTypes
<1>4. \A q \in Consumers : buffer[q] \in Seq(Deliveries)
  BY DEF TypeOK, ConsumerTypes, BrokerTypes
<1> HIDE DEF d
<1>5. \A q \in Consumers :
        /\ Append(buffer[q], d) \in Seq(Deliveries)
        /\ Range(Append(buffer[q], d)) = Range(buffer[q]) \cup {d}
  BY <1>1, <1>4, RangeAppend
<1>6. \A q \in Consumers :
        /\ buffer'[q] \in Seq(Deliveries)
        /\ Range(buffer'[q]) = IF q = QueueOf(m) THEN Range(buffer[q]) \cup {d}
                               ELSE Range(buffer[q])
  BY <1>3, <1>4, <1>5
<1> QED
  BY <1>1, <1>3, <1>6 DEF d

\* A consumer takes the first delivery of its buffer, or skips it.
LEMMA Taken ==
  ASSUME TypeOK, NEW q \in Consumers, buffer[q] # << >>,
         buffer' = [buffer EXCEPT ![q] = Tail(@)]
  PROVE  /\ Head(buffer[q]) \in Deliveries
         /\ Range(buffer[q]) = {Head(buffer[q])} \cup Range(buffer'[q])
         /\ \A p \in Consumers :
              /\ buffer'[p] = IF p = q THEN Tail(buffer[p]) ELSE buffer[p]
              /\ buffer'[p] \in Seq(Deliveries)
              /\ Range(buffer'[p]) \subseteq Range(buffer[p])
<1>1. \A p \in Consumers : buffer[p] \in Seq(Deliveries)
  BY DEF TypeOK, ConsumerTypes, BrokerTypes
<1>2. \A p \in Consumers : buffer'[p] = IF p = q THEN Tail(buffer[p]) ELSE buffer[p]
  BY DEF TypeOK, ConsumerTypes, BrokerTypes
<1>3. /\ Head(buffer[q]) \in Deliveries /\ Tail(buffer[q]) \in Seq(Deliveries)
      /\ Range(buffer[q]) = {Head(buffer[q])} \cup Range(Tail(buffer[q]))
  BY <1>1, RangeTail
<1> QED
  BY <1>1, <1>2, <1>3

\* Only a delivery adds to what a consumer has.
LEMMA LocalShrinks ==
  ASSUME TypeOK, [Next]_vars, \A m \in Msgs : ~Deliver(m), NEW q \in Consumers
  PROVE  Local(q)' \subseteq Local(q)
<1> USE DEF Local
<1>1. ASSUME NEW m \in Msgs, Enqueue(m) PROVE Local(q)' \subseteq Local(q)
  BY <1>1 DEF Enqueue, consumerVars
<1>2. CASE ChannelCloses
  BY <1>2 DEF ChannelCloses, consumerVars
<1>3. CASE Restart
  BY <1>3, RangeEmpty DEF Restart
<1>4. CASE Choosing
  BY <1>4, ChoosingKeeps
<1>5. CASE ResponseLost
  BY <1>5 DEF ResponseLost
<1>6. CASE SkipBadCompression
  <2>1. Range(buffer'[q]) \subseteq Range(buffer[q])
    BY <1>6, Taken DEF SkipBadCompression, Consumers
  <2> QED
    BY <1>6, <2>1 DEF SkipBadCompression
<1>7. CASE TakeBadDecompression
  <2>1. /\ Range(buffer'[q]) \subseteq Range(buffer[q])
        /\ Head(buffer["decompression"]) \in Range(buffer["decompression"])
    BY <1>7, Taken DEF TakeBadDecompression, Consumers
  <2> QED
    BY <1>7, <2>1 DEF TakeBadDecompression, TypeOK, ConsumerTypes, BrokerTypes
<1>8. ASSUME NEW p \in Consumers, Take(p) PROVE Local(q)' \subseteq Local(q)
  <2>1. /\ Range(buffer'[q]) \subseteq Range(buffer[q])
        /\ Head(buffer[p]) \in Range(buffer[p])
    BY <1>8, Taken DEF Take
  <2> QED
    BY <1>8, <2>1 DEF Take, TypeOK, ConsumerTypes, BrokerTypes
<1>9. ASSUME NEW p \in Consumers, Settle(p) PROVE Local(q)' \subseteq Local(q)
  BY <1>9 DEF Settle, TypeOK, ConsumerTypes, BrokerTypes
<1>10. ASSUME NEW p \in Consumers, LoopEnds(p) PROVE Local(q)' \subseteq Local(q)
  BY <1>10, RangeEmpty DEF LoopEnds, TypeOK, ConsumerTypes, BrokerTypes
<1>11. CASE UNCHANGED vars
  BY <1>11 DEF vars, consumerVars
<1> QED
  BY StepKinds, <1>1, <1>2, <1>3, <1>4, <1>5, <1>6, <1>7, <1>8, <1>9, <1>10, <1>11

-----------------------------------------------------------------------------
(* Types.                                                                  *)

\* What consumers have are deliveries.
LEMMA LocalTypes ==
  ASSUME TypeOK
  PROVE  /\ \A q \in Consumers : Local(q) \subseteq Deliveries
         /\ Known \subseteq Deliveries
         /\ \A d \in Deliveries : d.tag \in Nat /\ d.msg \in Msgs
<1>1. ASSUME NEW q \in Consumers PROVE Local(q) \subseteq Deliveries
  <2>1. buffer[q] \in Seq(Deliveries) /\ current[q] \in Deliveries \cup {NoDelivery}
    BY DEF TypeOK, ConsumerTypes, BrokerTypes
  <2>2. Range(buffer[q]) \subseteq Deliveries
    BY <2>1 DEF Range
  <2> QED
    BY <2>1, <2>2 DEF Local
<1>2. Known \subseteq Deliveries
  BY <1>1 DEF Known, Consumers, TypeOK, ConsumerTypes, BrokerTypes
<1>3. \A d \in Deliveries : d.tag \in Nat /\ d.msg \in Msgs
  BY BoundsAreNat DEF Deliveries
<1> QED
  BY <1>1, <1>2, <1>3

LEMMA CurrentTypes ==
  ASSUME TypeOK, NEW q \in Consumers, current[q] # NoDelivery
  PROVE  current[q] \in Deliveries /\ current[q].msg \in Msgs /\ current[q] \in Local(q)
BY LocalTypes DEF TypeOK, ConsumerTypes, Local

\* What a consumer answers with one of the tags of Ack(false) and Reject is its
\* own delivery, if the broker waits for it.
LEMMA AnswersOwn ==
  ASSUME TypeOK, TagsInv, NEW q \in Consumers, step[q] = "settle",
         verdict[q] # "ackMultiple"
  PROVE  Answered(q) \subseteq {current[q]}
<1>1. current[q] \in Known
  BY DEF TypeOK, ConsumerTypes, BrokerTypes, Local, Known, Consumers
<1> QED
  BY <1>1 DEF Answered, TagsInv, Known

LEMMA ConsumerTypesKept == ASSUME TypeOK, [Next]_vars PROVE ConsumerTypes'
<1> USE DEF TypeOK, ConsumerTypes, consumerVars
<1>1. ASSUME NEW m \in Msgs, Enqueue(m) PROVE ConsumerTypes'
  BY <1>1 DEF Enqueue
<1>2. ASSUME NEW m \in Msgs, Deliver(m) PROVE ConsumerTypes'
  <2>1. buffer' = [buffer EXCEPT ![QueueOf(m)] = Append(@, [tag |-> nextTag, msg |-> m])]
    BY <1>2 DEF Deliver
  <2>2. \A q \in Consumers : buffer'[q] \in Seq(Deliveries)
    BY <1>2, NewDelivery
  <2>3. buffer' \in [Consumers -> Seq(Deliveries)]
    BY <2>1, <2>2
  <2> QED
    BY <1>2, <2>3 DEF Deliver
<1>3. CASE ChannelCloses
  BY <1>3 DEF ChannelCloses
<1>4. CASE Restart
  <2>1. buffer' \in [Consumers -> Seq(Deliveries)]
    BY <1>4, RangeEmpty DEF Restart
  <2> QED
    BY <1>4, <2>1 DEF Restart
<1>5. CASE Choosing
  <2>1. CASE CompressionEnds
    BY <2>1 DEF CompressionEnds, Decide
  <2>2. CASE DecompressionFails
    BY <2>2 DEF DecompressionFails, Decide
  <2>3. CASE DecompressionEnds
    BY <2>3 DEF DecompressionEnds
  <2>4. CASE ResponseAccepted
    BY <2>4 DEF ResponseAccepted, Decide
  <2> QED
    BY <1>5, <2>1, <2>2, <2>3, <2>4 DEF Choosing
<1>6. CASE ResponseLost
  BY <1>6 DEF ResponseLost, Decide
<1>7. CASE SkipBadCompression
  <2>1. buffer' \in [Consumers -> Seq(Deliveries)]
    BY <1>7, Taken DEF SkipBadCompression, Consumers
  <2> QED
    BY <1>7, <2>1 DEF SkipBadCompression
<1>8. CASE TakeBadDecompression
  <2>1. /\ buffer' \in [Consumers -> Seq(Deliveries)]
        /\ Head(buffer["decompression"]) \in Deliveries
    BY <1>8, Taken DEF TakeBadDecompression, Consumers
  <2> QED
    BY <1>8, <2>1, NoDeliveryIsNone DEF TakeBadDecompression
<1>9. ASSUME NEW q \in Consumers, Take(q) PROVE ConsumerTypes'
  <2>1. buffer' \in [Consumers -> Seq(Deliveries)] /\ Head(buffer[q]) \in Deliveries
    BY <1>9, Taken DEF Take
  <2> QED
    BY <1>9, <2>1, NoDeliveryIsNone DEF Take
<1>10. ASSUME NEW q \in Consumers, Settle(q) PROVE ConsumerTypes'
  BY <1>10 DEF Settle
<1>11. ASSUME NEW q \in Consumers, LoopEnds(q) PROVE ConsumerTypes'
  <2>1. buffer' \in [Consumers -> Seq(Deliveries)]
    BY <1>11, RangeEmpty DEF LoopEnds
  <2> QED
    BY <1>11, <2>1 DEF LoopEnds
<1>12. CASE UNCHANGED vars
  BY <1>12 DEF vars
<1> QED
  BY StepKinds, <1>1, <1>2, <1>3, <1>4, <1>5, <1>6, <1>7, <1>8, <1>9, <1>10,
     <1>11, <1>12

LEMMA LosingKeepsTypes ==
  ASSUME BrokerTypes, LoseChannel, UNCHANGED <<queued, nextTag>> PROVE BrokerTypes'
<1> USE DEF BrokerTypes, LoseChannel, Held
<1>1. ready' \subseteq queued' /\ unacked' = {} /\ Held' = {}
  OBVIOUS
<1>2. chanOpen' \in BOOLEAN
  BY Zenon
<1>3. closes' \in Nat
  OBVIOUS
<1> QED
  BY <1>1, <1>2, <1>3

\* What Settle does to the broker, by what is answered.
LEMMA SettleKinds ==
  ASSUME TypeOK, TagsInv, NEW q \in Consumers, Settle(q)
  PROVE  /\ UNCHANGED queued
         /\ \/ /\ chanOpen /\ current[q] \in unacked
               /\ verdict[q] = "requeue"
               /\ unacked' = unacked \ {current[q]}
               /\ ready' = ready \cup {current[q].msg}
               /\ UNCHANGED <<nextTag, chanOpen, closes>>
            \/ /\ chanOpen /\ current[q] \in unacked
               /\ verdict[q] \in {"ack", "drop"}
               /\ unacked' = unacked \ {current[q]}
               /\ UNCHANGED <<ready, nextTag, chanOpen, closes>>
            \/ /\ chanOpen
               /\ verdict[q] = "ackMultiple"
               /\ unacked' = unacked \ {d \in unacked : d.tag <= current[q].tag}
               /\ UNCHANGED <<ready, nextTag, chanOpen, closes>>
            \/ /\ chanOpen /\ current[q] \notin unacked
               /\ LoseChannel /\ UNCHANGED nextTag
            \/ ~chanOpen /\ UNCHANGED brokerVars
<1>1. step[q] = "settle" /\ verdict[q] \in {"ack", "ackMultiple", "requeue", "drop"}
  BY DEF Settle, TypeOK, ConsumerTypes
<1>2. CASE chanOpen /\ Answered(q) # {}
  <2>1. CASE verdict[q] = "ackMultiple"
    BY <1>2, <2>1 DEF Settle, Answered
  <2>2. CASE verdict[q] # "ackMultiple"
    <3>1. Answered(q) = {current[q]} /\ current[q] \in unacked
      BY <1>1, <1>2, <2>2, AnswersOwn DEF Answered
    <3> QED
      BY <1>1, <1>2, <2>2, <3>1 DEF Settle
  <2> QED
    BY <2>1, <2>2
<1>3. CASE chanOpen /\ Answered(q) = {}
  <2>1. current[q] \notin unacked
    <3>1. current[q] \in unacked => current[q].tag <= current[q].tag
      BY LocalTypes DEF Known
    <3> QED
      BY <1>3, <3>1 DEF Answered
  <2> QED
    BY <1>3, <2>1 DEF Settle
<1>4. CASE ~chanOpen
  BY <1>4 DEF Settle, brokerVars
<1> QED
  BY <1>2, <1>3, <1>4

LEMMA BrokerTypesKept == ASSUME TypeOK, TagsInv, [Next]_vars PROVE BrokerTypes'
<1> USE DEF TypeOK, BrokerTypes, Held, brokerVars
<1>1. ASSUME NEW m \in Msgs, Enqueue(m) PROVE BrokerTypes'
  BY <1>1 DEF Enqueue
<1>2. ASSUME NEW m \in Msgs, Deliver(m) PROVE BrokerTypes'
  <2> DEFINE d == [tag |-> nextTag, msg |-> m]
  <2>1. d \in Deliveries /\ d.tag = nextTag /\ d.msg = m
    BY <1>2, NewDelivery
  <2>2. /\ unacked' = unacked \cup {d} /\ m \in ready /\ ready' = ready \ {m}
        /\ nextTag <= MaxTag /\ nextTag' = nextTag + 1
        /\ UNCHANGED <<queued, chanOpen, closes>>
    BY <1>2 DEF Deliver
  <2>3. \A e \in unacked : e.tag < nextTag
    BY DEF TagsInv, Known
  <2> HIDE DEF d
  <2>4. \A x, e \in unacked' : x.tag = e.tag \/ x.msg = e.msg => x = e
    BY <2>1, <2>2, <2>3, LocalTypes DEF Known
  <2>5. unacked' \subseteq Deliveries /\ Held' \subseteq queued' \ ready'
    BY <2>1, <2>2
  <2>6. nextTag' \in 1 .. MaxTag + 1
    BY <2>2, BoundsAreNat
  <2> QED
    BY <2>2, <2>4, <2>5, <2>6
<1>3. CASE ChannelCloses
  BY <1>3, LosingKeepsTypes DEF ChannelCloses
<1>4. CASE Restart
  BY <1>4, BoundsAreNat DEF Restart
<1>5. CASE Choosing
  BY <1>5, ChoosingKeeps
<1>6. CASE ResponseLost
  BY <1>6, LosingKeepsTypes DEF ResponseLost
<1>7. CASE SkipBadCompression \/ TakeBadDecompression
  BY <1>7 DEF SkipBadCompression, TakeBadDecompression
<1>8. ASSUME NEW q \in Consumers, Take(q) \/ LoopEnds(q) PROVE BrokerTypes'
  BY <1>8 DEF Take, LoopEnds
<1>9. ASSUME NEW q \in Consumers, Settle(q) PROVE BrokerTypes'
  <2>1. CASE chanOpen /\ current[q] \notin unacked /\ LoseChannel /\ UNCHANGED nextTag
    BY <1>9, <2>1, SettleKinds, LosingKeepsTypes
  <2>2. CASE /\ current[q] \in unacked
             /\ unacked' = unacked \ {current[q]}
             /\ ready' = ready \cup {current[q].msg}
             /\ UNCHANGED <<queued, nextTag, chanOpen, closes>>
    BY <2>2
  <2>3. CASE unacked' \subseteq unacked
             /\ UNCHANGED <<queued, ready, nextTag, chanOpen, closes>>
    BY <2>3
  <2> QED
    BY <1>9, <2>1, <2>2, <2>3, SettleKinds
<1>10. CASE UNCHANGED vars
  BY <1>10 DEF vars
<1> QED
  BY StepKinds, <1>1, <1>2, <1>3, <1>4, <1>5, <1>6, <1>7, <1>8, <1>9, <1>10

LEMMA GhostTypesKept == ASSUME TypeOK, [Next]_vars PROVE GhostTypes'
<1> USE DEF TypeOK, GhostTypes, ghostVars
<1>1. CASE Choosing \/ ResponseLost
  BY <1>1 DEF Choosing, CompressionEnds, DecompressionFails, DecompressionEnds,
     ResponseAccepted, ResponseLost, Decide
<1>2. CASE ~(Choosing \/ ResponseLost)
  <2>1. UNCHANGED ghostVars
    BY <1>2, StepKinds DEF Enqueue, Deliver, ChannelCloses, Restart, SkipBadCompression,
       TakeBadDecompression, Take, Settle, LoopEnds, vars
  <2> QED
    BY <2>1
<1> QED
  BY <1>1, <1>2

LEMMA TypeKept == ASSUME TypeOK, TagsInv, [Next]_vars PROVE TypeOK'
BY ConsumerTypesKept, BrokerTypesKept, GhostTypesKept DEF TypeOK

-----------------------------------------------------------------------------
(* Tags.                                                                   *)

LEMMA UnackedShrinks ==
  ASSUME TypeOK, TagsInv, [Next]_vars, \A m \in Msgs : ~Deliver(m)
  PROVE  unacked' \subseteq unacked
<1> USE DEF LoseChannel, brokerVars
<1>1. ASSUME NEW q \in Consumers, Settle(q) PROVE unacked' \subseteq unacked
  BY <1>1, SettleKinds
<1>2. CASE Choosing
  BY <1>2, ChoosingKeeps
<1> QED
  BY StepKinds, <1>1, <1>2
     DEF Enqueue, ChannelCloses, Restart, ResponseLost, SkipBadCompression,
         TakeBadDecompression, Take, LoopEnds, vars

LEMMA NewKnown ==
  ASSUME TypeOK, NEW m \in Msgs, Deliver(m)
  PROVE  LET d == [tag |-> nextTag, msg |-> m] IN
         /\ d \in Deliveries /\ d.tag = nextTag /\ d.msg = m
         /\ unacked' = unacked \cup {d}
         /\ \A q \in Consumers :
              Local(q)' = IF q = QueueOf(m) THEN Local(q) \cup {d} ELSE Local(q)
         /\ Known' = Known \cup {d}
<1> DEFINE d == [tag |-> nextTag, msg |-> m]
<1>1. d \in Deliveries /\ d.tag = nextTag /\ d.msg = m
  BY NewDelivery
<1>2. unacked' = unacked \cup {d} /\ current' = current
  BY DEF Deliver
<1>3. \A q \in Consumers :
        Range(buffer'[q]) = IF q = QueueOf(m) THEN Range(buffer[q]) \cup {d}
                            ELSE Range(buffer[q])
  BY NewDelivery
<1> HIDE DEF d
<1>4. \A q \in Consumers :
        Local(q)' = IF q = QueueOf(m) THEN Local(q) \cup {d} ELSE Local(q)
  BY <1>2, <1>3 DEF Local
<1>5. Known' = Known \cup {d}
  BY <1>2, <1>4 DEF Known, Consumers
<1> QED
  BY <1>1, <1>2, <1>4, <1>5 DEF d

LEMMA RestartEmpties ==
  ASSUME Restart
  PROVE  unacked' = {} /\ Known' = {} /\ \A q \in Consumers : Local(q)' = {}
<1>1. \A q \in Consumers : Local(q)' = {}
  BY RangeEmpty DEF Restart, Local
<1>2. unacked' = {}
  BY DEF Restart
<1> QED
  BY <1>1, <1>2 DEF Known, Consumers

LEMMA QueueConstants ==
  /\ Consumers = {"compression", "decompression"}
  /\ \A m \in Msgs : /\ QueueOf(m) \in Consumers
                     /\ QueueOf(m) = "decompression" <=> m \in DecompressMsgs
BY QueuesAreApart DEF Consumers, QueueOf, Msgs

LEMMA TagsKept == ASSUME TypeOK, TagsInv, [Next]_vars PROVE TagsInv'
<1>1. ASSUME NEW m \in Msgs, Deliver(m) PROVE TagsInv'
  <2> DEFINE d == [tag |-> nextTag, msg |-> m]
  <2>1. /\ d \in Deliveries /\ d.tag = nextTag /\ d.msg = m
        /\ unacked' = unacked \cup {d} /\ Known' = Known \cup {d}
        /\ \A q \in Consumers :
             Local(q)' = IF q = QueueOf(m) THEN Local(q) \cup {d} ELSE Local(q)
    BY <1>1, NewKnown
  <2>2. /\ m \in queued /\ queued' = queued /\ chanOpen /\ chanOpen' = chanOpen
        /\ nextTag \in Nat /\ nextTag' = nextTag + 1
    BY <1>1, BoundsAreNat DEF Deliver, TypeOK, BrokerTypes
  <2> HIDE DEF d
  <2>3. \A e \in Known : e.tag < nextTag /\ e.tag \in Nat /\ e.msg \in queued
    BY LocalTypes DEF TagsInv
  <2>4. \A e \in Known' : e.tag < nextTag' /\ e.msg \in queued'
    BY <2>1, <2>2, <2>3
  <2>5. \A x, e \in Known' : x.tag = e.tag => x = e
    BY <2>1, <2>2, <2>3 DEF TagsInv
  <2>6. \A q \in Consumers : \A e \in Local(q)' : QueueOf(e.msg) = q
    BY <2>1 DEF TagsInv
  <2>7. (\A q \in Consumers : \A e \in Local(q) : QueueOf(e.msg) = q)'
    BY <2>6 DEF QueueOf
  <2>8. chanOpen'
    BY <2>2
  <2> QED
    BY <2>4, <2>5, <2>7, <2>8 DEF TagsInv
<1>2. CASE Restart
  BY <1>2, RestartEmpties DEF TagsInv
<1>3. CASE ~Restart /\ \A m \in Msgs : ~Deliver(m)
  <2>1. unacked' \subseteq unacked
    BY <1>3, UnackedShrinks
  <2>2. \A q \in Consumers : Local(q)' \subseteq Local(q)
    BY <1>3, LocalShrinks
  <2>3. Known' \subseteq Known
    BY <2>1, <2>2 DEF Known, Consumers
  <2>4. nextTag' = nextTag /\ queued \subseteq queued'
        /\ (UNCHANGED chanOpen \/ unacked' = {})
    <3> USE DEF LoseChannel, brokerVars
    <3>1. CASE \E q \in Consumers : Settle(q)
      BY <3>1, SettleKinds
    <3>2. CASE Choosing
      BY <3>2, ChoosingKeeps
    <3>3. CASE ChannelCloses \/ ResponseLost
      BY <3>3 DEF ChannelCloses, ResponseLost
    <3>4. CASE \E m \in Msgs : Enqueue(m)
      BY <3>4 DEF Enqueue
    <3>5. CASE SkipBadCompression \/ TakeBadDecompression
      BY <3>5 DEF SkipBadCompression, TakeBadDecompression
    <3>6. CASE \E q \in Consumers : Take(q) \/ LoopEnds(q)
      BY <3>6 DEF Take, LoopEnds
    <3>7. CASE UNCHANGED vars
      BY <3>7 DEF vars
    <3> QED
      BY <1>3, <3>1, <3>2, <3>3, <3>4, <3>5, <3>6, <3>7, StepKinds
  <2>5. (\A q \in Consumers : \A d \in Local(q) : QueueOf(d.msg) = q)'
    BY <2>2 DEF TagsInv, QueueOf
  <2>6. (\A d \in Known : d.tag < nextTag /\ d.msg \in queued)'
    BY <2>3, <2>4 DEF TagsInv
  <2>7. (\A d, e \in Known : d.tag = e.tag => d = e)'
    BY <2>3 DEF TagsInv
  <2>8. ~chanOpen' => unacked' = {}
    BY <2>1, <2>4 DEF TagsInv
  <2> QED
    BY <2>5, <2>6, <2>7, <2>8 DEF TagsInv
<1> QED
  BY <1>1, <1>2, <1>3

-----------------------------------------------------------------------------
(* What is gone stays gone.                                                *)

LEMMA GoneStays ==
  ASSUME TypeOK, TagsInv, [Next]_vars, NEW m \in Msgs, Gone(m)
  PROVE  Gone(m)'
<1> USE DEF Gone, Held
<1>1. ASSUME NEW n \in Msgs, Enqueue(n) PROVE Gone(m)'
  BY <1>1 DEF Enqueue
<1>2. ASSUME NEW n \in Msgs, Deliver(n) PROVE Gone(m)'
  BY <1>2, NewKnown DEF Deliver
<1>3. CASE UNCHANGED queued /\ LoseChannel
  BY <1>3 DEF LoseChannel
<1>4. CASE Restart
  BY <1>4 DEF Restart
<1>5. CASE UNCHANGED brokerVars
  BY <1>5 DEF brokerVars
<1>6. ASSUME NEW q \in Consumers, Settle(q) PROVE Gone(m)'
  BY <1>3, <1>6, SettleKinds DEF brokerVars
<1> QED
  BY StepKinds, ChoosingKeeps, <1>1, <1>2, <1>3, <1>4, <1>5, <1>6
     DEF ChannelCloses, ResponseLost, SkipBadCompression, TakeBadDecompression,
         Take, LoopEnds, vars

-----------------------------------------------------------------------------
(* The order of deliveries.                                                *)

LEMMA OrderKept == ASSUME TypeOK, TagsInv, OrderInv, [Next]_vars PROVE OrderInv'
<1> USE DEF OrderInv
<1>1. ASSUME NEW q \in Consumers
      PROVE  /\ buffer[q] \in Seq(Deliveries)
             /\ Range(buffer[q]) \subseteq Known /\ Range(buffer[q]) \subseteq Deliveries
             /\ current[q] # NoDelivery => current[q] \in Known /\ current[q] \in Deliveries
  BY LocalTypes DEF TypeOK, ConsumerTypes, Known, Local, Consumers
<1>2. ASSUME UNCHANGED <<buffer, current>> PROVE OrderInv'
  BY <1>2 DEF Increasing
<1>3. ASSUME NEW m \in Msgs, Deliver(m) PROVE OrderInv'
  <2> SUFFICES ASSUME NEW q \in Consumers
               PROVE  /\ Increasing(buffer[q])'
                      /\ current'[q] # NoDelivery =>
                           \A d \in Range(buffer'[q]) : current'[q].tag < d.tag
    BY DEF Increasing
  <2> DEFINE d == [tag |-> nextTag, msg |-> m]
  <2>1. /\ d \in Deliveries
        /\ buffer'[q] = IF q = QueueOf(m) THEN Append(buffer[q], d) ELSE buffer[q]
        /\ Range(buffer'[q]) = IF q = QueueOf(m) THEN Range(buffer[q]) \cup {d}
                               ELSE Range(buffer[q])
    BY <1>3, NewDelivery
  <2>2. d.tag = nextTag
    OBVIOUS
  <2> HIDE DEF d
  <2>3. \A e \in Known : e.tag < d.tag
    BY <2>2 DEF TagsInv
  <2>4. Increasing(Append(buffer[q], d))
    BY <1>1, <2>1, <2>3, IncreasingAppend
  <2>5. Increasing(buffer'[q])
    BY <2>1, <2>4
  <2>6. current' = current
    BY <1>3 DEF Deliver
  <2> QED
    BY <1>1, <2>1, <2>3, <2>5, <2>6 DEF Increasing
<1>4. ASSUME NEW p \in Consumers, buffer[p] # << >>,
             buffer' = [buffer EXCEPT ![p] = Tail(@)],
             \/ current' = [current EXCEPT ![p] = Head(buffer[p])]
             \/ current' = current /\ current[p] = NoDelivery
      PROVE  OrderInv'
  <2> SUFFICES ASSUME NEW q \in Consumers
               PROVE  /\ Increasing(buffer[q])'
                      /\ current'[q] # NoDelivery =>
                           \A d \in Range(buffer'[q]) : current'[q].tag < d.tag
    BY DEF Increasing
  <2>1. buffer'[q] = IF p = q THEN Tail(buffer[q]) ELSE buffer[q]
    BY <1>4, Taken
  <2>2. CASE p = q
    <3>1. /\ Increasing(Tail(buffer[q]))
          /\ \A e \in Range(Tail(buffer[q])) : Head(buffer[q]).tag < e.tag
      BY <1>1, <1>4, <2>2, IncreasingTail
    <3>2. current'[q] = Head(buffer[q]) \/ current'[q] = NoDelivery
      BY <1>4, <2>2 DEF TypeOK, ConsumerTypes
    <3> QED
      BY <2>1, <2>2, <3>1, <3>2 DEF Increasing
  <2>3. CASE p # q
    <3>1. current'[q] = current[q]
      BY <1>4, <2>3 DEF TypeOK, ConsumerTypes
    <3> QED
      BY <2>1, <2>3, <3>1 DEF Increasing
  <2> QED
    BY <2>2, <2>3
<1>5. CASE SkipBadCompression
  BY <1>5, <1>4 DEF SkipBadCompression, Consumers, TypeOK, ConsumerTypes
<1>6. CASE TakeBadDecompression
  BY <1>6, <1>4 DEF TakeBadDecompression, Consumers
<1>7. ASSUME NEW q \in Consumers, Take(q) PROVE OrderInv'
  BY <1>7, <1>4 DEF Take
<1>8. ASSUME NEW p \in Consumers, Settle(p) PROVE OrderInv'
  BY <1>8 DEF Settle, Increasing, TypeOK, ConsumerTypes
<1>9. ASSUME NEW p \in Consumers, LoopEnds(p) PROVE OrderInv'
  <2> SUFFICES ASSUME NEW q \in Consumers
               PROVE  /\ Increasing(buffer[q])'
                      /\ current'[q] # NoDelivery =>
                           \A d \in Range(buffer'[q]) : current'[q].tag < d.tag
    BY DEF Increasing
  <2>1. current'[q] = current[q] /\ (buffer'[q] = << >> \/ buffer'[q] = buffer[q])
    BY <1>9 DEF LoopEnds, TypeOK, ConsumerTypes
  <2> QED
    BY <2>1, RangeEmpty DEF Increasing
<1>10. CASE Restart
  <2>1. \A q \in Consumers : buffer'[q] = << >> /\ current'[q] = NoDelivery
    BY <1>10 DEF Restart
  <2> QED
    BY <2>1, RangeEmpty DEF Increasing
<1> QED
  BY StepKinds, ChoosingKeeps, <1>2, <1>3, <1>5, <1>6, <1>7, <1>8, <1>9, <1>10
     DEF Enqueue, ChannelCloses, ResponseLost, vars, consumerVars

-----------------------------------------------------------------------------
(* What the broker waits for.                                              *)

Awaited(d) == d \in unacked \/ (~chanOpen /\ d.msg \in ready)

LEMMA CurrentLeaves ==
  ASSUME TypeOK, TagsInv, OrderInv, NEW p \in Consumers, Settle(p),
         NEW q \in Consumers, NEW d \in Local(q)'
  PROVE  /\ d \in Local(q) /\ current[p] \in Local(p)
         /\ d # current[p]
         /\ q = p => d.tag > current[p].tag
<1>1. /\ current[p] # NoDelivery
      /\ current'[p] = NoDelivery /\ buffer' = buffer
      /\ \A r \in Consumers : r # p => current'[r] = current[r]
  BY DEF Settle, TypeOK, ConsumerTypes
<1>2. current[p] \in Local(p) /\ d \in Local(q)
  BY <1>1 DEF Local
<1>3. CASE q = p
  <2>1. d \in Range(buffer[p])
    BY <1>1, <1>3 DEF Local
  <2>2. current[p].tag < d.tag /\ current[p].tag \in Nat /\ d.tag \in Nat
    BY <1>1, <1>2, <2>1, LocalTypes DEF OrderInv
  <2> QED
    BY <1>2, <2>2
<1>4. CASE q # p
  BY <1>2, <1>4 DEF TagsInv
<1> QED
  BY <1>2, <1>3, <1>4

\* The Ack(true) acknowledges the unreadable message it is for.
LEMMA BadIsAcknowledged ==
  ASSUME TypeOK, TagsInv, AwaitedInv, VerdictInv, NEW p \in Consumers, Settle(p),
         chanOpen, verdict[p] = "ackMultiple",
         unacked' = unacked \ {e \in unacked : e.tag <= current[p].tag},
         UNCHANGED ready
  PROVE  p = "decompression" /\ BadAcknowledged'
<1>1. p = "decompression" /\ current[p].msg \in BadMsgs /\ current[p] \in Local(p)
  BY CurrentTypes DEF VerdictInv, VerdictRight, TypeOK, ConsumerTypes
<1>2. current[p] \in unacked /\ current[p].tag \in Nat /\ current[p].msg \in Msgs
  BY <1>1, LocalTypes DEF AwaitedInv
<1>3. current[p] \notin unacked' /\ unacked' \subseteq unacked
  BY <1>2
<1>4. PICK m \in Msgs : m = current[p].msg
  BY <1>2
<1>5. m \in DecompressMsgs \cap BadMsgs
  BY <1>1, <1>4, QueueConstants DEF TagsInv
<1>6. m \in queued /\ m \notin ready /\ \A e \in unacked : e.msg = m => e = current[p]
  BY <1>2, <1>4 DEF TypeOK, BrokerTypes, Held
<1>7. queued' = queued /\ ready' = ready
  BY SettleKinds
<1>8. Gone(m)'
  BY <1>3, <1>6, <1>7 DEF Gone, Held
<1> QED
  BY <1>1, <1>5, <1>8 DEF BadAcknowledged

LEMMA AwaitedKept ==
  ASSUME TypeOK, TagsInv, OrderInv, AwaitedInv, VerdictInv, [Next]_vars,
         NEW q \in Consumers, NEW d \in Local(q)', d \in Local(q), Awaited(d)
  PROVE  Awaited(d)' \/ (q = "compression" /\ BadAcknowledged')
<1> USE DEF Awaited
<1>1. CASE LoseChannel
  BY <1>1 DEF LoseChannel, Held
<1>2. CASE UNCHANGED brokerVars
  BY <1>2 DEF brokerVars
<1>3. ASSUME NEW m \in Msgs, Enqueue(m) PROVE Awaited(d)'
  BY <1>3 DEF Enqueue
<1>4. ASSUME NEW m \in Msgs, Deliver(m) PROVE Awaited(d)'
  BY <1>4, NewKnown DEF Deliver
<1>5. CASE Restart
  BY <1>5, RestartEmpties
<1>6. ASSUME NEW p \in Consumers, Settle(p)
      PROVE  Awaited(d)' \/ (q = "compression" /\ BadAcknowledged')
  <2>1. d # current[p] /\ (q = p => d.tag > current[p].tag) /\ current[p] \in Local(p)
    BY <1>6, CurrentLeaves
  <2>2. CASE /\ chanOpen
             /\ verdict[p] = "ackMultiple"
             /\ unacked' = unacked \ {e \in unacked : e.tag <= current[p].tag}
             /\ UNCHANGED <<ready, nextTag, chanOpen, closes>>
    <3>1. p = "decompression" /\ current[p].msg \in BadMsgs
      BY <2>2 DEF VerdictInv, VerdictRight
    <3>2. CASE q = p
      <4>1. d.tag \in Nat /\ current[p].tag \in Nat
        BY <2>1, LocalTypes
      <4> QED
        BY <2>1, <2>2, <3>2, <4>1
    <3>3. CASE q # p
      BY <1>6, <2>2, <3>1, <3>3, BadIsAcknowledged, QueueConstants
    <3> QED
      BY <3>2, <3>3
  <2>3. CASE chanOpen /\ UNCHANGED chanOpen /\ unacked' = unacked \ {current[p]}
    BY <2>1, <2>3
  <2> QED
    BY <1>1, <1>2, <1>6, <2>2, <2>3, SettleKinds
<1> QED
  BY StepKinds, ChoosingKeeps, <1>1, <1>2, <1>3, <1>4, <1>5, <1>6
     DEF ChannelCloses, ResponseLost, SkipBadCompression, TakeBadDecompression,
         Take, LoopEnds, vars

LEMMA BadStays ==
  ASSUME TypeOK, TagsInv, [Next]_vars, BadAcknowledged PROVE BadAcknowledged'
<1>1. PICK m \in BadMsgs \cap DecompressMsgs : Gone(m)
  BY DEF BadAcknowledged
<1>2. Gone(m)'
  BY <1>1, GoneStays DEF Msgs
<1> QED
  BY <1>2 DEF BadAcknowledged

\* A decompression leaves its consumer only with its answer or its channel.
LEMMA DecompressionKeeps ==
  ASSUME TypeOK, TagsInv, [Next]_vars, NEW d \in Local("decompression"),
         d \in unacked'
  PROVE  d \in Local("decompression")' \/ d = current["decompression"]
<1> DEFINE q == "decompression"
<1> USE DEF Local, Consumers
<1>1. ASSUME UNCHANGED <<buffer, current>> PROVE d \in Local(q)'
  BY <1>1
<1>2. CASE Restart
  BY <1>2, RestartEmpties
<1>3. ASSUME NEW m \in Msgs, Deliver(m) PROVE d \in Local(q)'
  BY <1>3, NewKnown
<1>4. CASE SkipBadCompression
  <2>1. buffer'[q] = buffer[q] /\ current' = current
    BY <1>4 DEF SkipBadCompression, TypeOK, ConsumerTypes
  <2> QED
    BY <2>1
<1>5. ASSUME NEW p \in Consumers, buffer[p] # << >>,
             buffer' = [buffer EXCEPT ![p] = Tail(@)],
             current' = [current EXCEPT ![p] = Head(buffer[p])],
             current[p] = NoDelivery
      PROVE  d \in Local(q)'
  <2>1. CASE p = q
    <3>1. Range(buffer[q]) = {Head(buffer[q])} \cup Range(buffer'[q])
          /\ Head(buffer[q]) \in Deliveries
      BY <1>5, <2>1, Taken
    <3>2. current'[q] = Head(buffer[q])
      BY <1>5, <2>1 DEF TypeOK, ConsumerTypes
    <3> QED
      BY <1>5, <2>1, <3>1, <3>2, NoDeliveryIsNone
  <2>2. CASE p # q
    <3>1. buffer'[q] = buffer[q] /\ current'[q] = current[q]
      BY <1>5, <2>2 DEF TypeOK, ConsumerTypes
    <3> QED
      BY <3>1
  <2> QED
    BY <2>1, <2>2
<1>6. CASE TakeBadDecompression
  BY <1>6, <1>5 DEF TakeBadDecompression, TypeOK, ConsumerTypes
<1>7. ASSUME NEW p \in Consumers, Take(p) PROVE d \in Local(q)'
  BY <1>7, <1>5 DEF Take, TypeOK, ConsumerTypes
<1>8. ASSUME NEW p \in Consumers, Settle(p) PROVE d \in Local(q)' \/ d = current[q]
  BY <1>8 DEF Settle
<1>9. ASSUME NEW p \in Consumers, LoopEnds(p) PROVE FALSE
  BY <1>9 DEF LoopEnds, TagsInv, brokerVars
<1> QED
  BY StepKinds, ChoosingKeeps, <1>1, <1>2, <1>3, <1>4, <1>6, <1>7, <1>8, <1>9
     DEF Enqueue, ChannelCloses, ResponseLost, vars, consumerVars

LEMMA AwaitedInvKept ==
  ASSUME TypeOK, TagsInv, OrderInv, AwaitedInv, VerdictInv, [Next]_vars
  PROVE  AwaitedInv'
<1>1. ASSUME NEW q \in Consumers, NEW d \in Local(q)', d \notin Local(q)
      PROVE  d \in unacked'
  <2>1. PICK m \in Msgs : Deliver(m)
    BY <1>1, LocalShrinks
  <2> QED
    BY <1>1, <2>1, NewKnown
<1>2. ASSUME NEW d \in Local("compression")'
      PROVE  Awaited(d)' \/ BadAcknowledged'
  <2>1. CASE d \notin Local("compression")
    BY <1>1, <2>1 DEF Awaited, Consumers
  <2>2. CASE BadAcknowledged
    BY <2>2, BadStays
  <2>3. CASE d \in Local("compression") /\ Awaited(d)
    BY <2>3, AwaitedKept DEF Consumers
  <2> QED
    BY <2>1, <2>2, <2>3 DEF AwaitedInv, Awaited
<1>3. ASSUME NEW d \in Local("decompression")'
      PROVE  Awaited(d)'
  <2>1. CASE d \notin Local("decompression")
    BY <1>1, <2>1 DEF Awaited, Consumers
  <2>2. CASE d \in Local("decompression")
    BY <2>2, AwaitedKept DEF Consumers, AwaitedInv, Awaited
  <2> QED
    BY <2>1, <2>2
<1>4. ASSUME NEW d \in unacked', QueueOf(d.msg) = "decompression"
      PROVE  d \in Local("decompression")'
  <2>1. ASSUME NEW m \in Msgs, Deliver(m) PROVE d \in Local("decompression")'
    BY <1>4, <2>1, NewKnown DEF AwaitedInv, Consumers
  <2>2. CASE \A m \in Msgs : ~Deliver(m)
    <3>1. d \in unacked /\ d \in Local("decompression")
      BY <1>4, <2>2, UnackedShrinks DEF AwaitedInv
    <3>2. d \in Local("decompression")' \/ d = current["decompression"]
      BY <1>4, <3>1, DecompressionKeeps
    <3>3. CASE d = current["decompression"] /\ d \notin Local("decompression")'
      <4>1. Settle("decompression")
        <5>1. current'["decompression"] # current["decompression"]
          BY <3>1, <3>3, LocalTypes, NoDeliveryIsNone DEF Local, Consumers
        <5>2. step["decompression"] # "idle"
          BY <3>1, <3>3, LocalTypes, NoDeliveryIsNone DEF TypeOK, ConsumerTypes, Consumers
        <5>3. ~Restart
          BY <1>4 DEF Restart
        <5> QED
          BY <2>2, <5>1, <5>2, <5>3, StepKinds, ChoosingKeeps
             DEF Enqueue, ChannelCloses, ResponseLost, SkipBadCompression,
                 TakeBadDecompression, Take, LoopEnds, Settle, vars, consumerVars,
                 TypeOK, ConsumerTypes, Consumers
      <4>2. d.tag <= d.tag
        BY <3>1, LocalTypes DEF Known
      <4>3. d \notin unacked'
        BY <3>1, <3>3, <4>1, <4>2, SettleKinds DEF Consumers, LoseChannel, TagsInv
      <4> QED
        BY <1>4, <4>3
    <3> QED
      BY <3>2, <3>3
  <2> QED
    BY <2>1, <2>2
<1>5. (\A d \in unacked :
         QueueOf(d.msg) = "decompression" => d \in Local("decompression"))'
  BY <1>4 DEF QueueOf
<1>6. (\A d \in Local("compression") : Awaited(d) \/ BadAcknowledged)'
  BY <1>2
<1>7. (\A d \in Local("decompression") : Awaited(d))'
  BY <1>3
<1> QED
  BY <1>5, <1>6, <1>7 DEF AwaitedInv, Awaited

-----------------------------------------------------------------------------
(* Answers.                                                                *)

\* The consumers never have the same message in hand.
LEMMA HandsApart ==
  ASSUME TypeOK, TagsInv, NEW p \in Consumers, NEW q \in Consumers, p # q,
         current[p] # NoDelivery, current[q] # NoDelivery
  PROVE  current[p].msg # current[q].msg
BY DEF TagsInv, Local

LEMMA VerdictKept ==
  ASSUME TypeOK, TagsInv, VerdictInv, [Next]_vars PROVE VerdictInv'
<1> SUFFICES ASSUME NEW q \in Consumers PROVE VerdictRight(q)'
  BY DEF VerdictInv
<1> USE DEF VerdictRight
<1>1. /\ VerdictRight(q)
      /\ step[q] \in {"work", "publish", "settle"} <=> current[q] # NoDelivery
      /\ step[q] = "settle" <=> verdict[q] # "none"
      /\ current[q] # NoDelivery => current[q].msg \in Msgs
      /\ outcome \in [Msgs -> {"none", "done", "failed", "retry"}]
      /\ responses \in [Msgs -> Nat]
  BY CurrentTypes DEF VerdictInv, TypeOK, ConsumerTypes, GhostTypes
\* Nothing happens to the consumer, and only the other one's message changes.
<1>2. ASSUME current'[q] = current[q], verdict'[q] = verdict[q],
             step'[q] = step[q] \/ step'[q] = "ended",
             chanOpen' => chanOpen,
             current[q] # NoDelivery =>
               /\ outcome'[current[q].msg] = outcome[current[q].msg]
               /\ responses'[current[q].msg] = responses[current[q].msg]
      PROVE  VerdictRight(q)'
  BY <1>1, <1>2
<1>3. ASSUME UNCHANGED <<step, current, verdict, ghostVars>>, chanOpen' => chanOpen
      PROVE  VerdictRight(q)'
  BY <1>2, <1>3 DEF ghostVars
<1>4. ASSUME NEW p \in Consumers, NEW v, NEW o, Decide(p, v, o), p # q,
             current[p] # NoDelivery, current' = current, chanOpen' => chanOpen,
             \A m \in Msgs : m # current[p].msg => responses'[m] = responses[m]
      PROVE  VerdictRight(q)'
  <2>1. verdict'[q] = verdict[q] /\ step'[q] = step[q]
    BY <1>4 DEF Decide, TypeOK, ConsumerTypes
  <2>2. current[q] # NoDelivery =>
               /\ outcome'[current[q].msg] = outcome[current[q].msg]
               /\ responses'[current[q].msg] = responses[current[q].msg]
    BY <1>1, <1>4, HandsApart DEF Decide
  <2> QED
    BY <1>2, <1>4, <2>1, <2>2
<1>5. CASE CompressionEnds
  <2>1. /\ current' = current /\ chanOpen' = chanOpen /\ responses' = responses
        /\ current["compression"] # NoDelivery
    BY <1>5 DEF CompressionEnds, brokerVars, TypeOK, ConsumerTypes, Consumers
  <2>2. CASE q = "compression"
    BY <1>1, <1>5, <2>1, <2>2 DEF CompressionEnds, Decide, TypeOK, ConsumerTypes
  <2>3. CASE q # "compression"
    BY <1>4, <1>5, <2>1, <2>3 DEF CompressionEnds, Consumers
  <2> QED
    BY <2>2, <2>3
<1>6. CASE DecompressionFails
  <2>1. /\ current' = current /\ chanOpen' = chanOpen /\ responses' = responses
        /\ current["decompression"] # NoDelivery
    BY <1>6 DEF DecompressionFails, brokerVars, TypeOK, ConsumerTypes, Consumers
  <2>2. CASE q = "decompression"
    BY <1>1, <1>6, <2>1, <2>2 DEF DecompressionFails, Decide, TypeOK, ConsumerTypes
  <2>3. CASE q # "decompression"
    BY <1>4, <1>6, <2>1, <2>3 DEF DecompressionFails, Consumers
  <2> QED
    BY <2>2, <2>3
<1>7. CASE DecompressionEnds
  BY <1>1, <1>7 DEF DecompressionEnds, brokerVars, ghostVars, TypeOK, ConsumerTypes
<1>8. CASE ResponseAccepted
  <2>1. /\ current' = current /\ chanOpen' = chanOpen
        /\ current["decompression"] # NoDelivery
        /\ Decide("decompression", "ack", "done")
        /\ responses' = [responses EXCEPT ![current["decompression"].msg] = @ + 1]
    BY <1>8 DEF ResponseAccepted, brokerVars, TypeOK, ConsumerTypes, Consumers
  <2>2. CASE q = "decompression"
    <3>1. responses'[current[q].msg] >= 1
      BY <1>1, <2>1, <2>2
    <3> QED
      BY <1>1, <2>1, <2>2, <3>1 DEF Decide, TypeOK, ConsumerTypes
  <2>3. CASE q # "decompression"
    <3>1. \A m \in Msgs : m # current["decompression"].msg => responses'[m] = responses[m]
      BY <1>1, <2>1
    <3> QED
      BY <1>4, <2>1, <2>3, <3>1 DEF Consumers
  <2> QED
    BY <2>2, <2>3
<1>9. CASE ResponseLost
  <2>1. /\ current' = current /\ ~chanOpen' /\ responses' = responses
        /\ current["decompression"] # NoDelivery
        /\ Decide("decompression", "ack", "done")
    BY <1>9 DEF ResponseLost, LoseChannel, brokerVars, TypeOK, ConsumerTypes, Consumers
  <2>2. CASE q = "decompression"
    BY <1>1, <2>1, <2>2 DEF Decide, TypeOK, ConsumerTypes
  <2>3. CASE q # "decompression"
    BY <1>4, <2>1, <2>3 DEF Consumers
  <2> QED
    BY <2>2, <2>3
<1>10. CASE TakeBadDecompression
  BY <1>1, <1>10 DEF TakeBadDecompression, brokerVars, ghostVars, TypeOK, ConsumerTypes
<1>11. ASSUME NEW p \in Consumers, Take(p) PROVE VerdictRight(q)'
  BY <1>1, <1>11 DEF Take, brokerVars, ghostVars, TypeOK, ConsumerTypes
<1>12. ASSUME NEW p \in Consumers, Settle(p) PROVE VerdictRight(q)'
  <2>1. (chanOpen' => chanOpen) /\ UNCHANGED ghostVars
    BY <1>12 DEF Settle, LoseChannel, brokerVars
  <2>2. CASE p = q
    BY <1>12, <2>2 DEF Settle, TypeOK, ConsumerTypes
  <2>3. CASE p # q
    BY <1>2, <1>12, <2>1, <2>3 DEF Settle, TypeOK, ConsumerTypes, ghostVars
  <2> QED
    BY <2>2, <2>3
<1>13. ASSUME NEW p \in Consumers, LoopEnds(p) PROVE VerdictRight(q)'
  BY <1>2, <1>13 DEF LoopEnds, brokerVars, ghostVars, TypeOK, ConsumerTypes
<1>14. CASE Restart
  BY <1>14 DEF Restart
<1>15. ASSUME NEW m \in Msgs, Enqueue(m) \/ Deliver(m) PROVE VerdictRight(q)'
  BY <1>3, <1>15 DEF Enqueue, Deliver, consumerVars
<1>16. CASE ChannelCloses \/ SkipBadCompression \/ UNCHANGED vars
  BY <1>3, <1>16 DEF ChannelCloses, LoseChannel, SkipBadCompression, vars,
     brokerVars, consumerVars
<1> QED
  BY StepKinds, <1>5, <1>6, <1>7, <1>8, <1>9, <1>10, <1>11, <1>12, <1>13, <1>14,
     <1>15, <1>16 DEF Choosing

-----------------------------------------------------------------------------
(* What the broker is done with.                                           *)

Invs == TypeOK /\ TagsInv /\ OrderInv /\ AwaitedInv /\ VerdictInv

\* A message is gone with its own consumer's answer or with the Ack(true) for an
\* unreadable decompression, which takes no other decompression along.
LEMMA NewlyGone ==
  ASSUME Invs, [Next]_vars, NEW m \in Msgs, ~Gone(m), Gone(m)'
  PROVE  \E q \in Consumers :
           /\ Settle(q) /\ chanOpen
           /\ \/ verdict[q] \in {"ack", "drop"} /\ current[q].msg = m
              \/ BadAcknowledged' /\ (m \in DecompressMsgs => m \in BadMsgs)
<1> USE DEF Gone, Held
<1>1. ASSUME NEW n \in Msgs, Enqueue(n) PROVE FALSE
  BY <1>1 DEF Enqueue
<1>2. ASSUME NEW n \in Msgs, Deliver(n) PROVE FALSE
  BY <1>2, NewKnown DEF Deliver, Invs
<1>3. ASSUME UNCHANGED queued, LoseChannel PROVE FALSE
  BY <1>3 DEF LoseChannel
<1>4. ASSUME Restart PROVE FALSE
  BY <1>4 DEF Restart, Invs, TagsInv
<1>5. ASSUME UNCHANGED brokerVars PROVE FALSE
  BY <1>5 DEF brokerVars
<1>6. PICK q \in Consumers : Settle(q)
  BY StepKinds, ChoosingKeeps, <1>1, <1>2, <1>3, <1>4, <1>5
     DEF ChannelCloses, ResponseLost, SkipBadCompression, TakeBadDecompression,
         Take, LoopEnds, vars
<1>7. CASE /\ chanOpen
           /\ verdict[q] = "ackMultiple"
           /\ unacked' = unacked \ {d \in unacked : d.tag <= current[q].tag}
           /\ UNCHANGED <<queued, ready, nextTag, chanOpen, closes>>
  <2>1. q = "decompression" /\ BadAcknowledged'
    BY <1>6, <1>7, BadIsAcknowledged DEF Invs
  <2>2. PICK d \in unacked : d.msg = m /\ d.tag <= current[q].tag
    BY <1>7
  <2>3. ASSUME m \in DecompressMsgs PROVE m \in BadMsgs
    <3>1. d \in Local(q) /\ current[q] # NoDelivery
      BY <1>6, <2>1, <2>2, <2>3, QueueConstants
         DEF Invs, AwaitedInv, Settle, TypeOK, ConsumerTypes
    <3>2. d.tag \in Nat /\ current[q].tag \in Nat
      BY <3>1, LocalTypes, CurrentTypes DEF Invs
    <3>3. d = current[q]
      BY <2>2, <3>1, <3>2 DEF Invs, OrderInv, Local
    <3> QED
      BY <1>7, <2>2, <3>3 DEF Invs, VerdictInv, VerdictRight
  <2> QED
    BY <1>6, <1>7, <2>1, <2>3
<1>8. CASE chanOpen /\ verdict[q] \in {"ack", "drop"}
           /\ unacked' = unacked \ {current[q]} /\ UNCHANGED <<queued, ready>>
  BY <1>6, <1>8
<1>9. CASE unacked' = unacked \ {current[q]}
           /\ ready' = ready \cup {current[q].msg} /\ UNCHANGED queued
  BY <1>9
<1> QED
  BY <1>3, <1>5, <1>6, <1>7, <1>8, <1>9, SettleKinds DEF Invs

\* A consumer that is about to decide has a message that is not gone, but for
\* the Ack(true).
LEMMA InHandNotGone ==
  ASSUME Invs, NEW q \in Consumers, current[q] # NoDelivery
  PROVE  \/ ~Gone(current[q].msg)
         \/ q = "compression" /\ BadAcknowledged
BY CurrentTypes, QueueConstants DEF Invs, AwaitedInv, Gone, Held

\* An outcome changes only for a message in hand.
LEMMA OutcomeChanges ==
  ASSUME Invs, [Next]_vars, NEW m \in Msgs, outcome'[m] # outcome[m]
  PROVE  \E q \in Consumers :
           /\ current[q] # NoDelivery /\ current[q].msg = m
           /\ \/ q = "compression" /\ CompressionEnds
              \/ q = "decompression" /\
                   (DecompressionFails \/ ResponseAccepted \/ ResponseLost)
<1>1. CompressionEnds \/ DecompressionFails \/ ResponseAccepted \/ ResponseLost
  BY StepKinds DEF Choosing, Enqueue, Deliver, ChannelCloses, Restart,
     SkipBadCompression, TakeBadDecompression, DecompressionEnds, Take, Settle,
     LoopEnds, vars, ghostVars
<1>2. outcome \in [Msgs -> {"none", "done", "failed", "retry"}]
  BY DEF Invs, TypeOK, GhostTypes
<1>3. CASE CompressionEnds
  <2>1. current["compression"] # NoDelivery
    BY <1>3 DEF CompressionEnds, Invs, TypeOK, ConsumerTypes, Consumers
  <2> QED
    BY <1>2, <1>3, <2>1 DEF CompressionEnds, Decide, Consumers
<1>4. CASE DecompressionFails \/ ResponseAccepted \/ ResponseLost
  <2>1. current["decompression"] # NoDelivery
    BY <1>4 DEF DecompressionFails, ResponseAccepted, ResponseLost, Invs, TypeOK,
       ConsumerTypes, Consumers
  <2> QED
    BY <1>2, <1>4, <2>1
       DEF DecompressionFails, ResponseAccepted, ResponseLost, Decide, Consumers
<1> QED
  BY <1>1, <1>3, <1>4

LEMMA HandlingKept ==
  ASSUME Invs, GoneOnlyAfterHandling, [Next]_vars PROVE GoneOnlyAfterHandling'
<1> SUFFICES ASSUME NEW m \in Msgs \ BadMsgs, Gone(m)',
                    ~(m \in CompressMsgs /\ BadAcknowledged')
             PROVE  outcome'[m] \in {"done", "failed"}
  BY DEF GoneOnlyAfterHandling
<1>1. ~(m \in CompressMsgs /\ BadAcknowledged)
  BY BadStays DEF Invs
<1>2. CASE Gone(m)
  <2>1. outcome[m] \in {"done", "failed"}
    BY <1>1, <1>2 DEF GoneOnlyAfterHandling
  <2>2. ASSUME NEW q \in Consumers, current[q] # NoDelivery, current[q].msg = m
        PROVE  FALSE
    <3>1. q = "compression" /\ BadAcknowledged
      BY <1>2, <2>2, InHandNotGone
    <3>2. QueueOf(m) = q
      BY <2>2, CurrentTypes DEF Invs, TagsInv
    <3> QED
      BY <1>1, <3>1, <3>2 DEF QueueOf
  <2>3. outcome'[m] = outcome[m]
    BY <2>2, OutcomeChanges
  <2> QED
    BY <2>1, <2>3
<1>3. CASE ~Gone(m)
  <2>1. m \in CompressMsgs \/ m \in DecompressMsgs
    BY DEF Msgs
  <2>2. PICK q \in Consumers : /\ Settle(q) /\ verdict[q] \in {"ack", "drop"}
                               /\ current[q].msg = m
    BY <1>3, <2>1, NewlyGone
  <2>3. outcome[m] \in {"done", "failed"}
    BY <2>2 DEF Invs, VerdictInv, VerdictRight
  <2> QED
    BY <2>2, <2>3 DEF Settle, ghostVars
<1> QED
  BY <1>2, <1>3

\* Responses are counted up, by ResponseAccepted only.
LEMMA ResponsesGrow ==
  ASSUME Invs, [Next]_vars, NEW m \in Msgs
  PROVE  /\ responses[m] \in Nat /\ responses'[m] \in Nat
         /\ \/ responses'[m] = responses[m]
            \/ /\ ResponseAccepted
               /\ current["decompression"].msg = m
               /\ responses'[m] = responses[m] + 1
<1>1. responses \in [Msgs -> Nat]
  BY DEF Invs, TypeOK, GhostTypes
<1>2. CASE ResponseAccepted
  BY <1>1, <1>2 DEF ResponseAccepted
<1>3. CASE ~ResponseAccepted
  <2>1. responses' = responses
    BY <1>3, StepKinds
       DEF Choosing, Enqueue, Deliver, ChannelCloses, Restart, SkipBadCompression,
           TakeBadDecompression, CompressionEnds, DecompressionFails,
           DecompressionEnds, ResponseLost, Take, Settle, LoopEnds, vars, ghostVars
  <2> QED
    BY <1>1, <2>1
<1> QED
  BY <1>2, <1>3

LEMMA ResponseKept ==
  ASSUME Invs, ResponseBeforeAck, [Next]_vars PROVE ResponseBeforeAck'
<1> SUFFICES ASSUME NEW m \in DecompressMsgs \ BadMsgs, Gone(m)', outcome'[m] = "done"
             PROVE  responses'[m] >= 1
  BY DEF ResponseBeforeAck
<1>1. m \in Msgs /\ QueueOf(m) = "decompression"
  BY QueueConstants DEF Msgs
<1>2. \A q \in Consumers :
        current[q] # NoDelivery /\ current[q].msg = m => q = "decompression"
  BY <1>1, CurrentTypes DEF Invs, TagsInv
<1>3. CASE Gone(m)
  <2>1. outcome'[m] = outcome[m]
    BY <1>1, <1>2, <1>3, OutcomeChanges, InHandNotGone
  <2>2. responses[m] >= 1
    BY <1>3, <2>1 DEF ResponseBeforeAck
  <2> QED
    BY <1>1, <2>2, ResponsesGrow
<1>4. CASE ~Gone(m)
  <2>1. PICK q \in Consumers : /\ Settle(q) /\ chanOpen
                               /\ verdict[q] \in {"ack", "drop"}
                               /\ current[q].msg = m
    BY <1>1, <1>4, NewlyGone
  <2>2. q = "decompression" /\ outcome[m] = "done"
    BY <1>2, <2>1 DEF Settle, Invs, TypeOK, ConsumerTypes, ghostVars
  <2>3. responses[m] >= 1
    BY <2>1, <2>2 DEF Invs, VerdictInv, VerdictRight
  <2> QED
    BY <1>1, <2>3, ResponsesGrow
<1> QED
  BY <1>3, <1>4

\* The acknowledgement follows the response, or the channel is lost.
LEMMA AnsweringEnds ==
  ASSUME Invs, [Next]_vars, NEW m \in DecompressMsgs, Answering(m)
  PROVE  closes' = closes + 1 \/ Answering(m)' \/ Gone(m)'
<1> DEFINE q == "decompression"
<1> USE DEF Answering
<1>1. /\ q \in Consumers /\ step[q] = "settle" /\ chanOpen
      /\ current[q] # NoDelivery /\ current[q] \in unacked /\ m \in queued
  BY CurrentTypes DEF Invs, TypeOK, ConsumerTypes, BrokerTypes, Consumers, AwaitedInv,
     Held
<1>2. ASSUME current'[q] = current[q], verdict'[q] = verdict[q],
             UNCHANGED chanOpen
      PROVE  Answering(m)'
  BY <1>2
<1>3. CASE LoseChannel
  BY <1>3 DEF LoseChannel
<1>4. CASE Settle(q)
  <2>1. /\ unacked' = unacked \ {current[q]} /\ UNCHANGED <<queued, ready>>
    BY <1>1, <1>4, SettleKinds DEF Invs
  <2> QED
    BY <1>1, <2>1 DEF Gone, Held, Invs, TypeOK, BrokerTypes
<1>5. ASSUME NEW p \in Consumers, p # q, Settle(p)
      PROVE  LoseChannel \/ Answering(m)'
  <2>1. current'[q] = current[q] /\ verdict'[q] = verdict[q]
    BY <1>5 DEF Settle, Invs, TypeOK, ConsumerTypes
  <2> QED
    BY <1>1, <1>2, <1>5, <2>1, SettleKinds DEF Invs
<1>6. ASSUME NEW p \in Consumers, Take(p) PROVE Answering(m)'
  BY <1>1, <1>2, <1>6 DEF Take, brokerVars, Invs, TypeOK, ConsumerTypes
<1>7. CASE CompressionEnds
  BY <1>1, <1>2, <1>7 DEF CompressionEnds, Decide, brokerVars, Invs, TypeOK, ConsumerTypes
<1>8. CASE SkipBadCompression \/ UNCHANGED vars
  BY <1>2, <1>8 DEF SkipBadCompression, vars, brokerVars, consumerVars
<1>9. ASSUME NEW n \in Msgs, Enqueue(n) \/ Deliver(n) PROVE Answering(m)'
  BY <1>2, <1>9 DEF Enqueue, Deliver, consumerVars
<1>10. CASE Restart
  BY <1>1, <1>10 DEF Restart
<1>11. ~(\/ DecompressionFails \/ DecompressionEnds \/ ResponseAccepted
         \/ ResponseLost \/ TakeBadDecompression)
  BY <1>1 DEF DecompressionFails, DecompressionEnds, ResponseAccepted, ResponseLost,
     TakeBadDecompression
<1>12. \A p \in Consumers : ~LoopEnds(p)
  BY <1>1 DEF LoopEnds
<1> QED
  BY StepKinds, <1>3, <1>4, <1>5, <1>6, <1>7, <1>8, <1>9, <1>10, <1>11, <1>12
     DEF Choosing, ChannelCloses

LEMMA ClosesGrow ==
  ASSUME Invs, [Next]_vars
  PROVE  closes \in Nat /\ closes' \in Nat /\ closes' >= closes
<1>1. closes \in Nat
  BY DEF Invs, TypeOK, BrokerTypes
<1>2. closes' = closes \/ closes' = closes + 1
  <2> USE DEF LoseChannel, brokerVars
  <2>1. CASE \E q \in Consumers : Settle(q)
    BY <2>1 DEF Settle
  <2>2. CASE Choosing
    BY <2>2, ChoosingKeeps
  <2>3. CASE ChannelCloses \/ Restart \/ ResponseLost
    BY <2>3 DEF ChannelCloses, Restart, ResponseLost
  <2> QED
    BY <2>1, <2>2, <2>3, StepKinds
       DEF Enqueue, Deliver, SkipBadCompression, TakeBadDecompression, Take,
           LoopEnds, vars
<1> QED
  BY <1>1, <1>2

LEMMA RepeatKept == ASSUME Invs, RepeatInv, [Next]_vars PROVE RepeatInv'
<1> SUFFICES ASSUME NEW m \in DecompressMsgs
             PROVE  \/ responses'[m] <= closes'
                    \/ responses'[m] <= 1 + closes' /\ (Gone(m)' \/ Answering(m)')
  BY DEF RepeatInv
<1>1. m \in Msgs /\ QueueOf(m) = "decompression"
  BY QueueConstants DEF Msgs
<1>2. /\ responses[m] \in Nat /\ responses'[m] \in Nat
      /\ closes \in Nat /\ closes' \in Nat /\ closes' >= closes
  BY <1>1, ResponsesGrow, ClosesGrow
<1>3. \/ responses[m] <= closes
      \/ responses[m] <= 1 + closes /\ (Gone(m) \/ Answering(m))
  BY DEF RepeatInv
<1>4. CASE ResponseAccepted /\ current["decompression"].msg = m
  <2>1. /\ chanOpen /\ chanOpen' /\ current' = current
        /\ verdict["decompression"] = "none" /\ verdict'["decompression"] = "ack"
        /\ current["decompression"] # NoDelivery
    BY <1>4 DEF ResponseAccepted, Decide, brokerVars, Invs, TypeOK, ConsumerTypes,
       Consumers
  <2>2. ~Answering(m) /\ Answering(m)'
    BY <1>4, <2>1 DEF Answering
  <2>3. ~Gone(m)
    BY <1>4, <2>1, InHandNotGone, QueueConstants
  <2>4. responses'[m] <= responses[m] + 1
    BY <1>1, ResponsesGrow
  <2> QED
    BY <1>2, <1>3, <2>2, <2>3, <2>4
<1>5. CASE ~(ResponseAccepted /\ current["decompression"].msg = m)
  <2>1. responses'[m] = responses[m]
    BY <1>1, <1>5, ResponsesGrow
  <2>2. Gone(m) => Gone(m)'
    BY <1>1, GoneStays DEF Invs
  <2>3. Answering(m) => closes' = closes + 1 \/ Answering(m)' \/ Gone(m)'
    BY AnsweringEnds
  <2> QED
    BY <1>2, <1>3, <2>1, <2>2, <2>3
<1> QED
  BY <1>4, <1>5

-----------------------------------------------------------------------------
(* The theorems.                                                           *)

IInv == Invs /\ GoneOnlyAfterHandling /\ ResponseBeforeAck /\ RepeatInv

LEMMA InvInit == Init => IInv
<1> SUFFICES ASSUME Init PROVE IInv
  OBVIOUS
<1> USE DEF Init
<1>1. \A q \in Consumers : Local(q) = {} /\ Range(buffer[q]) = {} /\ Increasing(buffer[q])
  BY RangeEmpty DEF Local
<1>2. Known = {}
  BY <1>1 DEF Known, Consumers
<1>3. buffer \in [Consumers -> Seq(Deliveries)]
  BY RangeEmpty
<1>4. TypeOK
  BY <1>3, BoundsAreNat DEF TypeOK, BrokerTypes, ConsumerTypes, GhostTypes, Held
<1>5. TagsInv /\ AwaitedInv
  BY <1>1, <1>2 DEF TagsInv, AwaitedInv, Consumers
<1>6. OrderInv /\ VerdictInv
  BY <1>1 DEF OrderInv, VerdictInv, VerdictRight
<1>7. \A m \in Msgs : ~Gone(m)
  BY DEF Gone
<1>8. GoneOnlyAfterHandling /\ ResponseBeforeAck /\ RepeatInv
  BY <1>7 DEF GoneOnlyAfterHandling, ResponseBeforeAck, RepeatInv, Msgs
<1> QED
  BY <1>4, <1>5, <1>6, <1>8 DEF IInv, Invs

LEMMA InvKept == ASSUME IInv, [Next]_vars PROVE IInv'
<1>1. TypeOK' /\ TagsInv' /\ OrderInv' /\ AwaitedInv' /\ VerdictInv'
  BY TypeKept, TagsKept, OrderKept, AwaitedInvKept, VerdictKept DEF IInv, Invs
<1>2. GoneOnlyAfterHandling' /\ ResponseBeforeAck' /\ RepeatInv'
  BY HandlingKept, ResponseKept, RepeatKept DEF IInv
<1> QED
  BY <1>1, <1>2 DEF IInv, Invs

\* Deliveries, tags, answers and queues agree, whatever the network does.
THEOREM Agreed == Spec => []IInv
<1>1. IInv /\ [Next]_vars => IInv'
  BY InvKept
<1> QED
  BY <1>1, InvInit, PTL DEF Spec

\* Types, and that the broker holds each message once, ready or unacknowledged.
THEOREM TypeCorrect == Spec => []TypeOK
<1>1. IInv => TypeOK
  BY DEF IInv, Invs
<1> QED
  BY <1>1, Agreed, PTL

\* No message leaves the broker unhandled, but a compression by the Ack(true).
THEOREM HandledBeforeGone == Spec => []GoneOnlyAfterHandling
<1>1. IInv => GoneOnlyAfterHandling
  BY DEF IInv
<1> QED
  BY <1>1, Agreed, PTL

\* No answer closes the channel under the other consumer, but one of the
\* compression consumer after the Ack(true).
THEOREM KnownTagsOnly == Spec => []AnswersKnownTag
<1>1. IInv => AnswersKnownTag
  BY CurrentTypes, QueueConstants DEF IInv, Invs, AwaitedInv, AnswersKnownTag
<1> QED
  BY <1>1, Agreed, PTL

\* A request is acknowledged as done only with its response at the broker.
THEOREM ResponseFirst == Spec => []ResponseBeforeAck
<1>1. IInv => ResponseBeforeAck
  BY DEF IInv
<1> QED
  BY <1>1, Agreed, PTL

\* One response more than lost channels at most.
THEOREM BoundedRepeats == Spec => []RepeatsNeedLoss
<1>1. IInv => RepeatsNeedLoss
  <2> SUFFICES ASSUME IInv, NEW m \in DecompressMsgs PROVE responses[m] <= 1 + closes
    BY DEF RepeatsNeedLoss
  <2>1. responses[m] \in Nat /\ closes \in Nat
    BY DEF IInv, Invs, TypeOK, GhostTypes, BrokerTypes, Msgs
  <2> QED
    BY <2>1 DEF IInv, RepeatInv
<1> QED
  BY <1>1, Agreed, PTL
=============================================================================
