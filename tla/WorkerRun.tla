----------------------------- MODULE WorkerRun -----------------------------
(***************************************************************************)
(* The life of the worker's process: internal/worker/worker.go and         *)
(* StartConsumer of internal/controller/rmq/amqp_worker.go, which declares *)
(* two queues, starts two consumers and waits for its channel to close.     *)
(* AMQPWorker is what happens between the two.                             *)
(***************************************************************************)
EXTENDS Naturals

\* In the order in which StartConsumer goes through them.
Queues == {"compress", "decompress"}

VARIABLES
  run,      \* where Run, and StartConsumer in it, stands
  channel,  \* the AMQP channel
  bound,    \* the durable queues that are declared and bound
  consumed, \* the queues the broker delivers to this channel
  loops,    \* the queues whose loop runs
  signalled,
  starts    \* the processes started so far

vars == <<run, channel, bound, consumed, loops, signalled, starts>>

CONSTANT MaxStarts \* bound on the processes

ASSUME MaxStartsIsPositive == MaxStarts \in Nat \ {0}

SetUpSteps == {"declare1", "declare2", "consume1", "consume2", "go"}

TypeOK ==
  /\ run \in SetUpSteps \cup {"listen", "block", "wait", "closing", "exited", "panicked"}
  /\ channel \in {"open", "closed"}
  /\ bound \in {{}, {"compress"}, Queues}
  /\ consumed \in {{}, {"compress"}, Queues}
  /\ loops \in SUBSET Queues
  /\ signalled \in BOOLEAN
  /\ starts \in 1 .. MaxStarts
  /\ consumed \subseteq bound
  /\ channel = "closed" => consumed = {}

\* NewAMQPWorker has its channel.  The queues may be there from earlier runs.
Init ==
  /\ run = "declare1"
  /\ channel = "open"
  /\ bound \in {{}, {"compress"}, Queues}
  /\ consumed = {}
  /\ loops = {}
  /\ signalled = FALSE
  /\ starts = 1

-----------------------------------------------------------------------------
(* StartConsumer.                                                          *)

SetUpStep(from, to) ==
  /\ run = from
  /\ channel = "open"
  /\ run' = to
  /\ UNCHANGED <<channel, loops, signalled, starts>>

\* SetupExchangeAndQueue, which changes nothing that is already there.
Declare ==
  /\ \/ SetUpStep("declare1", "declare2") /\ bound' = bound \cup {"compress"}
     \/ SetUpStep("declare2", "consume1") /\ bound' = bound \cup {"decompress"}
  /\ UNCHANGED consumed

Consume ==
  /\ \/ SetUpStep("consume1", "consume2") /\ consumed' = consumed \cup {"compress"}
     \/ SetUpStep("consume2", "go") /\ consumed' = consumed \cup {"decompress"}
  /\ UNCHANGED bound

\* A call on a channel that is closed, or that the broker closes because of the
\* call: StartConsumer returns its error, which Run logs before it waits.
SetUpFails ==
  /\ run \in {"declare1", "declare2", "consume1", "consume2"}
  /\ channel' = "closed"
  /\ consumed' = {}
  /\ run' = "wait"
  /\ UNCHANGED <<bound, loops, signalled, starts>>

\* Mutant: a loop is started for one of the queues only.
GoOne ==
  /\ run = "go"
  /\ loops' = {"compress"}
  /\ run' = "listen"
  /\ UNCHANGED <<channel, bound, consumed, signalled, starts>>

Go ==
  /\ run = "go"
  /\ loops' = Queues
  /\ run' = "listen"
  /\ UNCHANGED <<channel, bound, consumed, signalled, starts>>

\* NotifyClose on an open channel.
Listen ==
  /\ run = "listen"
  /\ channel = "open"
  /\ run' = "block"
  /\ UNCHANGED <<channel, bound, consumed, loops, signalled, starts>>

\* On a closed one it closes its argument: StartConsumer returns a nil
\* *amqp.Error as an error that is not nil, and logging it is a nil dereference.
ListenTooLate ==
  /\ run = "listen"
  /\ channel = "closed"
  /\ run' = "panicked"
  /\ loops' = {}
  /\ UNCHANGED <<channel, bound, consumed, signalled, starts>>

\* Mutant: StartConsumer waits for a value that a closed channel never sends.
BlockForGood ==
  /\ run = "block"
  /\ channel = "closed"
  /\ UNCHANGED vars

\* The error of the channel arrives; StartConsumer returns it and Run logs it.
Unblock ==
  /\ run = "block"
  /\ channel = "closed"
  /\ run' = "wait"
  /\ UNCHANGED <<channel, bound, consumed, loops, signalled, starts>>

-----------------------------------------------------------------------------
(* The loops, the broker and the rest of Run.                              *)

\* The range over the deliveries ends, once the delivery in hand is done with.
LoopEnds(q) ==
  /\ q \in loops
  /\ channel = "closed"
  /\ loops' = loops \ {q}
  /\ UNCHANGED <<run, channel, bound, consumed, signalled, starts>>

ChannelCloses ==
  /\ run \notin {"exited", "panicked"}
  /\ channel = "open"
  /\ channel' = "closed"
  /\ consumed' = {}
  /\ UNCHANGED <<run, bound, loops, signalled, starts>>

\* SIGTERM.  Until Run has called signal.Notify it simply ends the process.
Signal ==
  \/ /\ run \in {"wait", "closing"}
     /\ ~signalled
     /\ signalled' = TRUE
     /\ UNCHANGED <<run, channel, bound, consumed, loops, starts>>
  \/ /\ run \in SetUpSteps \cup {"listen", "block"}
     /\ run' = "exited"
     /\ channel' = "closed"
     /\ consumed' = {}
     /\ loops' = {}
     /\ UNCHANGED <<bound, signalled, starts>>

Stop ==
  /\ run = "wait"
  /\ signalled
  /\ signalled' = FALSE
  /\ run' = "closing"
  /\ UNCHANGED <<channel, bound, consumed, loops, starts>>

\* CloseChan, the database, and the end of main.
Close ==
  /\ run = "closing"
  /\ run' = "exited"
  /\ channel' = "closed"
  /\ consumed' = {}
  /\ loops' = {}
  /\ UNCHANGED <<bound, signalled, starts>>

\* Whatever watches over the process starts it again.
StartAgain ==
  /\ run \in {"exited", "panicked"}
  /\ starts < MaxStarts
  /\ starts' = starts + 1
  /\ run' = "declare1"
  /\ channel' = "open"
  /\ consumed' = {}
  /\ signalled' = FALSE
  /\ UNCHANGED <<bound, loops>>

Run ==
  \/ Declare \/ Consume \/ SetUpFails \/ Go \/ Listen \/ ListenTooLate
  \/ Unblock \/ Stop \/ Close

Next ==
  \/ Run \/ ChannelCloses \/ Signal \/ StartAgain
  \/ \E q \in Queues : LoopEnds(q)

Spec == Init /\ [][Next]_vars

\* The goroutines run; what a loop has in hand comes to an end (AMQPWorker).
FairSpec == Spec /\ WF_vars(Run) /\ \A q \in Queues : WF_vars(LoopEnds(q))

-----------------------------------------------------------------------------
(* Properties.                                                             *)

\* Once StartConsumer is past its set-up no queue is consumed without a loop to
\* handle what the broker delivers: a set-up that fails half way gives back the
\* consumer it had, as every failure takes the channel along.
ConsumedIsHandled == run \notin SetUpSteps => consumed \subseteq loops

\* A worker whose channel is lost, at any step of the set-up or later, does not
\* hang: both loops end, and it waits for its signal or has ended.
LossIsNoticed ==
  channel = "closed" /\ run # "exited"
    ~> \/ loops = {} /\ run \in {"wait", "closing", "exited", "panicked"}
       \/ channel = "open"
=============================================================================
