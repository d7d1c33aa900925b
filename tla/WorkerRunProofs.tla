-------------------------- MODULE WorkerRunProofs --------------------------
(***************************************************************************)
(* Theorems about WorkerRun: for any number of processes one after another. *)
(***************************************************************************)
EXTENDS WorkerRun, TLAPS

\* What each step of StartConsumer finds done by the steps before it.
SetUpInv ==
  /\ run = "declare2" => "compress" \in bound
  /\ run \in {"consume1", "consume2"} => bound = Queues
  /\ run = "consume2" /\ channel = "open" => "compress" \in consumed

\* From Go on both loops run until the channel closes; after that Run goes on.
LoopsInv ==
  /\ run \in {"listen", "block"} /\ channel = "open" => loops = Queues
  /\ run \in {"wait", "closing", "exited", "panicked"} => channel = "closed"

IInv == TypeOK /\ SetUpInv /\ LoopsInv

LEMMA InvInit == Init => IInv
<1> SUFFICES ASSUME Init PROVE IInv
  OBVIOUS
<1>1. starts \in 1 .. MaxStarts
  BY MaxStartsIsPositive DEF Init
<1>2. loops \in SUBSET Queues /\ consumed \subseteq bound
  BY DEF Init
<1> QED
  BY <1>1, <1>2 DEF Init, IInv, TypeOK, SetUpInv, LoopsInv, SetUpSteps

LEMMA InvKept == ASSUME IInv, [Next]_vars PROVE IInv'
<1> USE MaxStartsIsPositive
        DEF IInv, TypeOK, SetUpInv, LoopsInv, SetUpSteps, Queues
<1>1. CASE Declare
  BY <1>1 DEF Declare, SetUpStep
<1>2. CASE Consume
  BY <1>2 DEF Consume, SetUpStep
<1>3. CASE SetUpFails
  BY <1>3 DEF SetUpFails
<1>4. CASE Go
  BY <1>4 DEF Go
<1>5. CASE Listen
  BY <1>5 DEF Listen
<1>6. CASE ListenTooLate
  BY <1>6 DEF ListenTooLate
<1>7. CASE Unblock
  BY <1>7 DEF Unblock
<1>8. CASE Stop
  BY <1>8 DEF Stop
<1>9. CASE Close
  BY <1>9 DEF Close
<1>10. CASE ChannelCloses
  BY <1>10 DEF ChannelCloses
<1>11. CASE Signal
  BY <1>11 DEF Signal
<1>12. CASE StartAgain
  <2>1. starts' \in 1 .. MaxStarts
    BY <1>12 DEF StartAgain
  <2>2. consumed' \subseteq bound' /\ loops' \in SUBSET Queues
    BY <1>12 DEF StartAgain
  <2> QED
    BY <1>12, <2>1, <2>2 DEF StartAgain
<1>13. ASSUME NEW q \in Queues, LoopEnds(q) PROVE IInv'
  BY <1>13 DEF LoopEnds
<1>14. CASE UNCHANGED vars
  BY <1>14 DEF vars
<1> QED
  BY <1>1, <1>2, <1>3, <1>4, <1>5, <1>6, <1>7, <1>8, <1>9, <1>10, <1>11,
     <1>12, <1>13, <1>14 DEF Next, Run

\* The set-up's order and the types.
THEOREM SetUpInOrder == Spec => []IInv
<1>1. IInv /\ [Next]_vars => IInv'
  BY InvKept
<1> QED
  BY <1>1, InvInit, PTL DEF Spec

\* No queue is consumed without a loop that handles it, whichever step of the
\* set-up fails and whenever the channel is lost.
THEOREM NothingConsumedInVain == Spec => []ConsumedIsHandled
<1>1. IInv => ConsumedIsHandled
  BY DEF IInv, TypeOK, LoopsInv, ConsumedIsHandled, SetUpSteps, Queues
<1> QED
  BY <1>1, SetUpInOrder, PTL
=============================================================================
