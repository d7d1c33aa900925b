-------------------------- MODULE LifecycleProofs --------------------------
(***************************************************************************)
(* Theorems about Lifecycle: for any requests and any deadlines.            *)
(***************************************************************************)
EXTENDS Lifecycle, TLAPS

LEMMA MaxAgeIsNat == MaxAge \in Nat
BY TimeoutsAreNat DEF MaxAge

LEMMA TypeInit == Init => TypeOK
<1> SUFFICES ASSUME Init PROVE TypeOK
  OBVIOUS
<1>1. age \in [Requests -> 0 .. MaxAge] /\ grace \in 0 .. ShutdownTimeout + 1
  BY MaxAgeIsNat, TimeoutsAreNat DEF Init
<1> QED
  BY <1>1 DEF Init, TypeOK, Running

LEMMA TypeKept == ASSUME TypeOK, [Next]_vars PROVE TypeOK'
<1> USE TimeoutsAreNat, MaxAgeIsNat DEF TypeOK, Running, processVars, requestVars, clockVars,
        Exit, Open
<1>1. CASE SetUp BY <1>1 DEF SetUp
<1>2. CASE Start BY <1>2 DEF Start
<1>3. CASE Stop BY <1>3 DEF Stop
<1>4. CASE BeginShutdown BY <1>4 DEF BeginShutdown
<1>5. CASE Return BY <1>5 DEF Return
<1>6. CASE SendError BY <1>6 DEF SendError
<1>7. CASE Consume BY <1>7 DEF Consume
<1>8. CASE ConsumeFails BY <1>8 DEF ConsumeFails
<1>9. CASE Signal BY <1>9 DEF Signal
<1>10. CASE ListenFails BY <1>10 DEF ListenFails
<1>11. CASE ChannelCloses BY <1>11 DEF ChannelCloses
<1>12. CASE Tick
  <2>1. age' \in [Requests -> 0 .. MaxAge]
    BY <1>12 DEF Tick
  <2>2. grace' \in 0 .. ShutdownTimeout + 1
    BY <1>12 DEF Tick
  <2> QED
    BY <1>12, <2>1, <2>2 DEF Tick
<1>13. ASSUME NEW r \in Requests, Read(r) PROVE TypeOK'
  BY <1>13 DEF Read
<1>14. ASSUME NEW r \in Requests, Accept(r) PROVE TypeOK'
  BY <1>14 DEF Accept
<1>15. ASSUME NEW r \in Requests, Answer(r) PROVE TypeOK'
  BY <1>15 DEF Answer
<1>16. ASSUME NEW r \in Requests, Send(r) PROVE TypeOK'
  BY <1>16 DEF Send
<1>17. CASE UNCHANGED vars
  BY <1>17 DEF vars
<1> QED
  BY <1>1, <1>2, <1>3, <1>4, <1>5, <1>6, <1>7, <1>8, <1>9, <1>10, <1>11,
     <1>12, <1>13, <1>14, <1>15, <1>16, <1>17 DEF Next, Run, Goroutines, Handle

\* The types, and that the consumer and the listener are there exactly when Run
\* has started them.
THEOREM TypeCorrect == Spec => []TypeOK
<1>1. TypeOK /\ [Next]_vars => TypeOK'
  BY TypeKept
<1> QED
  BY <1>1, TypeInit, PTL DEF Spec

-----------------------------------------------------------------------------
(* Whom the end of the process cuts off.                                   *)

IInv == TypeOK /\ CutHasCause

\* A cause stays one: ages and the grace period do not go back.
LEMMA CausesStay ==
  ASSUME TypeOK, [Next]_vars
  PROVE  /\ \A r \in Requests : age[r] \in Nat /\ age'[r] \in Nat /\ age'[r] >= age[r]
         /\ grace \in Nat /\ grace' \in Nat /\ grace' >= grace
         /\ fatal => fatal'
<1> USE TimeoutsAreNat, MaxAgeIsNat DEF TypeOK
<1>1. TypeOK'
  BY TypeKept
<1>2. /\ \A r \in Requests : age[r] \in Nat /\ age'[r] \in Nat
      /\ grace \in Nat /\ grace' \in Nat
  BY <1>1
<1>3. CASE Tick
  BY <1>2, <1>3 DEF Tick, processVars
<1>4. CASE ~Tick
  <2>1. UNCHANGED clockVars /\ (fatal => fatal')
    BY <1>4 DEF Next, Run, Goroutines, Handle, SetUp, Start, Stop, BeginShutdown,
       Return, SendError, Consume, ConsumeFails, Signal, ListenFails,
       ChannelCloses, Accept, Read, Answer, Send, Exit, vars, processVars
  <2> QED
    BY <1>2, <2>1 DEF clockVars
<1> QED
  BY <1>3, <1>4

LEMMA CutKept == ASSUME IInv, [Next]_vars PROVE CutHasCause'
<1> USE DEF IInv
<1> SUFFICES ASSUME NEW r \in Requests, reply'[r] = "cut"
             PROVE  \/ age'[r] > WriteTimeout \/ grace' > ShutdownTimeout
                    \/ fatal'
  BY DEF CutHasCause
<1>1. CASE reply[r] = "cut"
  BY <1>1, CausesStay, TimeoutsAreNat DEF CutHasCause
<1>2. CASE reply[r] # "cut"
  <2>1. CASE Return
    <3>1. r \in Open
      BY <1>2, <2>1 DEF Return, Exit, TypeOK
    <3> QED
      BY <2>1, <3>1, CausesStay, TimeoutsAreNat DEF Return, Exit, clockVars
  <2>2. CASE ConsumeFails
    BY <2>2 DEF ConsumeFails
  <2>3. ASSUME NEW s \in Requests, Send(s)
        PROVE  age'[r] > WriteTimeout
    <3>1. r = s /\ ~(age[s] <= WriteTimeout)
      BY <1>2, <2>3 DEF Send, TypeOK
    <3> QED
      BY <2>3, <3>1, CausesStay, TimeoutsAreNat DEF Send, clockVars
  <2>4. CASE reply' = reply
    BY <1>2, <2>4
  <2> QED
    BY <2>1, <2>2, <2>3, <2>4
       DEF Next, Run, Goroutines, Handle, SetUp, Start, Stop, BeginShutdown,
           SendError, Consume, Signal, ListenFails, ChannelCloses, Accept, Read, Answer,
           Tick, vars, requestVars
<1> QED
  BY <1>1, <1>2

\* For any deadlines and any number of requests, only the write deadline, the
\* end of the grace period and the consumer's fatal error cut a client off.
THEOREM CutsHaveCauses == Spec => []CutHasCause
<1>1. Init => IInv
  BY TypeInit DEF Init, IInv, CutHasCause
<1>2. IInv /\ [Next]_vars => IInv'
  BY TypeKept, CutKept DEF IInv
<1>3. IInv => CutHasCause
  BY DEF IInv
<1> QED
  BY <1>1, <1>2, <1>3, PTL DEF Spec
=============================================================================
