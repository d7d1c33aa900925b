-------------------------- MODULE AMQPClientProofs --------------------------
(***************************************************************************)
(* Theorems about AMQPClient: its invariants hold for every number of      *)
(* requests, objects, ids, result files and restarts.                      *)
(***************************************************************************)
EXTENDS AMQPClient, TLAPS

-----------------------------------------------------------------------------
(* Type correctness.                                                       *)

LEMMA TypeInit == Init => TypeOK
BY MaxRestartsIsNat DEF Init, TypeOK, Kinds, Wants, Entries, Contents,
   RequestMsgs, ResponseMsgs

\* The look-up of GetOrCreateRequest compares keys with ids: it finds nothing.
LEMMA NothingMatches == ASSUME TypeOK, NEW w PROVE Matching(w) = {}
<1> SUFFICES ASSUME NEW c \in Matching(w) PROVE FALSE
  OBVIOUS
<1>1. c \in CorrIds /\ reqMap[c] # NoEntry /\ reqMap[c].want # NoWant
      /\ reqMap[c].want.object.key = c
  BY DEF Matching
<1>2. reqMap[c] \in Entries
  BY <1>1 DEF TypeOK
<1>3. reqMap[c].want \in Wants
  BY <1>1, <1>2 DEF Entries
<1>4. reqMap[c].want.object \in Objects
  BY <1>3 DEF Wants
<1> QED
  BY <1>1, <1>4, KeysAreNotIds

\* So GetOrCreateRequest always creates.
LEMMA AlwaysCreates ==
  ASSUME TypeOK, NEW r \in Requests, GetOrCreateRequest(r)
  PROVE  /\ Create(r)
         /\ pc[r] = "lookup"
         /\ UNCHANGED <<want, pollVal, got, content, chanOpen, brokerVars,
                        restarts, sent>>
BY NothingMatches DEF GetOrCreateRequest

LEMMA TypeKept == ASSUME TypeOK, [Next]_vars PROVE TypeOK'
<1> USE DEF Kinds, Wants, Entries, Contents, RequestMsgs, ResponseMsgs, Active,
            Done
<1> USE DEF TypeOK, serverVars, brokerVars, ghostVars, Goto
<1>1. ASSUME NEW r \in Requests, Arrive(r) PROVE TypeOK'
  BY <1>1, NullsAreOutside DEF Arrive
<1>2. ASSUME NEW r \in Requests, GetOrCreateRequest(r) PROVE TypeOK'
  <2>1. PICK c \in CorrIds :
          /\ issued' = [issued EXCEPT ![c] = want[r]]
          /\ reqMap' = [reqMap EXCEPT ![c] = [want |-> want[r], address |-> NoAddr]]
          /\ corr' = [corr EXCEPT ![r] = c]
    BY <1>2, AlwaysCreates DEF Create
  <2>2. pc[r] = "lookup" /\ want[r] # NoWant /\ c # NoId
    BY <1>2, AlwaysCreates, NullsAreOutside
  <2>3. reqMap' \in [CorrIds -> Entries \cup {NoEntry}]
        /\ issued' \in [CorrIds -> Wants \cup {NoWant}]
        /\ corr' \in [Requests -> CorrIds \cup {NoId}]
    BY <2>1
  <2>4. pc' = [pc EXCEPT ![r] = "publish"]
        /\ UNCHANGED <<want, poller, pollVal, got, content, chanOpen, brokerVars,
                       restarts, sent>>
    BY <1>2, AlwaysCreates DEF Create
  <2>5. QED
    BY <2>1, <2>2, <2>3, <2>4
<1>4. ASSUME NEW r \in Requests, Publish(r) PROVE TypeOK'
  <2> DEFINE m == Message(r)
  <2>1. m \in RequestMsgs
    BY <1>4 DEF Publish, Message
  <2>2. sent' \subseteq RequestMsgs /\ requests' \subseteq RequestMsgs
        /\ chanOpen' \in BOOLEAN
    BY <1>4, <2>1 DEF Publish
  <2> HIDE DEF m
  <2>3. QED
    BY <1>4, <2>2 DEF Publish, Proceed
<1>5. ASSUME NEW r \in Requests, PublishFails(r) PROVE TypeOK'
  BY <1>5 DEF PublishFails
<1>6. ASSUME NEW r \in Requests, PollHit(r) PROVE TypeOK'
  BY <1>6 DEF PollHit
<1>7. ASSUME NEW r \in Requests, Receive(r) PROVE TypeOK'
  BY <1>7 DEF Receive
<1>8. ASSUME NEW r \in Requests, WaitTimeout(r) PROVE TypeOK'
  BY <1>8 DEF WaitTimeout
<1>9. ASSUME NEW r \in Requests, ReadResult(r) PROVE TypeOK'
  BY <1>9 DEF ReadResult
<1>10. ASSUME NEW r \in Requests, ReadResultFails(r) PROVE TypeOK'
  BY <1>10 DEF ReadResultFails
<1>11. ASSUME NEW m \in responses \ {Malformed}, ConsumeResponse(m)
       PROVE  TypeOK'
  BY <1>11 DEF ConsumeResponse
<1>12. CASE ConsumeMalformed
  BY <1>12 DEF ConsumeMalformed
<1>13. CASE ChannelCloses
  BY <1>13 DEF ChannelCloses
<1>14. CASE Restart
  BY <1>14, MaxRestartsIsNat DEF Restart
<1>15. CASE WorkerStarts
  BY <1>15 DEF WorkerStarts
<1>16. ASSUME NEW m \in requests, NEW a \in Addresses, WorkerResponds(m, a)
       PROVE  TypeOK'
  BY <1>16 DEF WorkerResponds
<1>17. ASSUME NEW m \in requests, WorkerSettles(m) PROVE TypeOK'
  BY <1>17 DEF WorkerSettles
<1>18. CASE UNCHANGED vars
  BY <1>18 DEF vars
<1> QED
  BY <1>1, <1>2, <1>4, <1>5, <1>6, <1>7, <1>8, <1>9, <1>10, <1>11,
     <1>12, <1>13, <1>14, <1>15, <1>16, <1>17, <1>18 DEF Next, Handler

\* The types of TypeOK, and that ids, addresses and wants are there when the
\* handlers, the polling goroutines and the file reads use them.
THEOREM TypeCorrect == Spec => []TypeOK
<1>1. TypeOK /\ [Next]_vars => TypeOK'
  BY TypeKept
<1>2. QED
  BY <1>1, TypeInit, PTL DEF Spec

\* GetOrCreateRequest never reports an entry that exists: whatever is asked for,
\* its look-up compares the keys of the entries with their ids.
THEOREM NobodyJoins == Spec => [](\A w \in Wants : Matching(w) = {})
<1>1. TypeOK => \A w \in Wants : Matching(w) = {}
  BY NothingMatches
<1>2. QED
  BY <1>1, TypeCorrect, PTL

-----------------------------------------------------------------------------
(* The inductive invariant.  It traces every id back to what issued says it *)
(* was generated for: the ghost survives a restart of the server, as the    *)
(* messages and files made for the id do, while reqMap does not.            *)

\* File a was made for id c.
MadeFor(a, c) == files[a] \in {issued[c].object, Empty}

\* An id of the table was generated for the entry's want; when it has been
\* answered, the entry has lost that want and leads to a file made for it.
EntriesIssued ==
  \A c \in CorrIds : reqMap[c] # NoEntry =>
    /\ issued[c] # NoWant
    /\ reqMap[c].address = NoAddr => reqMap[c].want = issued[c]
    /\ reqMap[c].address # NoAddr =>
         /\ reqMap[c].want = NoWant
         /\ issued[c].kind = "decompress"
         /\ MadeFor(reqMap[c].address, c)

\* Messages carry the id their content was issued under.
MessagesIssued ==
  /\ \A m \in requests \cup sent : issued[m.corrId] = m.want
  /\ \A m \in responses \ {Malformed} :
       /\ issued[m.corrId] # NoWant
       /\ issued[m.corrId].kind = "decompress"
       /\ MadeFor(m.address, m.corrId)

\* A request's id was issued for its want, and what its goroutine read under
\* that id, what it received and what it answered were made for its object.
HandlersIssued ==
  \A r \in Requests :
    /\ pc[r] \in {"idle", "lookup"} => corr[r] = NoId
    /\ corr[r] # NoId => want[r] # NoWant /\ issued[corr[r]] = want[r]
    /\ corr[r] = NoId => pollVal[r] = NoAddr /\ got[r] = NoAddr
    /\ pollVal[r] # NoAddr => MadeFor(pollVal[r], corr[r])
    /\ got[r] # NoAddr => MadeFor(got[r], corr[r])

\* The entry behind an address a goroutine sends or a handler has received is
\* there and answered, as long as the server runs.
HandlersAnswered ==
  \A r \in Requests :
    poller[r] = "sending" \/ pc[r] = "read"
      => reqMap[corr[r]] # NoEntry /\ reqMap[corr[r]].address # NoAddr

IInv ==
  /\ TypeOK
  /\ EntriesIssued
  /\ MessagesIssued
  /\ HandlersIssued
  /\ HandlersAnswered
  /\ EachOnItsOwn
  /\ OwnContent

-----------------------------------------------------------------------------
(* What no step of the system changes.                                     *)

\* randSeq never returns an id twice, and a result file is never rewritten.
LEMMA Kept ==
  ASSUME TypeOK, [Next]_vars
  PROVE  /\ \A c \in CorrIds : issued[c] # NoWant => issued'[c] = issued[c]
         /\ \A a \in Addresses : files[a] # NoObject => files'[a] = files[a]
<1> USE DEF TypeOK, serverVars, brokerVars, ghostVars
<1>1. ASSUME NEW r \in Requests, GetOrCreateRequest(r)
      PROVE  /\ \A c \in CorrIds : issued[c] # NoWant => issued'[c] = issued[c]
             /\ UNCHANGED files
  BY <1>1, AlwaysCreates DEF Create
<1>2. ASSUME NEW m \in requests, NEW a \in Addresses, WorkerResponds(m, a)
      PROVE  /\ \A b \in Addresses : files[b] # NoObject => files'[b] = files[b]
             /\ UNCHANGED issued
  BY <1>2 DEF WorkerResponds
<1>3. CASE UNCHANGED <<issued, files>>
  BY <1>3
<1>4. QED
  BY <1>1, <1>2, <1>3 DEF Next, Handler, vars, Arrive, Publish,
     PublishFails, PollHit, Receive, WaitTimeout, ReadResult, ReadResultFails,
     ConsumeResponse, ConsumeMalformed, ChannelCloses, Restart, WorkerStarts,
     WorkerSettles

\* So a file made for an id stays one.
LEMMA MadeForKept ==
  ASSUME TypeOK, [Next]_vars,
         NEW a \in Addresses, NEW c \in CorrIds, issued[c] # NoWant,
         MadeFor(a, c)
  PROVE  MadeFor(a, c)'
<1>1. files[a] # NoObject
  BY NullsAreOutside DEF MadeFor, TypeOK, Wants
<1>2. files'[a] = files[a] /\ issued'[c] = issued[c]
  BY <1>1, Kept
<1>3. QED
  BY <1>2 DEF MadeFor

-----------------------------------------------------------------------------
(* Every step preserves each conjunct of the inductive invariant.          *)

LEMMA EntriesIssuedKept == ASSUME IInv, [Next]_vars PROVE EntriesIssued'
<1> USE DEF IInv, TypeOK, serverVars, brokerVars, ghostVars
<1>1. ASSUME NEW c \in CorrIds, reqMap[c] # NoEntry, reqMap'[c] = reqMap[c]
      PROVE  /\ issued'[c] # NoWant
             /\ reqMap'[c].address = NoAddr => reqMap'[c].want = issued'[c]
             /\ reqMap'[c].address # NoAddr =>
                  /\ reqMap'[c].want = NoWant
                  /\ issued'[c].kind = "decompress"
                  /\ MadeFor(reqMap[c].address, c)'
  <2>1. issued'[c] = issued[c] /\ issued[c] # NoWant
    BY <1>1, Kept DEF EntriesIssued
  <2>2. reqMap[c] \in Entries
    BY <1>1
  <2>3. ASSUME reqMap[c].address # NoAddr
        PROVE  MadeFor(reqMap[c].address, c)'
    <3>1. reqMap[c].address \in Addresses
      BY <2>2, <2>3 DEF Entries
    <3>2. QED
      BY <1>1, <2>1, <2>3, <3>1, MadeForKept DEF EntriesIssued
  <2>4. QED
    BY <1>1, <2>1, <2>3 DEF EntriesIssued
<1>2. CASE UNCHANGED reqMap
  BY <1>1, <1>2 DEF EntriesIssued, MadeFor
<1>3. ASSUME NEW r \in Requests, GetOrCreateRequest(r) PROVE EntriesIssued'
  <2>1. PICK c \in CorrIds :
          /\ issued[c] = NoWant
          /\ issued' = [issued EXCEPT ![c] = want[r]]
          /\ reqMap' = [reqMap EXCEPT ![c] =
                          [want |-> want[r], address |-> NoAddr]]
    BY <1>3, AlwaysCreates DEF Create
  <2>2. want[r] # NoWant
    BY <1>3, AlwaysCreates
  <2>3. ASSUME NEW d \in CorrIds, reqMap'[d] # NoEntry, d # c
        PROVE  reqMap'[d] = reqMap[d] /\ reqMap[d] # NoEntry
    BY <2>1, <2>3
  <2>4. issued'[c] = want[r] /\ reqMap'[c].want = want[r]
        /\ reqMap'[c].address = NoAddr
    BY <2>1
  <2>5. QED
    BY <1>1, <2>2, <2>3, <2>4 DEF EntriesIssued, MadeFor
<1>4. ASSUME NEW m \in responses \ {Malformed}, ConsumeResponse(m)
      PROVE  EntriesIssued'
  <2>1. m \in ResponseMsgs
    OBVIOUS
  <2>2. m.corrId \in CorrIds /\ m.address \in Addresses
    BY <2>1 DEF ResponseMsgs
  <2>3. issued' = issued /\ files' = files
    BY <1>4 DEF ConsumeResponse
  <2>4. ASSUME NEW d \in CorrIds, reqMap'[d] # NoEntry,
               d # m.corrId \/ reqMap[m.corrId] = NoEntry
        PROVE  reqMap'[d] = reqMap[d] /\ reqMap[d] # NoEntry
    BY <1>4, <2>2, <2>4 DEF ConsumeResponse
  <2>5. ASSUME reqMap[m.corrId] # NoEntry
        PROVE  reqMap'[m.corrId] = [want |-> NoWant, address |-> m.address]
    BY <1>4, <2>2, <2>5 DEF ConsumeResponse
  <2>6. MadeFor(m.address, m.corrId)' /\ issued'[m.corrId] # NoWant
        /\ issued'[m.corrId].kind = "decompress"
    BY <2>3 DEF MessagesIssued, MadeFor
  <2>7. QED
    BY <1>1, <2>2, <2>4, <2>5, <2>6, NullsAreOutside DEF EntriesIssued, MadeFor
<1>5. CASE Restart
  BY <1>5 DEF Restart, EntriesIssued
<1>6. QED
  BY <1>2, <1>3, <1>4, <1>5 DEF Next, Handler, vars, Arrive,
     Publish, PublishFails, PollHit, Receive, WaitTimeout, ReadResult,
     ReadResultFails, ConsumeMalformed, ChannelCloses, WorkerStarts,
     WorkerResponds, WorkerSettles

LEMMA MessagesIssuedKept == ASSUME IInv, [Next]_vars PROVE MessagesIssued'
<1> USE DEF IInv, TypeOK, serverVars, brokerVars, ghostVars
<1>1. ASSUME NEW m \in requests \cup sent
      PROVE  issued'[m.corrId] = m.want
  <2>1. m \in RequestMsgs
    OBVIOUS
  <2>2. m.corrId \in CorrIds /\ m.want # NoWant
    BY <2>1, NullsAreOutside DEF RequestMsgs, Wants, Kinds
  <2>3. QED
    BY <2>2, Kept DEF MessagesIssued
<1>2. ASSUME NEW m \in responses \ {Malformed}
      PROVE  /\ issued'[m.corrId] # NoWant
             /\ issued'[m.corrId].kind = "decompress"
             /\ MadeFor(m.address, m.corrId)'
  <2>1. m \in ResponseMsgs
    OBVIOUS
  <2>2. m.corrId \in CorrIds /\ m.address \in Addresses
    BY <2>1 DEF ResponseMsgs
  <2>3. issued'[m.corrId] = issued[m.corrId]
    BY <2>2, Kept DEF MessagesIssued
  <2>4. MadeFor(m.address, m.corrId)'
    BY <2>2, MadeForKept DEF MessagesIssued
  <2>5. QED
    BY <2>3, <2>4 DEF MessagesIssued
<1>3. CASE requests' \cup sent' \subseteq requests \cup sent
           /\ responses' \subseteq responses
  BY <1>1, <1>2, <1>3 DEF MessagesIssued
<1>4. ASSUME NEW r \in Requests, Publish(r) PROVE MessagesIssued'
  <2> DEFINE p == Message(r)
  <2>1. requests' \cup sent' \subseteq requests \cup sent \cup {p}
        /\ responses' = responses /\ issued' = issued
    BY <1>4 DEF Publish
  <2>2. issued[p.corrId] = p.want
    BY <1>4 DEF Publish, HandlersIssued, Message
  <2> HIDE DEF p
  <2>3. QED
    BY <1>1, <1>2, <2>1, <2>2 DEF MessagesIssued
<1>5. ASSUME NEW m \in requests, NEW a \in Addresses, WorkerResponds(m, a)
      PROVE  MessagesIssued'
  <2> DEFINE p == [corrId |-> m.corrId, address |-> a]
  <2>1. m \in RequestMsgs
    OBVIOUS
  <2>2. m.corrId \in CorrIds /\ m.want \in Wants
    BY <2>1 DEF RequestMsgs
  <2>3. responses' = responses \cup {p} /\ requests' \subseteq requests
        /\ sent' = sent /\ issued' = issued
    BY <1>5 DEF WorkerResponds
  <2>4. issued[m.corrId] = m.want /\ m.want # NoWant
    BY <2>2, NullsAreOutside DEF MessagesIssued, Wants, Kinds
  <2>5. files'[a] \in {m.want.object, Empty}
    BY <1>5 DEF WorkerResponds
  <2>6. /\ issued'[p.corrId] # NoWant
        /\ issued'[p.corrId].kind = "decompress"
        /\ MadeFor(p.address, p.corrId)'
    BY <1>5, <2>3, <2>4, <2>5 DEF WorkerResponds, MadeFor
  <2> HIDE DEF p
  <2>7. QED
    BY <1>1, <1>2, <2>3, <2>6 DEF MessagesIssued, MadeFor
<1>6. ASSUME NEW r \in Requests, GetOrCreateRequest(r) PROVE MessagesIssued'
  BY <1>3, <1>6, AlwaysCreates
<1>7. QED
  BY <1>3, <1>4, <1>5, <1>6 DEF Next, Handler, vars, Arrive, PublishFails, PollHit, Receive, WaitTimeout, ReadResult,
     ReadResultFails, ConsumeResponse, ConsumeMalformed, ChannelCloses,
     Restart, WorkerStarts, WorkerSettles

LEMMA HandlersIssuedKept == ASSUME IInv, [Next]_vars PROVE HandlersIssued'
<1> USE DEF IInv, TypeOK, serverVars, brokerVars, ghostVars
<1> DEFINE Traced(s) ==
      /\ pc[s] \in {"idle", "lookup"} => corr[s] = NoId
      /\ corr[s] # NoId => want[s] # NoWant /\ issued[corr[s]] = want[s]
      /\ corr[s] = NoId => pollVal[s] = NoAddr /\ got[s] = NoAddr
      /\ pollVal[s] # NoAddr => MadeFor(pollVal[s], corr[s])
      /\ got[s] # NoAddr => MadeFor(got[s], corr[s])
<1>1. SUFFICES ASSUME NEW s \in Requests PROVE Traced(s)'
  BY DEF HandlersIssued
<1>2. Traced(s)
  BY DEF HandlersIssued
<1>3. /\ corr[s] # NoId =>
           issued[corr[s]] # NoWant /\ issued'[corr[s]] = issued[corr[s]]
      /\ \A a \in Addresses, c \in CorrIds :
           issued[c] # NoWant /\ MadeFor(a, c) => MadeFor(a, c)'
  <2>1. corr[s] # NoId => issued[corr[s]] # NoWant
    BY <1>2
  <2>2. QED
    BY <2>1, Kept, MadeForKept
<1>4. CASE /\ want'[s] = want[s] /\ corr'[s] = corr[s]
           /\ pollVal'[s] = pollVal[s] /\ got'[s] = got[s]
           /\ pc'[s] \in {"idle", "lookup"} => pc[s] \in {"idle", "lookup"}
  BY <1>2, <1>3, <1>4 DEF MadeFor
<1>5. ASSUME NEW r \in Requests, Arrive(r) PROVE Traced(s)'
  <2>1. CASE s = r
    BY <1>2, <1>5, <2>1 DEF Arrive, Goto
  <2>2. CASE s # r
    BY <1>4, <1>5, <2>2 DEF Arrive, Goto
  <2>3. QED
    BY <2>1, <2>2
<1>6. ASSUME NEW r \in Requests, GetOrCreateRequest(r) PROVE Traced(s)'
  <2>1. PICK c \in CorrIds :
          /\ issued[c] = NoWant
          /\ issued' = [issued EXCEPT ![c] = want[r]]
          /\ corr' = [corr EXCEPT ![r] = c]
    BY <1>6, AlwaysCreates DEF Create
  <2>2. CASE s = r
    BY <1>2, <1>6, <2>1, <2>2, AlwaysCreates, NullsAreOutside DEF Create, Goto
  <2>3. CASE s # r
    BY <1>4, <1>6, <2>1, <2>3, AlwaysCreates DEF Create, Goto
  <2>4. QED
    BY <2>2, <2>3
<1>7. ASSUME NEW r \in Requests, PollHit(r) PROVE Traced(s)'
  <2>1. CASE s = r
    <3> DEFINE e == reqMap[corr[r]]
    <3>1. corr[r] \in CorrIds /\ e # NoEntry /\ e.address # NoAddr
      BY <1>7 DEF PollHit
    <3>2. MadeFor(e.address, corr[r])
      BY <3>1 DEF EntriesIssued
    <3>3. MadeFor(pollVal[s], corr[s])'
      BY <1>7, <2>1, <3>2 DEF PollHit, MadeFor
    <3>4. QED
      BY <1>2, <1>3, <1>7, <2>1, <3>1, <3>3, NullsAreOutside
         DEF PollHit, MadeFor
  <2>2. CASE s # r
    BY <1>4, <1>7, <2>2 DEF PollHit
  <2>3. QED
    BY <2>1, <2>2
<1>8. ASSUME NEW r \in Requests, Receive(r) PROVE Traced(s)'
  <2>1. CASE s = r
    BY <1>2, <1>3, <1>8, <2>1, NullsAreOutside DEF Receive, Goto, MadeFor
  <2>2. CASE s # r
    BY <1>4, <1>8, <2>2 DEF Receive, Goto
  <2>3. QED
    BY <2>1, <2>2
<1>9. ASSUME NEW r \in Requests,
              Publish(r) \/ PublishFails(r) \/ WaitTimeout(r)
                \/ ReadResult(r) \/ ReadResultFails(r)
       PROVE  Traced(s)'
  BY <1>4, <1>9 DEF Publish, Proceed, PublishFails, WaitTimeout, ReadResult,
     ReadResultFails, Goto
<1>10. CASE Restart
  BY <1>4, <1>10 DEF Restart
<1>11. CASE UNCHANGED serverVars
  BY <1>4, <1>11
<1>12. QED
  BY <1>4, <1>5, <1>6, <1>7, <1>8, <1>9, <1>10, <1>11 DEF Next, Handler,
     vars, ConsumeResponse, ConsumeMalformed, ChannelCloses, WorkerStarts,
     WorkerResponds, WorkerSettles

\* An id once given to a request stays with it, and no other gets it.
LEMMA IdsKept ==
  ASSUME IInv, [Next]_vars, NEW s \in Requests, corr[s] # NoId
  PROVE  corr'[s] = corr[s]
<1> USE DEF IInv, TypeOK, serverVars, brokerVars, ghostVars
<1>1. ASSUME NEW r \in Requests, GetOrCreateRequest(r) PROVE corr'[s] = corr[s]
  <2>1. corr[r] = NoId
    BY <1>1, AlwaysCreates DEF HandlersIssued
  <2>2. QED
    BY <1>1, <2>1, AlwaysCreates DEF Create
<1>2. QED
  BY <1>1 DEF Next, Handler, vars, Arrive, Publish, PublishFails, PollHit, Receive,
     WaitTimeout, ReadResult, ReadResultFails, ConsumeResponse, ConsumeMalformed,
     ChannelCloses, Restart, WorkerStarts, WorkerResponds, WorkerSettles

LEMMA HandlersAnsweredKept == ASSUME IInv, [Next]_vars PROVE HandlersAnswered'
<1> USE DEF IInv, TypeOK, serverVars, brokerVars, ghostVars
<1> SUFFICES ASSUME NEW s \in Requests, poller'[s] = "sending" \/ pc'[s] = "read"
             PROVE  reqMap'[corr'[s]] # NoEntry /\ reqMap'[corr'[s]].address # NoAddr
  BY DEF HandlersAnswered
<1> DEFINE Answered(c) == reqMap[c] # NoEntry /\ reqMap[c].address # NoAddr
<1>1. CASE ~Restart /\ (poller[s] = "sending" \/ pc[s] = "read")
  <2>1. corr[s] \in CorrIds /\ Answered(corr[s]) /\ issued[corr[s]] # NoWant
    BY <1>1 DEF HandlersAnswered, HandlersIssued
  <2>2. corr'[s] = corr[s]
    BY <2>1, IdsKept, NullsAreOutside
  <2>3. ASSUME NEW r \in Requests, GetOrCreateRequest(r)
        PROVE  reqMap'[corr[s]] = reqMap[corr[s]]
    BY <2>1, <2>3, AlwaysCreates DEF Create
  <2>4. ASSUME NEW m \in responses \ {Malformed}, ConsumeResponse(m)
        PROVE  Answered(corr[s])'
    <3>1. m \in ResponseMsgs
      OBVIOUS
    <3>2. m.corrId \in CorrIds /\ m.address # NoAddr
      BY <3>1, NullsAreOutside DEF ResponseMsgs
    <3>3. CASE m.corrId = corr[s]
      <4>1. reqMap'[corr[s]] = [want |-> NoWant, address |-> m.address]
        BY <2>1, <2>4, <3>2, <3>3 DEF ConsumeResponse
      <4>2. QED
        BY <2>2, <3>1, <3>2, <4>1, NullsAreOutside DEF ResponseMsgs, Kinds, Wants
    <3>4. CASE m.corrId # corr[s]
      <4>1. reqMap'[corr[s]] = reqMap[corr[s]]
        BY <2>1, <2>4, <3>2, <3>4 DEF ConsumeResponse
      <4>2. QED
        BY <2>1, <2>2, <4>1
    <3>5. QED
      BY <3>3, <3>4
  <2>5. CASE UNCHANGED reqMap
    BY <2>1, <2>2, <2>5
  <2>6. QED
    BY <1>1, <2>1, <2>2, <2>3, <2>4, <2>5 DEF Next, Handler, vars, Arrive, Publish,
       PublishFails, PollHit, Receive, WaitTimeout, ReadResult, ReadResultFails,
       ConsumeMalformed, ChannelCloses, WorkerStarts, WorkerResponds, WorkerSettles
<1>2. CASE PollHit(s)
  BY <1>2 DEF PollHit
<1>3. CASE Restart
  BY <1>3 DEF Restart, Active
<1>4. CASE ~Restart /\ ~PollHit(s) /\ poller[s] # "sending" /\ pc[s] # "read"
  <2>1. ASSUME NEW r \in Requests, GetOrCreateRequest(r) PROVE FALSE
    BY <1>4, <2>1, AlwaysCreates DEF Create, Goto
  <2>2. ASSUME NEW r \in Requests, Arrive(r) \/ PublishFails(r) \/ WaitTimeout(r)
        PROVE FALSE
    BY <1>4, <2>2 DEF Arrive, PublishFails, WaitTimeout, Goto
  <2>3. ASSUME NEW r \in Requests, Publish(r) PROVE FALSE
    BY <1>4, <2>3 DEF Publish, Proceed, Goto
  <2>4. ASSUME NEW r \in Requests, ReadResult(r) \/ ReadResultFails(r) PROVE FALSE
    BY <1>4, <2>4 DEF ReadResult, ReadResultFails, Goto
  <2>5. ASSUME NEW r \in Requests, Receive(r) \/ PollHit(r) PROVE FALSE
    BY <1>4, <2>5 DEF Receive, PollHit, Goto
  <2>6. CASE UNCHANGED <<pc, poller>>
    BY <1>4, <2>6
  <2>7. QED
    BY <1>4, <2>1, <2>2, <2>3, <2>4, <2>5, <2>6 DEF Next, Handler, vars,
       ConsumeResponse, ConsumeMalformed, ChannelCloses, WorkerStarts,
       WorkerResponds, WorkerSettles
<1>5. QED
  BY <1>1, <1>2, <1>3, <1>4

LEMMA EachOnItsOwnKept == ASSUME IInv, [Next]_vars PROVE EachOnItsOwn'
<1> USE DEF IInv, TypeOK, serverVars, brokerVars, ghostVars
<1> DEFINE Sends(s) ==
      corr[s] # NoId /\ pc[s] # "failed" => (Message(s) \in sent <=> pc[s] # "publish")
<1>1. CASE UNCHANGED <<corr, want, sent>>
           /\ \A s \in Requests : \/ pc'[s] = pc[s]
                                  \/ pc'[s] = "failed"
                                  \/ {pc[s], pc'[s]} \cap {"failed", "publish"} = {}
  BY <1>1 DEF EachOnItsOwn, Message
<1>2. ASSUME NEW r \in Requests, Arrive(r) PROVE EachOnItsOwn'
  <2>1. corr[r] = NoId
    BY <1>2 DEF Arrive, HandlersIssued
  <2>2. QED
    BY <1>2, <2>1 DEF Arrive, EachOnItsOwn, Message, Goto
<1>3. ASSUME NEW r \in Requests, GetOrCreateRequest(r) PROVE EachOnItsOwn'
  <2>1. PICK c \in CorrIds : issued[c] = NoWant /\ corr' = [corr EXCEPT ![r] = c]
    BY <1>3, AlwaysCreates DEF Create
  <2>2. \A m \in sent : m.corrId # c
    <3>1. \A m \in sent : m.want # NoWant
      BY NullsAreOutside DEF RequestMsgs, Wants, Kinds
    <3>2. QED
      BY <2>1, <3>1 DEF MessagesIssued
  <2>3. \A s \in Requests : corr[s] # c
    BY <2>1, NullsAreOutside DEF HandlersIssued
  <2>4. /\ pc' = [pc EXCEPT ![r] = "publish"] /\ corr'[r] = c
        /\ want' = want /\ sent' = sent
    BY <1>3, <2>1, AlwaysCreates DEF Create, Goto
  <2>5. Message(r)' \notin sent'
    BY <2>2, <2>4 DEF Message
  <2>6. \A s \in Requests : s # r => (Sends(s)' <=> Sends(s))
    BY <2>1, <2>4 DEF Message
  <2>7. \A s, t \in Requests : corr'[s] # NoId /\ corr'[s] = corr'[t] => s = t
    BY <2>1, <2>3 DEF EachOnItsOwn
  <2>8. \A s \in Requests : Sends(s)'
    BY <2>4, <2>5, <2>6 DEF EachOnItsOwn
  <2>9. QED
    BY <2>7, <2>8 DEF EachOnItsOwn
<1>4. ASSUME NEW r \in Requests, Publish(r) PROVE EachOnItsOwn'
  <2>1. /\ corr' = corr /\ want' = want /\ sent' = sent \cup {Message(r)}
        /\ corr[r] # NoId
        /\ pc' = [pc EXCEPT ![r] = IF want[r].kind = "decompress" THEN "await" ELSE "ok"]
    BY <1>4 DEF Publish, Proceed, Goto
  <2>2. \A s \in Requests : s # r /\ corr[s] # NoId => Message(s) # Message(r)
    BY DEF Message, EachOnItsOwn
  <2>3. \A s \in Requests : Message(s)' = Message(s)
    BY <2>1 DEF Message
  <2>4. \A s \in Requests : Sends(s)'
    BY <2>1, <2>2, <2>3 DEF EachOnItsOwn
  <2>5. QED
    BY <2>1, <2>4 DEF EachOnItsOwn
<1>5. ASSUME NEW r \in Requests,
             PublishFails(r) \/ PollHit(r) \/ Receive(r) \/ WaitTimeout(r)
               \/ ReadResult(r) \/ ReadResultFails(r)
      PROVE  EachOnItsOwn'
  BY <1>1, <1>5 DEF PublishFails, PollHit, Receive, WaitTimeout, ReadResult,
     ReadResultFails, Goto
<1>6. CASE Restart
  BY <1>1, <1>6 DEF Restart
<1>7. CASE UNCHANGED <<corr, want, sent, pc>>
  BY <1>1, <1>7
<1>8. QED
  BY <1>2, <1>3, <1>4, <1>5, <1>6, <1>7 DEF Next, Handler, vars, ConsumeResponse,
     ConsumeMalformed, ChannelCloses, WorkerStarts, WorkerResponds, WorkerSettles

LEMMA OwnContentKept == ASSUME IInv, [Next]_vars PROVE OwnContent'
<1> USE DEF IInv, TypeOK, serverVars, brokerVars, ghostVars
<1>1. CASE /\ content' = content
           /\ \A r \in Requests :
                pc'[r] = "ok" /\ want'[r].kind = "decompress"
                  => pc[r] = "ok" /\ want'[r] = want[r]
  BY <1>1 DEF OwnContent
<1>2. ASSUME NEW r \in Requests, ReadResult(r) PROVE OwnContent'
  <2>1. got[r] # NoAddr /\ got[r] \in Addresses
    BY <1>2 DEF ReadResult
  <2>2. corr[r] # NoId /\ issued[corr[r]] = want[r]
    BY <2>1 DEF HandlersIssued
  <2>3. content'[r] \in {want[r].object, Empty}
    BY <1>2, <2>1, <2>2 DEF ReadResult, HandlersIssued, MadeFor
  <2>4. QED
    BY <1>2, <2>3 DEF ReadResult, OwnContent, Goto
<1>3. ASSUME NEW r \in Requests,
             Arrive(r) \/ Publish(r)
               \/ PublishFails(r) \/ Receive(r) \/ WaitTimeout(r)
               \/ ReadResultFails(r) \/ PollHit(r)
      PROVE  OwnContent'
  BY <1>1, <1>3 DEF Arrive, Publish, PublishFails, Receive, WaitTimeout,
     ReadResultFails, PollHit, Proceed, Goto
<1>4. CASE Restart
  BY <1>1, <1>4 DEF Restart
<1>5. CASE UNCHANGED serverVars
  BY <1>1, <1>5
<1>6. CASE \E m \in responses \ {Malformed} : ConsumeResponse(m)
  BY <1>1, <1>6 DEF ConsumeResponse
<1>7. ASSUME NEW r \in Requests, GetOrCreateRequest(r) PROVE OwnContent'
  BY <1>1, <1>7, AlwaysCreates DEF Create, Goto
<1>8. QED
  BY <1>2, <1>3, <1>4, <1>5, <1>6, <1>7 DEF Next, Handler, vars, ConsumeMalformed,
     ChannelCloses, WorkerStarts, WorkerResponds, WorkerSettles

-----------------------------------------------------------------------------
(* The theorems.                                                           *)

\* The inductive invariant holds.
THEOREM Correlated == Spec => []IInv
<1>1. Init => IInv
  BY TypeInit, NullsAreOutside DEF Init, IInv, EntriesIssued,
     MessagesIssued, HandlersIssued, HandlersAnswered, EachOnItsOwn, OwnContent
<1>2. IInv /\ [Next]_vars => IInv'
  <2> SUFFICES ASSUME IInv, [Next]_vars PROVE IInv'
    OBVIOUS
  <2>1. TypeOK'
    BY TypeKept DEF IInv
  <2>2. QED
    BY <2>1, EntriesIssuedKept, MessagesIssuedKept, HandlersIssuedKept,
       HandlersAnsweredKept, EachOnItsOwnKept, OwnContentKept DEF IInv
<1>3. QED
  BY <1>1, <1>2, PTL DEF Spec

\* No decompress request is ever answered with another object's bytes.
THEOREM NoForeignContent == Spec => []OwnContent
<1>1. IInv => OwnContent
  BY DEF IInv
<1>2. QED
  BY <1>1, Correlated, PTL

\* However many requests there are for one object, at once or one after the
\* other, each has its own id and publishes its own message, once.
THEOREM EachAlone == Spec => []EachOnItsOwn
<1>1. IInv => EachOnItsOwn
  BY DEF IInv
<1>2. QED
  BY <1>1, Correlated, PTL

\* An entry nothing can answer any more stays so unless the server restarts.
LEMMA LostKept ==
  ASSUME IInv, [Next]_vars, NEW c \in CorrIds, Lost(c)
  PROVE  Lost(c)' \/ restarts' # restarts
<1> USE DEF IInv, TypeOK, serverVars, brokerVars, ghostVars
<1>1. issued[c] # NoWant
  BY DEF EntriesIssued, Lost
<1> DEFINE Undisturbed ==
      /\ reqMap'[c] = reqMap[c]
      /\ \A r \in Requests :
           pc'[r] = "publish" /\ corr'[r] = c
             => pc[r] = "publish" /\ corr[r] = c
      /\ \A m \in requests' : m \in requests \/ m.corrId # c
      /\ \A m \in responses' : m \in responses \/ m.corrId # c
<1>2. Undisturbed => Lost(c)'
  BY DEF Lost
<1>3. ASSUME NEW r \in Requests, GetOrCreateRequest(r) PROVE Undisturbed
  <2>1. PICK d \in CorrIds :
          /\ issued[d] = NoWant
          /\ corr' = [corr EXCEPT ![r] = d]
          /\ reqMap' = [reqMap EXCEPT ![d] =
                          [want |-> want[r], address |-> NoAddr]]
    BY <1>3, AlwaysCreates DEF Create
  <2>2. d # c
    BY <1>1, <2>1
  <2>3. QED
    BY <1>3, <2>1, <2>2, AlwaysCreates DEF Create, Goto
<1>4. ASSUME NEW r \in Requests, Publish(r) PROVE Undisturbed
  <2>1. corr[r] # c
    BY <1>4 DEF Lost, Publish
  <2>2. requests' \subseteq
          requests \cup {Message(r)} /\ Message(r).corrId = corr[r]
    BY <1>4 DEF Publish, Message
  <2>3. \A s \in Requests : pc'[s] = "publish" => s # r /\ pc[s] = "publish"
    BY <1>4 DEF Publish, Proceed, Goto
  <2>4. QED
    BY <1>4, <2>1, <2>2, <2>3 DEF Publish
<1>5. ASSUME NEW r \in Requests,
             Arrive(r) \/ PublishFails(r) \/ PollHit(r) \/ Receive(r)
               \/ WaitTimeout(r) \/ ReadResult(r) \/ ReadResultFails(r)
      PROVE  Undisturbed
  BY <1>5 DEF Arrive, PublishFails, PollHit, Receive, WaitTimeout,
     ReadResult, ReadResultFails, Goto
<1>6. ASSUME NEW m \in responses \ {Malformed}, ConsumeResponse(m)
      PROVE  Undisturbed
  <2>1. m.corrId # c
    BY DEF Lost
  <2>2. reqMap'[c] = reqMap[c]
    BY <1>6, <2>1 DEF ConsumeResponse
  <2>3. QED
    BY <1>6, <2>2 DEF ConsumeResponse
<1>7. ASSUME NEW m \in requests, NEW a \in Addresses, WorkerResponds(m, a)
      PROVE  Undisturbed
  <2>1. m.corrId # c
    BY DEF Lost
  <2>2. QED
    BY <1>7, <2>1 DEF WorkerResponds
<1>8. CASE Restart
  BY <1>8 DEF Restart
<1> HIDE DEF Undisturbed
<1>9. ASSUME UNCHANGED <<reqMap, pc, corr, requests>>,
              responses' \subseteq responses
       PROVE  Undisturbed
  BY <1>9 DEF Undisturbed
<1>10. ASSUME UNCHANGED <<reqMap, pc, corr, responses>>,
              requests' \subseteq requests
       PROVE  Undisturbed
  BY <1>10 DEF Undisturbed
<1>11. QED
  BY <1>2, <1>3, <1>4, <1>5, <1>6, <1>7, <1>8, <1>9, <1>10 DEF Next,
     Handler, vars, ConsumeMalformed, ChannelCloses, WorkerStarts,
     WorkerSettles

\* The handler that waits for such an entry receives nothing.
LEMMA LostUnread ==
  ASSUME IInv, IInv', [Next]_vars, NEW c \in CorrIds, Lost(c), Lost(c)'
  PROVE  \A r \in Requests : corr[r] = c => pc'[r] # "read"
<1> SUFFICES ASSUME NEW r \in Requests, corr[r] = c, pc'[r] = "read" PROVE FALSE
  OBVIOUS
<1>1. corr'[r] = c
  BY IdsKept, NullsAreOutside
<1>2. reqMap'[c].address # NoAddr
  BY <1>1 DEF IInv, HandlersAnswered
<1>3. QED
  BY <1>2 DEF Lost

\* An entry whose message or response is lost stays unanswered, and its handler
\* without an address, until the server restarts.
THEOREM LostForGood == Spec => LostStaysLost
<1> DEFINE A == \A c \in CorrIds : Lost(c) =>
                  \/ restarts' # restarts
                  \/ Lost(c)' /\ \A r \in Requests : corr[r] = c => pc'[r] # "read"
<1>1. IInv /\ IInv' /\ [Next]_vars => [A]_vars
  BY LostKept, LostUnread
<1>2. QED
  BY <1>1, Correlated, PTL DEF Spec, LostStaysLost
=============================================================================
