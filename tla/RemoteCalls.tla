---------------------------- MODULE RemoteCalls ----------------------------
(***************************************************************************)
(* What the RPC library promises to those who call RemoteCall, whatever    *)
(* happens to connections, queues and processes: each server serves a call *)
(* at most once; a call that is refused is never served, now or later; an  *)
(* outcome other than a timeout is one that a server has given; and after  *)
(* a timeout nothing is known, the call may be served yet.                 *)
(***************************************************************************)
CONSTANTS Calls, Servers

Statuses == {"success", "badHandler", "internal"}
Refusals == {"closed", "publishError"}
Outcomes == Statuses \cup Refusals \cup {"timeout", "unmarshalError"}

VARIABLES
  phase,   \* of each call
  outcome, \* what RemoteCall has returned
  served   \* what each server has made of each call

vars == <<phase, outcome, served>>

TypeOK ==
  /\ phase \in [Calls -> {"idle", "called", "returned"}]
  /\ outcome \in [Calls -> Outcomes \cup {"none"}]
  /\ served \in [Calls -> [Servers -> Statuses \cup {"none"}]]

Init ==
  /\ phase = [c \in Calls |-> "idle"]
  /\ outcome = [c \in Calls |-> "none"]
  /\ served = [c \in Calls |-> [s \in Servers |-> "none"]]

Invoke(c) ==
  /\ phase[c] = "idle"
  /\ phase' = [phase EXCEPT ![c] = "called"]
  /\ UNCHANGED <<outcome, served>>

Serve(c, s, status) ==
  /\ phase[c] # "idle"
  /\ outcome[c] \notin Refusals
  /\ served[c][s] = "none"
  /\ served' = [served EXCEPT ![c][s] = status]
  /\ UNCHANGED <<phase, outcome>>

\* A response that does not fit the caller's variable is an error as well.
OutcomesOf(status) ==
  IF status = "success" THEN {"success", "unmarshalError"} ELSE {status}

Possible(c) ==
  (UNION {OutcomesOf(served[c][s]) : s \in {t \in Servers : served[c][t] # "none"}})
    \cup {"timeout"}
    \cup (IF \A s \in Servers : served[c][s] = "none" THEN Refusals ELSE {})

Return(c, o) ==
  /\ phase[c] = "called"
  /\ o \in Possible(c)
  /\ phase' = [phase EXCEPT ![c] = "returned"]
  /\ outcome' = [outcome EXCEPT ![c] = o]
  /\ UNCHANGED served

Next == \E c \in Calls :
  \/ Invoke(c)
  \/ \E s \in Servers, status \in Statuses : Serve(c, s, status)
  \/ \E o \in Outcomes : Return(c, o)

Spec == Init /\ [][Next]_vars
=============================================================================
