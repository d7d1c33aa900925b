----------------------- MODULE DecompressionCacheProofs -----------------------
(***************************************************************************)
(* Theorems about DecompressionCache: for any keys, calls and paths, any    *)
(* TTL and timeout, and a clock that runs as long as one likes.             *)
(***************************************************************************)
EXTENDS DecompressionCache, TLAPS

-----------------------------------------------------------------------------
(* The inductive invariant.                                                *)

\* The objects whose append is complete: all that are listed but, while a call
\* is between the two steps of its append, the last.
Whole == IF lock = NoCall THEN 1 .. len ELSE 1 .. len - 1

\* Nothing but a removal shortens the list, and it ends the scan; so what a
\* scan has copied, the list at its length, still covers its index.
ScanInv ==
  /\ lock # NoCall => len > 0
  /\ scan.pc # "sleep" =>
       /\ scan.i \in 1 .. scan.n
       /\ scan.n <= len
       /\ scan.moved => scan.n <= Len(scan.array)

Before == {"idle", "check", "create", "store"}

\* One consumer goroutine: one call at a time, but the jobs of earlier ones.
CallInv ==
  /\ \A c, d \in Calls : pc[c] \notin Returned /\ pc[d] \notin Returned => c = d
  /\ \A c \in Calls :
       /\ pc[c] # "idle" => key[c] \in Keys
       /\ job[c] # "none" => pc[c] \notin Before
       /\ job[c] \in {"none", "running"} => made[c] = NoPath
       /\ pc[c] = "idle" => found[c] = NoPath

\* An object is its owner's, and shows the result of the owner's job.
OwnerInv ==
  \A i \in Whole :
    /\ slots[i].owner \in Calls
    /\ slots[i].key = key[slots[i].owner]
    /\ job[slots[i].owner] # "none"
    /\ job[slots[i].owner] = "done" => slots[i].path # NoPath \/ slots[i].err

\* A key is listed once, and not at all while a call is about to append it.
UniqueInv ==
  /\ \A i, j \in Whole : slots[i].key = slots[j].key => i = j
  /\ \A c \in Calls, i \in Whole :
       pc[c] \in {"create", "store"} => slots[i].key # key[c]

MadeFor(p, k) == \E c \in Calls : made[c] = p /\ key[c] = k

\* A file holds the key of the call whose job made it, or nothing any more, and
\* every path on its way to a reader is one that a job made for that key.
FileInv ==
  /\ \A c \in Calls : made[c] # NoPath => files[made[c]] \in {key[c], NoFile}
  /\ \A i \in Whole : slots[i].path # NoPath => MadeFor(slots[i].path, slots[i].key)
  /\ \A c \in Calls : found[c] # NoPath => MadeFor(found[c], key[c])
  /\ CallContent

IInv == TypeOK /\ ScanInv /\ CallInv /\ OwnerInv /\ UniqueInv /\ FileInv

LEMMA InvInit == Init => IInv
<1> SUFFICES ASSUME Init PROVE IInv
  OBVIOUS
<1>1. TypeOK
  <2>1. scan \in Scans
    BY DEF Init, Scans, NoScan, Zero, Object
  <2> QED
    BY <2>1, TimesAreNat, NullsAreOutside DEF Init, TypeOK
<1>2. Whole = {}
  BY DEF Init, Whole
<1> QED
  BY <1>1, <1>2 DEF Init, IInv, ScanInv, CallInv, OwnerInv, UniqueInv, FileInv,
                    MadeFor, CallContent, NoScan, Before, Returned

-----------------------------------------------------------------------------
(* Lemmas.                                                                 *)

\* The steps of the specification.
LEMMA StepKinds ==
  ASSUME [Next]_vars
  PROVE  \/ \E c \in Calls :
              \/ Call(c) \/ Check(c) \/ CreateLength(c) \/ CreateStore(c)
              \/ PollPath(c) \/ PollError(c) \/ ReadFound(c) \/ TimeOut(c)
              \/ JobWrites(c) \/ JobFails(c) \/ JobReports(c)
         \/ ScanBegin \/ ScanKeeps \/ ScanFindsExpired \/ ScanRemoves
         \/ Tick \/ UNCHANGED vars
BY DEF Next, CallStep, JobStep, ScanStep

\* A list of objects, written slot by slot.
LEMMA MapSeq ==
  ASSUME NEW S, NEW n \in Nat, NEW f \in [1 .. n -> S]
  PROVE  f \in Seq(S) /\ Len(f) = n
OBVIOUS

\* Of the objects listed for a key there is one at most, so the first is it.
LEMMA ResultIs ==
  ASSUME TypeOK, UniqueInv, Unlocked, NEW k
  PROVE  \/ Result(k) = Zero
         \/ \E i \in Whole : slots[i].key = k /\ Result(k) = slots[i]
<1>1. CASE ListedFor(k) = {}
  BY <1>1 DEF Result
<1>2. CASE ListedFor(k) # {}
  <2>1. PICK i \in ListedFor(k) : TRUE
    BY <1>2
  <2>2. i \in Whole /\ i \in Nat /\ slots[i].key = k
    BY <2>1 DEF ListedFor, Listed, Whole, Unlocked, TypeOK
  <2>3. \A h \in ListedFor(k) : h = i
    BY <2>1 DEF ListedFor, Listed, Whole, Unlocked, UniqueInv
  <2>4. \E j \in ListedFor(k) : \A h \in ListedFor(k) : j <= h
    BY <2>1, <2>2, <2>3
  <2>5. (CHOOSE j \in ListedFor(k) : \A h \in ListedFor(k) : j <= h)
          \in ListedFor(k)
    BY <2>4
  <2>6. (CHOOSE j \in ListedFor(k) : \A h \in ListedFor(k) : j <= h) = i
    BY <2>3, <2>5
  <2> QED
    BY <1>2, <2>2, <2>6 DEF Result
<1> QED
  BY <1>1, <1>2

\* What a scan looks at next is an object.
LEMMA ScannedIsObject ==
  ASSUME TypeOK, ScanInv, scan.pc # "sleep"
  PROVE  Scanned \in Object
BY DEF TypeOK, ScanInv, Scanned, Scans

\* The object that CreateStore writes.
New(c) == [key |-> key[c], path |-> NoPath, err |-> FALSE,
           lastAccess |-> now, owner |-> c]

\* The append completes the list by its last object.
LEMMA StoreEffect ==
  ASSUME TypeOK, ScanInv, NEW c \in Calls, CreateStore(c)
  PROVE  /\ lock = c /\ lock # NoCall /\ len \in 1 .. Len(slots)
         /\ Whole = 1 .. len - 1 /\ Whole' = 1 .. len
         /\ slots'[len] = New(c)
         /\ \A i \in Whole : slots'[i] = slots[i]
<1>1. lock = c /\ lock # NoCall /\ len \in 1 .. Len(slots)
  BY NullsAreOutside DEF TypeOK, ScanInv, CreateStore
<1>2. Whole = 1 .. len - 1 /\ Whole' = 1 .. len
  BY <1>1 DEF Whole, CreateStore
<1> QED
  BY <1>1, <1>2 DEF CreateStore, New, TypeOK

\* Its first step leaves the complete ones as they are.
LEMMA LengthEffect ==
  ASSUME TypeOK, NEW c \in Calls, CreateLength(c)
  PROVE  /\ Whole' = Whole /\ Whole = 1 .. len /\ len' = len + 1
         /\ lock = NoCall /\ lock' = c
         /\ slots' \in Seq(Object) /\ len' <= Len(slots')
         /\ \A i \in Whole : slots'[i] = slots[i]
<1>1. lock = NoCall /\ lock' = c /\ lock' # NoCall /\ len' = len + 1
  BY NullsAreOutside DEF CreateLength, Unlocked
<1>2. Whole' = Whole /\ Whole = 1 .. len
  BY <1>1 DEF Whole, TypeOK
<1>3. CASE len < Len(slots)
  BY <1>1, <1>2, <1>3 DEF CreateLength, TypeOK
<1>4. CASE len = Len(slots)
  <2>1. slots' = Append(slots, Zero) /\ Zero \in Object
    BY <1>4 DEF CreateLength, Zero, Object
  <2> QED
    BY <1>1, <1>2, <1>4, <2>1 DEF TypeOK
<1> QED
  BY <1>1, <1>2, <1>3, <1>4 DEF TypeOK

\* A report writes the result to the objects of its key, and to no other.
LEMMA ReportEffect ==
  ASSUME TypeOK, NEW c \in Calls, JobReports(c)
  PROVE  /\ Whole' = Whole /\ Whole = 1 .. len /\ lock = NoCall
         /\ slots' \in Seq(Object) /\ Len(slots') = Len(slots)
         /\ \A i \in Whole :
              /\ slots'[i].key = slots[i].key
              /\ slots'[i].owner = slots[i].owner
              /\ IF slots[i].key # key[c] THEN slots'[i] = slots[i]
                 ELSE IF made[c] = NoPath
                 THEN slots'[i].err /\ slots'[i].path = slots[i].path
                 ELSE slots'[i].path = made[c]
<1>1. Whole' = Whole /\ Whole = 1 .. len /\ lock = NoCall
  BY DEF JobReports, Whole, Unlocked
<1> DEFINE S(i) == IF i \notin ListedFor(key[c]) THEN slots[i]
                   ELSE IF made[c] = NoPath THEN [slots[i] EXCEPT !.err = TRUE]
                   ELSE [slots[i] EXCEPT !.path = made[c]]
<1>2. slots' = [i \in 1 .. Len(slots) |-> S(i)]
  BY DEF JobReports, TypeOK
<1>3. \A i \in 1 .. Len(slots) : S(i) \in Object
  <2> SUFFICES ASSUME NEW i \in 1 .. Len(slots) PROVE S(i) \in Object
    OBVIOUS
  <2>1. slots[i] \in Object /\ made[c] \in Paths \cup {NoPath}
    BY DEF TypeOK
  <2> QED
    BY <2>1 DEF Object
<1>4. slots' \in Seq(Object) /\ Len(slots') = Len(slots)
  <2> HIDE DEF S
  <2>1. slots' \in [1 .. Len(slots) -> Object] /\ Len(slots) \in Nat
    BY <1>2, <1>3 DEF TypeOK
  <2> QED
    BY <2>1, MapSeq
<1>5. ASSUME NEW i \in Whole
      PROVE  /\ slots'[i].key = slots[i].key
             /\ slots'[i].owner = slots[i].owner
             /\ IF slots[i].key # key[c] THEN slots'[i] = slots[i]
                ELSE IF made[c] = NoPath
                THEN slots'[i].err /\ slots'[i].path = slots[i].path
                ELSE slots'[i].path = made[c]
  <2>1. i \in 1 .. Len(slots) /\ i \in Listed
    BY <1>1 DEF TypeOK, Listed
  <2>2. slots'[i] = S(i) /\ slots[i] \in Object
    BY <1>2, <2>1 DEF TypeOK
  <2>3. i \in ListedFor(key[c]) <=> slots[i].key = key[c]
    BY <2>1 DEF ListedFor
  <2> QED
    BY <2>2, <2>3 DEF Object
<1> QED
  BY <1>1, <1>4, <1>5

\* A removal takes one object out and moves the later ones down.
Shifted(i) == IF i >= scan.i THEN i + 1 ELSE i

LEMMA RemoveEffect ==
  ASSUME TypeOK, ScanInv, ScanRemoves
  PROVE  /\ lock = NoCall /\ lock' = NoCall
         /\ len \in 1 .. Len(slots) /\ scan.i \in 1 .. len
         /\ Whole = 1 .. len /\ Whole' = 1 .. len - 1
         /\ slots' \in Seq(Object) /\ Len(slots') = Len(slots)
         /\ \A i \in Whole' : Shifted(i) \in Whole /\ slots'[i] = slots[Shifted(i)]
<1>1. lock = NoCall /\ lock' = NoCall /\ len' = len - 1
  BY DEF ScanRemoves, Unlocked
<1>2. len \in 1 .. Len(slots) /\ scan.i \in 1 .. len
  BY DEF ScanRemoves, ScanInv, TypeOK, Scans
<1>3. Whole = 1 .. len /\ Whole' = 1 .. len - 1
  BY <1>1 DEF Whole
<1> DEFINE S(j) == IF j \in scan.i .. len - 1 THEN slots[j + 1] ELSE slots[j]
<1>4. slots' = [j \in 1 .. Len(slots) |-> S(j)]
  BY DEF ScanRemoves, TypeOK
<1>5. \A j \in 1 .. Len(slots) : S(j) \in Object
  BY <1>2 DEF TypeOK
<1>6. slots' \in Seq(Object) /\ Len(slots') = Len(slots)
  <2> HIDE DEF S
  <2>1. slots' \in [1 .. Len(slots) -> Object] /\ Len(slots) \in Nat
    BY <1>4, <1>5 DEF TypeOK
  <2> QED
    BY <2>1, MapSeq
<1>7. ASSUME NEW i \in Whole'
      PROVE  Shifted(i) \in Whole /\ slots'[i] = slots[Shifted(i)]
  <2>1. i \in 1 .. Len(slots) /\ i \in 1 .. len - 1
    BY <1>2, <1>3 DEF TypeOK
  <2>2. slots'[i] = S(i)
    BY <1>4, <2>1
  <2> QED
    BY <1>2, <1>3, <2>1, <2>2 DEF Shifted
<1> QED
  BY <1>1, <1>2, <1>3, <1>6, <1>7

-----------------------------------------------------------------------------
(* Types.                                                                  *)

LEMMA TypeKept == ASSUME IInv, [Next]_vars PROVE TypeOK'
<1> USE DEF IInv, TypeOK, Goto, StartWaiting, listVars, callVars, jobVars
<1>1. ASSUME NEW c \in Calls, Call(c) PROVE TypeOK'
  BY <1>1 DEF Call
<1>2. ASSUME NEW c \in Calls, Check(c) PROVE TypeOK'
  <2>1. CASE ListedFor(key[c]) # {}
    <3>1. pc' = [pc EXCEPT ![c] = "wait"] /\ start' = [start EXCEPT ![c] = now]
      BY <1>2, <2>1 DEF Check
    <3>2. start' \in [Calls -> Nat]
      BY <3>1, TimesAreNat
    <3> QED
      BY <1>2, <3>1, <3>2 DEF Check
  <2>2. CASE ListedFor(key[c]) = {}
    BY <1>2, <2>2 DEF Check
  <2> QED
    BY <2>1, <2>2
<1>3. ASSUME NEW c \in Calls, CreateLength(c) PROVE TypeOK'
  <2>1. /\ lock = NoCall /\ lock' = c /\ len' = len + 1
        /\ slots' \in Seq(Object) /\ len' \in 0 .. Len(slots')
    BY <1>3, LengthEffect
  <2>2. scan' \in Scans
    <3>1. CASE UNCHANGED scan
      BY <3>1
    <3>2. CASE scan' = [scan EXCEPT !.array = slots, !.moved = TRUE]
      BY <3>2 DEF Scans
    <3> QED
      BY <1>3, <3>1, <3>2 DEF CreateLength
  <2>3. pc' = [pc EXCEPT ![c] = "store"]
    BY <1>3 DEF CreateLength
  <2>4. \A d \in Calls : lock' = d <=> pc'[d] = "store"
    BY <2>1, <2>3, NullsAreOutside
  <2>5. \A d \in Calls : pc'[d] = "read" => found[d] # NoPath
    BY <2>3
  <2> QED
    BY <1>3, <2>1, <2>2, <2>3, <2>4, <2>5 DEF CreateLength
<1>4. ASSUME NEW c \in Calls, CreateStore(c) PROVE TypeOK'
  <2>1. lock = c /\ len \in 1 .. Len(slots)
    BY <1>4, StoreEffect
  <2>2. New(c) \in Object
    BY DEF New, Object
  <2>3. slots' = [slots EXCEPT ![len] = New(c)]
    BY <1>4 DEF CreateStore, New
  <2>4. slots' \in Seq(Object) /\ Len(slots') = Len(slots)
    BY <2>1, <2>2, <2>3
  <2>5. pc' = [pc EXCEPT ![c] = "wait"] /\ start' \in [Calls -> Nat]
    BY <1>4 DEF CreateStore
  <2>6. \A d \in Calls : lock' = d <=> pc'[d] = "store"
    BY <1>4, <2>1, <2>5, NullsAreOutside DEF CreateStore
  <2> QED
    BY <1>4, <2>1, <2>4, <2>5, <2>6 DEF CreateStore
<1>5. ASSUME NEW c \in Calls, PollPath(c) PROVE TypeOK'
  <2>1. Result(key[c]) \in Object
    <3>1. CASE Result(key[c]) = Zero
      BY <3>1 DEF Zero, Object
    <3>2. ASSUME NEW i \in Whole, Result(key[c]) = slots[i]
          PROVE  Result(key[c]) \in Object
      BY <3>2 DEF Whole
    <3> QED
      BY <1>5, <3>1, <3>2, ResultIs DEF PollPath
  <2>2. Result(key[c]).path \in Paths \cup {NoPath}
    BY <2>1 DEF Object
  <2>3. /\ found' = [found EXCEPT ![c] = Result(key[c]).path]
        /\ pc' = [pc EXCEPT ![c] = "read"]
        /\ Result(key[c]).path # NoPath
    BY <1>5 DEF PollPath
  <2> HIDE DEF Result
  <2> QED
    BY <1>5, <2>2, <2>3 DEF PollPath
<1>6. ASSUME NEW c \in Calls, PollError(c) PROVE TypeOK'
  BY <1>6 DEF PollError
<1>7. ASSUME NEW c \in Calls, ReadFound(c) PROVE TypeOK'
  BY <1>7 DEF ReadFound
<1>8. ASSUME NEW c \in Calls, TimeOut(c) PROVE TypeOK'
  BY <1>8 DEF TimeOut
<1>9. ASSUME NEW c \in Calls, JobWrites(c) PROVE TypeOK'
  <2>1. PICK p \in Paths : /\ files' = [files EXCEPT ![p] = key[c]]
                           /\ made' = [made EXCEPT ![c] = p]
    BY <1>9 DEF JobWrites
  <2>2. key[c] \in Keys /\ job' = [job EXCEPT ![c] = "report"]
    BY <1>9 DEF JobWrites, CallInv, Before
  <2> QED
    BY <1>9, <2>1, <2>2 DEF JobWrites
<1>10. ASSUME NEW c \in Calls, JobFails(c) PROVE TypeOK'
  BY <1>10 DEF JobFails
<1>11. ASSUME NEW c \in Calls, JobReports(c) PROVE TypeOK'
  <2>1. slots' \in Seq(Object) /\ Len(slots') = Len(slots)
    BY <1>11, ReportEffect
  <2> QED
    BY <1>11, <2>1 DEF JobReports
<1>12. CASE ScanBegin
  <2>1. NoScan \in Scans
    BY DEF NoScan, Scans, Zero, Object
  <2>2. scan' \in Scans
    <3>1. len \in Nat
      OBVIOUS
    <3>2. scan' = [NoScan EXCEPT !.pc = "scan", !.i = 1, !.n = len]
      BY <1>12 DEF ScanBegin
    <3> HIDE DEF TypeOK
    <3> QED
      BY <2>1, <3>1, <3>2 DEF Scans
  <2> QED
    BY <1>12, <2>2 DEF ScanBegin
<1>13. CASE ScanKeeps
  <2>1. NoScan \in Scans
    BY DEF NoScan, Scans, Zero, Object
  <2>2. scan' \in Scans
    <3>1. CASE scan.i = scan.n
      BY <1>13, <2>1, <3>1 DEF ScanKeeps
    <3>2. CASE scan.i # scan.n
      <4>1. scan' = [scan EXCEPT !.i = @ + 1] /\ scan \in Scans
        BY <1>13, <3>2 DEF ScanKeeps
      <4> HIDE DEF TypeOK
      <4> QED
        BY <4>1 DEF Scans
    <3> QED
      BY <3>1, <3>2
  <2> QED
    BY <1>13, <2>2 DEF ScanKeeps
<1>14. CASE ScanFindsExpired
  <2>1. Scanned \in Object
    BY <1>14, ScannedIsObject DEF ScanFindsExpired
  <2>2. scan' \in Scans
    BY <1>14, <2>1 DEF ScanFindsExpired, Scans
  <2> QED
    BY <1>14, <2>2 DEF ScanFindsExpired
<1>15. CASE ScanRemoves
  <2>1. /\ slots' \in Seq(Object) /\ Len(slots') = Len(slots)
        /\ len \in 1 .. Len(slots) /\ scan.i \in Whole
    BY <1>15, RemoveEffect
  <2>2. slots[scan.i].owner \in Calls
    BY <2>1 DEF OwnerInv
  <2>3. NoScan \in Scans
    BY DEF NoScan, Scans, Zero, Object
  <2>4. len' = len - 1 /\ scan' = NoScan
    BY <1>15 DEF ScanRemoves
  <2>5. evicted' \subseteq Calls
    BY <1>15, <2>2 DEF ScanRemoves
  <2>6. files' \in [Paths -> Keys \cup {NoFile}]
    BY <1>15 DEF ScanRemoves
  <2> QED
    BY <1>15, <2>1, <2>3, <2>4, <2>5, <2>6 DEF ScanRemoves
<1>16. CASE Tick
  BY <1>16, TimesAreNat DEF Tick
<1>17. CASE UNCHANGED vars
  BY <1>17 DEF vars
<1> QED
  BY <1>1, <1>2, <1>3, <1>4, <1>5, <1>6, <1>7, <1>8, <1>9, <1>10, <1>11,
     <1>12, <1>13, <1>14, <1>15, <1>16, <1>17, StepKinds

-----------------------------------------------------------------------------
(* The range of the scan, and the calls.                                   *)

LEMMA ScanKept == ASSUME IInv, [Next]_vars PROVE ScanInv'
<1> USE NullsAreOutside DEF IInv, TypeOK, ScanInv, listVars, callVars, jobVars
<1>1. ASSUME NEW c \in Calls, CreateLength(c) PROVE ScanInv'
  <2>1. len \in Nat /\ len' = len + 1
    BY <1>1 DEF CreateLength
  <2>2. CASE UNCHANGED scan
    BY <2>1, <2>2 DEF Scans
  <2>3. CASE /\ scan' = [scan EXCEPT !.array = slots, !.moved = TRUE]
             /\ scan.pc = "scan" /\ len = Len(slots)
    BY <2>1, <2>3 DEF Scans
  <2> QED
    BY <1>1, <2>2, <2>3 DEF CreateLength
<1>2. ASSUME NEW c \in Calls, CreateStore(c) PROVE ScanInv'
  BY <1>2 DEF CreateStore
<1>3. CASE ScanBegin
  BY <1>3 DEF ScanBegin, NoScan
<1>4. CASE ScanKeeps
  BY <1>4 DEF ScanKeeps, NoScan, Scans
<1>5. CASE ScanFindsExpired
  BY <1>5 DEF ScanFindsExpired, Scans
<1>6. CASE ScanRemoves
  BY <1>6 DEF ScanRemoves, NoScan, Unlocked
<1>7. CASE UNCHANGED <<len, lock, scan>>
  BY <1>7
<1> QED
  BY <1>1, <1>2, <1>3, <1>4, <1>5, <1>6, <1>7, StepKinds
     DEF Call, Check, PollPath, PollError, ReadFound, TimeOut, JobWrites,
         JobFails, JobReports, Tick, vars

LEMMA CallKept == ASSUME IInv, [Next]_vars PROVE CallInv'
<1> USE DEF IInv, TypeOK, CallInv, Goto, StartWaiting, listVars, callVars,
            jobVars, Before, Returned
<1>1. ASSUME NEW c \in Calls, Call(c) PROVE CallInv'
  BY <1>1 DEF Call
<1>2. ASSUME NEW c \in Calls, Check(c) PROVE CallInv'
  BY <1>2 DEF Check
<1>3. ASSUME NEW c \in Calls, CreateLength(c) PROVE CallInv'
  BY <1>3 DEF CreateLength
<1>4. ASSUME NEW c \in Calls, CreateStore(c) PROVE CallInv'
  BY <1>4 DEF CreateStore
<1>5. ASSUME NEW c \in Calls, PollPath(c) PROVE CallInv'
  BY <1>5 DEF PollPath
<1>6. ASSUME NEW c \in Calls, PollError(c) PROVE CallInv'
  BY <1>6 DEF PollError
<1>7. ASSUME NEW c \in Calls, ReadFound(c) PROVE CallInv'
  BY <1>7 DEF ReadFound
<1>8. ASSUME NEW c \in Calls, TimeOut(c) PROVE CallInv'
  BY <1>8 DEF TimeOut
<1>9. ASSUME NEW c \in Calls, JobWrites(c) PROVE CallInv'
  BY <1>9 DEF JobWrites
<1>10. ASSUME NEW c \in Calls, JobFails(c) PROVE CallInv'
  BY <1>10 DEF JobFails
<1>11. ASSUME NEW c \in Calls, JobReports(c) PROVE CallInv'
  BY <1>11 DEF JobReports
<1>12. CASE UNCHANGED <<callVars, jobVars>>
  BY <1>12
<1> QED
  BY <1>1, <1>2, <1>3, <1>4, <1>5, <1>6, <1>7, <1>8, <1>9, <1>10, <1>11,
     <1>12, StepKinds
     DEF ScanBegin, ScanKeeps, ScanFindsExpired, ScanRemoves, Tick, vars

-----------------------------------------------------------------------------
(* The list.                                                               *)

LEMMA OwnerKept == ASSUME IInv, [Next]_vars PROVE OwnerInv'
<1> USE DEF IInv, OwnerInv
<1>1. ASSUME NEW c \in Calls, Call(c) PROVE OwnerInv'
  <2>1. \A d \in Calls : job[d] # "none" => d # c
    BY <1>1 DEF Call, CallInv, Before
  <2>2. Whole' = Whole /\ slots' = slots /\ job' = job
    BY <1>1 DEF Call, Whole, listVars, jobVars
  <2>3. \A d \in Calls : d # c => key'[d] = key[d]
    BY <1>1 DEF Call, TypeOK
  <2> QED
    BY <2>1, <2>2, <2>3
<1>2. ASSUME NEW c \in Calls, CreateLength(c) PROVE OwnerInv'
  BY <1>2, LengthEffect DEF CreateLength, jobVars
<1>3. ASSUME NEW c \in Calls, CreateStore(c) PROVE OwnerInv'
  <2>1. /\ Whole = 1 .. len - 1 /\ Whole' = 1 .. len /\ len \in Nat
        /\ slots'[len] = New(c)
        /\ \A i \in Whole : slots'[i] = slots[i]
    BY <1>3, StoreEffect
  <2>2. key' = key /\ job' = [job EXCEPT ![c] = "running"] /\ job[c] = "none"
    BY <1>3 DEF CreateStore, CallInv, Before, TypeOK
  <2>3. \A i \in Whole' : i = len \/ i \in Whole
    BY <2>1
  <2> QED
    BY <2>1, <2>2, <2>3 DEF New, TypeOK
<1>4. ASSUME NEW c \in Calls, JobWrites(c) \/ JobFails(c) PROVE OwnerInv'
  <2>1. Whole' = Whole /\ slots' = slots /\ key' = key
    BY <1>4 DEF JobWrites, JobFails, Whole, listVars, callVars
  <2>2. job' = [job EXCEPT ![c] = "report"]
    BY <1>4 DEF JobWrites, JobFails
  <2>3. \A d \in Calls : /\ job[d] # "none" => job'[d] # "none"
                         /\ job'[d] = "done" => job[d] = "done"
    BY <2>2 DEF TypeOK
  <2> QED
    BY <2>1, <2>3
<1>5. ASSUME NEW c \in Calls, JobReports(c) PROVE OwnerInv'
  <2>1. /\ Whole' = Whole /\ key' = key /\ job' = [job EXCEPT ![c] = "done"]
        /\ job \in [Calls -> {"none", "running", "report", "done"}]
    BY <1>5, ReportEffect DEF JobReports, callVars, TypeOK
  <2>2. ASSUME NEW i \in Whole
        PROVE  /\ slots'[i].owner \in Calls
               /\ slots'[i].key = key[slots'[i].owner]
               /\ job'[slots'[i].owner] # "none"
    BY <1>5, <2>1, <2>2, ReportEffect
  <2>3. ASSUME NEW i \in Whole, job'[slots'[i].owner] = "done"
        PROVE  slots'[i].path # NoPath \/ slots'[i].err
    <3>1. CASE slots[i].key = key[c]
      BY <1>5, <3>1, ReportEffect
    <3>2. CASE slots[i].key # key[c]
      BY <1>5, <2>1, <2>3, <3>2, ReportEffect
    <3> QED
      BY <3>1, <3>2
  <2> QED
    BY <2>1, <2>2, <2>3
<1>6. CASE ScanRemoves
  BY <1>6, RemoveEffect DEF ScanRemoves, callVars
<1>7. CASE UNCHANGED <<listVars, key, job>>
  BY <1>7 DEF listVars, Whole
<1> QED
  BY <1>1, <1>2, <1>3, <1>4, <1>5, <1>6, <1>7, StepKinds
     DEF Check, PollPath, PollError, ReadFound, TimeOut, ScanBegin, ScanKeeps,
         ScanFindsExpired, Tick, vars, callVars, jobVars

LEMMA UniqueKept == ASSUME IInv, [Next]_vars PROVE UniqueInv'
<1> USE DEF IInv, UniqueInv
<1>1. ASSUME NEW c \in Calls, Call(c) PROVE UniqueInv'
  <2>1. Whole' = Whole /\ slots' = slots
    BY <1>1 DEF Call, Whole, listVars
  <2>2. \A d \in Calls : pc'[d] \in {"create", "store"}
                           => pc[d] \in {"create", "store"} /\ key'[d] = key[d]
    BY <1>1 DEF Call, Goto, TypeOK
  <2> QED
    BY <2>1, <2>2
<1>2. ASSUME NEW c \in Calls, Check(c) PROVE UniqueInv'
  <2>1. Whole' = Whole /\ slots' = slots /\ key' = key /\ Whole = Listed
    BY <1>2 DEF Check, Whole, listVars, Listed, Unlocked
  <2>2. CASE ListedFor(key[c]) # {}
    BY <1>2, <2>1, <2>2 DEF Check, StartWaiting, Goto, TypeOK
  <2>3. CASE ListedFor(key[c]) = {}
    <3>1. pc' = [pc EXCEPT ![c] = "create"]
      BY <1>2, <2>3 DEF Check, Goto
    <3>2. \A i \in Whole : slots[i].key # key[c]
      BY <2>1, <2>3 DEF ListedFor
    <3> QED
      BY <2>1, <3>1, <3>2 DEF TypeOK
  <2> QED
    BY <2>2, <2>3
<1>3. ASSUME NEW c \in Calls, CreateLength(c) PROVE UniqueInv'
  <2>1. Whole' = Whole /\ \A i \in Whole : slots'[i] = slots[i]
    BY <1>3, LengthEffect
  <2>2. pc[c] = "create" /\ pc' = [pc EXCEPT ![c] = "store"] /\ key' = key
    BY <1>3 DEF CreateLength, Goto
  <2> QED
    <3>1. \A d \in Calls : pc'[d] \in {"create", "store"}
                             => pc[d] \in {"create", "store"}
      BY <2>2 DEF TypeOK
    <3> QED
      BY <2>1, <2>2, <3>1
<1>4. ASSUME NEW c \in Calls, CreateStore(c) PROVE UniqueInv'
  <2>1. /\ Whole = 1 .. len - 1 /\ Whole' = 1 .. len /\ len \in Nat
        /\ slots'[len] = New(c)
        /\ \A i \in Whole : slots'[i] = slots[i]
    BY <1>4, StoreEffect
  <2>2. /\ key' = key /\ pc[c] = "store" /\ pc' = [pc EXCEPT ![c] = "wait"]
    BY <1>4 DEF CreateStore, StartWaiting, Goto
  <2>3. \A i \in Whole' : i = len \/ i \in Whole
    BY <2>1
  <2>4. slots'[len].key = key[c]
    BY <2>1 DEF New
  <2>5. \A i \in Whole : slots'[i].key # slots'[len].key
    BY <2>1, <2>2, <2>4
  <2>6. \A i, j \in Whole' : slots'[i].key = slots'[j].key => i = j
    BY <2>1, <2>3, <2>5
  <2>7. \A d \in Calls : pc'[d] \notin {"create", "store"}
    BY <2>2 DEF CallInv, TypeOK, Returned
  <2> QED
    BY <2>6, <2>7
<1>5. ASSUME NEW c \in Calls, PollPath(c) \/ PollError(c) \/ ReadFound(c) \/ TimeOut(c)
      PROVE  UniqueInv'
  <2>1. Whole' = Whole /\ slots' = slots /\ key' = key
    BY <1>5 DEF PollPath, PollError, ReadFound, TimeOut, Whole, listVars
  <2>2. \A d \in Calls : pc'[d] \in {"create", "store"} => pc[d] = pc'[d]
    BY <1>5 DEF PollPath, PollError, ReadFound, TimeOut, Goto, TypeOK
  <2> QED
    BY <2>1, <2>2
<1>6. ASSUME NEW c \in Calls, JobReports(c) PROVE UniqueInv'
  <2>1. Whole' = Whole /\ \A i \in Whole : slots'[i].key = slots[i].key
    BY <1>6, ReportEffect
  <2>2. key' = key /\ pc' = pc
    BY <1>6 DEF JobReports, callVars
  <2> QED
    BY <2>1, <2>2
<1>7. CASE ScanRemoves
  <2>1. /\ \A i \in Whole' : Shifted(i) \in Whole /\ slots'[i] = slots[Shifted(i)]
        /\ scan.i \in Nat /\ Whole' \subseteq Nat
    BY <1>7, RemoveEffect
  <2>2. \A i, j \in Whole' : Shifted(i) = Shifted(j) => i = j
    BY <2>1 DEF Shifted
  <2> QED
    <3>1. key' = key /\ pc' = pc
      BY <1>7 DEF ScanRemoves, callVars
    <3>2. ASSUME NEW i \in Whole', NEW j \in Whole', slots'[i].key = slots'[j].key
          PROVE  i = j
      BY <2>1, <2>2, <3>2
    <3> QED
      BY <2>1, <3>1, <3>2
<1>8. CASE UNCHANGED <<listVars, key, pc>>
  BY <1>8 DEF listVars, Whole
<1> QED
  BY <1>1, <1>2, <1>3, <1>4, <1>5, <1>6, <1>7, <1>8, StepKinds
     DEF JobWrites, JobFails, ScanBegin, ScanKeeps, ScanFindsExpired, Tick,
         vars, callVars

-----------------------------------------------------------------------------
(* The files.                                                              *)

\* A path once made for a key stays so.
LEMMA MadeForKept ==
  ASSUME IInv, [Next]_vars, NEW p \in Paths, NEW k, MadeFor(p, k)
  PROVE  \E c \in Calls : made'[c] = p /\ key'[c] = k
<1>1. PICK d \in Calls : made[d] = p /\ key[d] = k
  BY DEF MadeFor
<1>2. made[d] # NoPath /\ job[d] \notin {"none", "running"} /\ pc[d] # "idle"
  BY <1>1, NullsAreOutside DEF IInv, CallInv, TypeOK, Before
<1>3. made'[d] = made[d]
  BY <1>2, StepKinds
     DEF Call, Check, CreateLength, CreateStore, PollPath, PollError, ReadFound,
         TimeOut, JobWrites, JobFails, JobReports, ScanBegin, ScanKeeps,
         ScanFindsExpired, ScanRemoves, Tick, vars, jobVars, IInv, TypeOK
<1>4. key'[d] = key[d]
  BY <1>2, StepKinds
     DEF Call, Check, CreateLength, CreateStore, PollPath, PollError, ReadFound,
         TimeOut, JobWrites, JobFails, JobReports, ScanBegin, ScanKeeps,
         ScanFindsExpired, ScanRemoves, Tick, vars, callVars, IInv, TypeOK
<1> QED
  BY <1>1, <1>3, <1>4 DEF MadeFor

\* So does what a path on its way to a reader was made for.
LEMMA FileKept == ASSUME IInv, [Next]_vars PROVE FileInv'
<1>1. \A c \in Calls : made'[c] # NoPath => files'[made'[c]] \in {key'[c], NoFile}
  <2> USE DEF IInv, FileInv, TypeOK
  <2>1. ASSUME NEW c \in Calls, Call(c)
        PROVE  \A d \in Calls :
                 made'[d] # NoPath => files'[made'[d]] \in {key'[d], NoFile}
    <3>1. made[c] = NoPath /\ made' = made /\ files' = files
      BY <2>1 DEF Call, CallInv, jobVars, Before
    <3>2. \A d \in Calls : d # c => key'[d] = key[d]
      BY <2>1 DEF Call
    <3> QED
      BY <3>1, <3>2
  <2>2. ASSUME NEW c \in Calls, JobWrites(c)
        PROVE  \A d \in Calls :
                 made'[d] # NoPath => files'[made'[d]] \in {key'[d], NoFile}
    <3>1. PICK p \in Paths : /\ Fresh(p)
                             /\ files' = [files EXCEPT ![p] = key[c]]
                             /\ made' = [made EXCEPT ![c] = p]
      BY <2>2 DEF JobWrites
    <3>2. key' = key
      BY <2>2 DEF JobWrites, callVars
    <3>3. \A d \in Calls : d # c => made'[d] = made[d] /\ made[d] # p
      BY <3>1 DEF Fresh
    <3>4. files'[made'[c]] = key'[c]
      BY <3>1, <3>2
    <3> QED
      BY <3>1, <3>2, <3>3, <3>4
  <2>3. CASE ScanRemoves
    <3>1. made' = made /\ key' = key
      BY <2>3 DEF ScanRemoves, callVars
    <3>2. \A p \in Paths : files'[p] \in {files[p], NoFile}
      BY <2>3 DEF ScanRemoves
    <3> QED
      BY <3>1, <3>2
  <2>4. CASE UNCHANGED <<key, made, files>>
    BY <2>4
  <2> QED
    BY <2>1, <2>2, <2>3, <2>4, StepKinds
       DEF Check, CreateLength, CreateStore, PollPath, PollError, ReadFound,
           TimeOut, JobFails, JobReports, ScanBegin, ScanKeeps,
           ScanFindsExpired, Tick, vars, callVars, jobVars
<1>2. \A i \in Whole' :
        slots'[i].path # NoPath => MadeFor(slots[i].path, slots[i].key)'
  <2>1. ASSUME NEW p \in Paths \cup {NoPath}, p # NoPath, NEW k, MadeFor(p, k)
        PROVE  \E c \in Calls : made'[c] = p /\ key'[c] = k
    BY <2>1, MadeForKept
  <2>2. ASSUME NEW i \in Whole', slots'[i].path # NoPath, NEW j \in Whole,
               slots'[i].path = slots[j].path, slots'[i].key = slots[j].key
        PROVE  \E c \in Calls : made'[c] = slots'[i].path /\ key'[c] = slots'[i].key
    <3>1. slots[j] \in Object
      BY DEF IInv, TypeOK, Whole
    <3>2. slots[j].path \in Paths \cup {NoPath}
      BY <3>1 DEF Object
    <3>3. MadeFor(slots[j].path, slots[j].key)
      BY <2>2 DEF IInv, FileInv
    <3> QED
      BY <2>1, <2>2, <3>2, <3>3
  \* Every object that is complete after the step is one from before it, but
  \* for the one just stored and those just reported.
  <2>3. ASSUME NEW i \in Whole', slots'[i].path # NoPath
        PROVE  \/ \E j \in Whole : slots'[i].path = slots[j].path
                                   /\ slots'[i].key = slots[j].key
               \/ \E c \in Calls : made'[c] = slots'[i].path
                                   /\ key'[c] = slots'[i].key
    <3>1. ASSUME NEW c \in Calls, CreateLength(c)
          PROVE  i \in Whole /\ slots'[i] = slots[i]
      BY <3>1, LengthEffect DEF IInv
    <3>2. ASSUME NEW c \in Calls, CreateStore(c)
          PROVE  i \in Whole /\ slots'[i] = slots[i]
      <4>1. /\ Whole = 1 .. len - 1 /\ Whole' = 1 .. len /\ len \in Nat
            /\ slots'[len] = New(c)
            /\ \A j \in Whole : slots'[j] = slots[j]
        BY <3>2, StoreEffect DEF IInv
      <4>2. i # len
        BY <2>3, <4>1 DEF New
      <4> QED
        BY <4>1, <4>2
    <3>3. ASSUME NEW c \in Calls, JobReports(c)
          PROVE  \/ i \in Whole /\ slots'[i].path = slots[i].path
                                /\ slots'[i].key = slots[i].key
                 \/ made'[c] = slots'[i].path /\ key'[c] = slots'[i].key
      <4>1. i \in Whole /\ made' = made /\ key' = key
        BY <3>3, ReportEffect DEF JobReports, callVars, IInv
      <4> QED
        BY <3>3, <4>1, ReportEffect DEF IInv
    <3>4. CASE ScanRemoves
      BY <3>4, RemoveEffect DEF IInv
    <3>5. CASE UNCHANGED listVars
      BY <3>5 DEF listVars, Whole
    <3> QED
      BY <3>1, <3>2, <3>3, <3>4, <3>5, StepKinds
         DEF Call, Check, PollPath, PollError, ReadFound, TimeOut, JobWrites,
             JobFails, ScanBegin, ScanKeeps, ScanFindsExpired, Tick, vars
  <2> QED
    BY <2>2, <2>3 DEF MadeFor
<1>3. \A c \in Calls : found'[c] # NoPath => MadeFor(found[c], key[c])'
  <2>1. ASSUME NEW d \in Calls, found'[d] # NoPath
        PROVE  MadeFor(found'[d], key'[d]) /\ found'[d] \in Paths
    <3>1. CASE found'[d] = found[d] /\ key'[d] = key[d]
      BY <2>1, <3>1 DEF IInv, FileInv, TypeOK
    <3>2. CASE Call(d)
      BY <2>1, <3>2 DEF Call, IInv, CallInv
    <3>3. CASE PollPath(d)
      <4>1. /\ found'[d] = Result(key[d]).path /\ key'[d] = key[d]
            /\ Result(key[d]).path # NoPath
        BY <3>3 DEF PollPath, IInv, TypeOK
      <4>2. Result(key[d]) # Zero
        BY <4>1 DEF Zero
      <4>3. PICK i \in Whole : slots[i].key = key[d] /\ Result(key[d]) = slots[i]
        BY <3>3, <4>2, ResultIs DEF PollPath, IInv
      <4>4. slots[i] \in Object
        BY <4>3 DEF IInv, TypeOK, Whole
      <4> QED
        BY <4>1, <4>3, <4>4 DEF IInv, FileInv, Object
    <3> QED
      BY <3>1, <3>2, <3>3, StepKinds
         DEF Call, Check, CreateLength, CreateStore, PollPath, PollError,
             ReadFound, TimeOut, JobWrites, JobFails, JobReports, ScanBegin,
             ScanKeeps, ScanFindsExpired, ScanRemoves, Tick, vars, callVars,
             IInv, TypeOK
  <2>2. ASSUME NEW d \in Calls, found'[d] # NoPath
        PROVE  \E c \in Calls : made'[c] = found'[d] /\ key'[c] = key'[d]
    BY <2>1, <2>2, MadeForKept
  <2> QED
    BY <2>2 DEF MadeFor
<1>4. CallContent'
  <2> USE DEF IInv, FileInv, CallContent, TypeOK, Goto, StartWaiting
  <2>1. ASSUME NEW c \in Calls, ReadFound(c) PROVE CallContent'
    <3>1. found[c] # NoPath /\ found[c] \in Paths /\ key' = key
      BY <2>1 DEF ReadFound
    <3>2. PICK d \in Calls : made[d] = found[c] /\ key[d] = key[c]
      BY <3>1 DEF MadeFor
    <3>3. files[found[c]] \in {key[c], NoFile}
      BY <3>1, <3>2
    <3>4. content'[c] \in {key'[c], Empty}
      BY <2>1, <3>1, <3>3 DEF ReadFound
    <3>5. \A e \in Calls : e # c => pc'[e] = pc[e] /\ content'[e] = content[e]
      BY <2>1 DEF ReadFound
    <3> QED
      BY <3>1, <3>4, <3>5
  <2>2. ASSUME NEW c \in Calls,
               Call(c) \/ Check(c) \/ CreateLength(c) \/ CreateStore(c)
                 \/ PollPath(c) \/ PollError(c) \/ TimeOut(c)
        PROVE  CallContent'
    <3>1. \A e \in Calls : pc'[e] = "ok" => pc[e] = "ok" /\ key'[e] = key[e]
      BY <2>2 DEF Call, Check, CreateLength, CreateStore, PollPath, PollError, TimeOut
    <3>2. content' = content
      BY <2>2 DEF Call, Check, CreateLength, CreateStore, PollPath, PollError, TimeOut
    <3> QED
      BY <3>1, <3>2
  <2>3. CASE UNCHANGED callVars
    BY <2>3 DEF callVars
  <2> QED
    BY <2>1, <2>2, <2>3, StepKinds
       DEF JobWrites, JobFails, JobReports, ScanBegin, ScanKeeps,
           ScanFindsExpired, ScanRemoves, Tick, vars
<1> QED
  BY <1>1, <1>2, <1>3, <1>4 DEF FileInv

-----------------------------------------------------------------------------
(* The theorems.                                                           *)

\* The invariant all the others follow from.
THEOREM CacheConsistent == Spec => []IInv
<1>1. IInv /\ [Next]_vars => IInv'
  BY TypeKept, ScanKept, CallKept, OwnerKept, UniqueKept, FileKept DEF IInv
<1> QED
  BY <1>1, InvInit, PTL DEF Spec

\* The types of TypeOK: the mutex is held exactly between the two steps of an
\* append, and no call reads before it has found a path.
THEOREM TypeCorrect == Spec => []TypeOK
<1>1. IInv => TypeOK
  BY DEF IInv
<1> QED
  BY <1>1, CacheConsistent, PTL

\* The index found without the lock is in the list when it is used under it, for
\* any number of calls that append meanwhile.
THEOREM RemovalNeverPanics == Spec => []RemovalInRange
<1>1. IInv => RemovalInRange
  BY DEF IInv, TypeOK, Scans, ScanInv, RemovalInRange
<1> QED
  BY <1>1, CacheConsistent, PTL

\* One consumer goroutine makes the look-up and the append one step as far as a
\* key's objects are concerned, whatever jobs and removals come between.
THEOREM KeyListedOnce == Spec => []OneObjectPerKey
<1>1. IInv => OneObjectPerKey
  BY DEF IInv, UniqueInv, Whole, Unlocked, Listed, OneObjectPerKey
<1> QED
  BY <1>1, CacheConsistent, PTL

\* No call returns the bytes of another key.
THEOREM ContentOfOwnKey == Spec => []CallContent
<1>1. IInv => CallContent
  BY DEF IInv, FileInv
<1> QED
  BY <1>1, CacheConsistent, PTL

\* The result of a finished job is never missing from its object, though the
\* job reports by key and the object may have moved in the list.
THEOREM ResultIsShown == Spec => []FinishedJobVisible
<1>1. IInv => FinishedJobVisible
  BY DEF IInv, OwnerInv, Whole, Unlocked, Listed, FinishedJobVisible
<1> QED
  BY <1>1, CacheConsistent, PTL
=============================================================================
