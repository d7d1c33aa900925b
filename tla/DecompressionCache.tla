------------------------- MODULE DecompressionCache -------------------------
(***************************************************************************)
(* The worker's cache of decompressed objects: the list of                 *)
(* internal/compression/repository.go, the goroutine that removes its      *)
(* expired objects, CompressionUsecase.GetDecompression that looks up,     *)
(* creates and waits, and the goroutines that do the decompression.        *)
(*                                                                         *)
(* Two accesses of the list are not ordered by the mutex: the removing      *)
(* goroutine ranges over it without locking.  So an append is two steps    *)
(* here, as Go compiles it: the new length is stored first, the element    *)
(* second; until then the slot holds what was there before, the zero value *)
(* in a new slot, a former object in one that a removal has left behind.   *)
(*                                                                         *)
(* One tick of the clock is the unit of TTL and Timeout.                   *)
(***************************************************************************)
EXTENDS Naturals, Sequences

CONSTANTS
  Keys,     \* (bucket, key) pairs
  Calls,    \* calls of GetDecompression, each used once
  Paths,    \* names os.CreateTemp may give a file
  TTL,      \* time.Minute of CreateDecompression
  Timeout,  \* the 80 seconds of GetDecompression
  MaxTime,  \* bound on the clock
  NoKey, NoPath, NoCall, NoFile, Empty

ASSUME TimesAreNat ==
  /\ TTL \in Nat /\ Timeout \in Nat /\ MaxTime \in Nat
  /\ TTL < Timeout

ASSUME NullsAreOutside ==
  /\ {NoKey, NoFile, Empty} \cap Keys = {}
  /\ NoFile # Empty
  /\ NoPath \notin Paths
  /\ NoCall \notin Calls

VARIABLES
  slots,   \* the array under CompressionRepository.dos, as far as ever written
  len,     \* len(dos)
  lock,    \* the call that holds mu across steps, or NoCall
  scan,    \* the goroutine decompressionListWorker
  pc, key, \* where each call of GetDecompression stands, and for what
  start,   \* when its timeout began
  found,   \* the path its polling goroutine found
  content, \* what it returned: the key the bytes belong to
  job,     \* the goroutine it started to call DoDecompression
  made,    \* the path of the file that goroutine wrote
  files,   \* what each temporary file holds
  now,     \* the clock
  evicted  \* ghost: calls whose object was removed before it had expired

listVars == <<slots, len, lock>>
callVars == <<pc, key, start, found, content>>
jobVars  == <<job, made, files>>
vars == <<listVars, scan, callVars, jobVars, now, evicted>>

Object == [key : Keys \cup {NoKey}, path : Paths \cup {NoPath}, err : BOOLEAN,
           lastAccess : Nat, owner : Calls \cup {NoCall}]

\* The zero DecompressionObject.  (owner is a ghost: the call that created it.)
Zero == [key |-> NoKey, path |-> NoPath, err |-> FALSE, lastAccess |-> 0,
         owner |-> NoCall]

\* Mutant: only an object whose file is there can expire.
ExpiredWithFile(obj) ==
  obj.key = NoKey \/ (obj.path # NoPath /\ now - obj.lastAccess > TTL)

\* Go's zero time is centuries ago and the zero TTL is 0.
Expired(obj) ==
  obj.key = NoKey \/ now - obj.lastAccess > TTL

Listed == 1 .. len
Unlocked == lock = NoCall

\* A scan walks the array it found when it began: "current" while that is still
\* dos's, a copy from before the append that moved dos to a larger one.
Scans == [pc : {"sleep", "scan", "remove"}, i : Nat, n : Nat,
          array : Seq(Object), moved : BOOLEAN, obj : Object]

NoScan == [pc |-> "sleep", i |-> 0, n |-> 0, array |-> << >>, moved |-> FALSE,
           obj |-> Zero]

TypeOK ==
  /\ slots \in Seq(Object)
  /\ len \in 0 .. Len(slots)
  /\ lock \in Calls \cup {NoCall}
  /\ scan \in Scans
  /\ pc \in [Calls -> {"idle", "check", "create", "store", "wait", "read",
                       "ok", "failed", "timeout"}]
  /\ key \in [Calls -> Keys \cup {NoKey}]
  /\ start \in [Calls -> Nat]
  /\ found \in [Calls -> Paths \cup {NoPath}]
  /\ content \in [Calls -> Keys \cup {Empty, NoFile}]
  /\ job \in [Calls -> {"none", "running", "report", "done"}]
  /\ made \in [Calls -> Paths \cup {NoPath}]
  /\ files \in [Paths -> Keys \cup {NoFile}]
  /\ now \in 0 .. MaxTime
  /\ evicted \subseteq Calls
  /\ \A c \in Calls : lock = c <=> pc[c] = "store"
  /\ \A c \in Calls : pc[c] = "read" => found[c] # NoPath

Init ==
  /\ slots = << >>
  /\ len = 0
  /\ lock = NoCall
  /\ scan = NoScan
  /\ pc = [c \in Calls |-> "idle"]
  /\ key = [c \in Calls |-> NoKey]
  /\ start = [c \in Calls |-> 0]
  /\ found = [c \in Calls |-> NoPath]
  /\ content = [c \in Calls |-> NoFile]
  /\ job = [c \in Calls |-> "none"]
  /\ made = [c \in Calls |-> NoPath]
  /\ files = [p \in Paths |-> NoFile]
  /\ now = 0
  /\ evicted = {}

-----------------------------------------------------------------------------
(* GetDecompression.                                                       *)

Goto(c, label) == pc' = [pc EXCEPT ![c] = label]
Returned == {"idle", "ok", "failed", "timeout"}

\* Mutant: deliveries are handled concurrently.
CallConcurrent(c) ==
  /\ pc[c] = "idle"
  /\ now + Timeout <= MaxTime
  /\ \E k \in Keys : key' = [key EXCEPT ![c] = k]
  /\ Goto(c, "check")
  /\ UNCHANGED <<listVars, scan, start, found, content, jobVars, now, evicted>>

\* ConsumeDecompression handles one delivery after the other, so it makes one
\* call at a time.  Bound: a call begins early enough to time out by MaxTime.
Call(c) ==
  /\ pc[c] = "idle"
  /\ \A d \in Calls : pc[d] \in Returned
  /\ now + Timeout <= MaxTime
  /\ \E k \in Keys : key' = [key EXCEPT ![c] = k]
  /\ Goto(c, "check")
  /\ UNCHANGED <<listVars, scan, start, found, content, jobVars, now, evicted>>

\* The objects of key k, which IsDecompressHasRequested and the others look for.
ListedFor(k) == {i \in Listed : slots[i].key = k}

StartWaiting(c) == Goto(c, "wait") /\ start' = [start EXCEPT ![c] = now]

\* IsDecompressHasRequested: the call waits for the object that is there.
Check(c) ==
  /\ pc[c] = "check"
  /\ Unlocked
  /\ IF ListedFor(key[c]) # {} THEN StartWaiting(c)
     ELSE Goto(c, "create") /\ UNCHANGED start
  /\ UNCHANGED <<listVars, scan, key, found, content, jobVars, now, evicted>>

\* Mutant: CreateDecompression does not lock.
CreateLengthUnlocked(c) ==
  /\ pc[c] = "create"
  /\ len' = len + 1
  /\ slots' = IF len < Len(slots) THEN slots ELSE Append(slots, Zero)
  /\ Goto(c, "store")
  /\ UNCHANGED <<lock, scan, key, start, found, content, jobVars, now, evicted>>

\* CreateDecompression, first step of the append: the length.  A full array is
\* left for a larger one, and a scan in progress stays with the old one.
CreateLength(c) ==
  /\ pc[c] = "create"
  /\ Unlocked
  /\ lock' = c
  /\ len' = len + 1
  /\ \/ /\ len < Len(slots)
        /\ UNCHANGED <<slots, scan>>
     \/ /\ len = Len(slots)
        /\ slots' = Append(slots, Zero)
        /\ \/ UNCHANGED scan
           \/ /\ scan.pc = "scan" /\ ~scan.moved
              /\ scan' = [scan EXCEPT !.array = slots, !.moved = TRUE]
  /\ Goto(c, "store")
  /\ UNCHANGED <<key, start, found, content, jobVars, now, evicted>>

\* Second step: the element.  The deferred Unlock follows, GetDecompression
\* starts the goroutine that will call DoDecompression and begins to wait.
CreateStore(c) ==
  /\ pc[c] = "store"
  /\ slots' = [slots EXCEPT ![len] =
                 [key |-> key[c], path |-> NoPath, err |-> FALSE,
                  lastAccess |-> now, owner |-> c]]
  /\ lock' = NoCall
  /\ job' = [job EXCEPT ![c] = "running"]
  /\ StartWaiting(c)
  /\ UNCHANGED <<len, scan, key, found, content, made, files, now, evicted>>

\* Mutant: the loop returns the first object without comparing its key.
ResultOfAnyKey(k) == IF len = 0 THEN Zero ELSE slots[1]

\* The first object of key k decides, as in GetDecompressedObjectResult.
Result(k) ==
  LET i == CHOOSE j \in ListedFor(k) : \A h \in ListedFor(k) : j <= h
  IN  IF ListedFor(k) = {} THEN Zero ELSE slots[i]

\* The polling goroutine finds a file path.  (That goroutine outlives a call
\* that has timed out, but then only reads, and is left out.)
PollPath(c) ==
  /\ pc[c] = "wait"
  /\ Unlocked
  /\ Result(key[c]).path # NoPath
  /\ found' = [found EXCEPT ![c] = Result(key[c]).path]
  /\ Goto(c, "read")
  /\ UNCHANGED <<listVars, scan, key, start, content, jobVars, now, evicted>>

\* It finds an error and no path.
PollError(c) ==
  /\ pc[c] = "wait"
  /\ Unlocked
  /\ Result(key[c]).path = NoPath
  /\ Result(key[c]).err
  /\ Goto(c, "failed")
  /\ UNCHANGED <<listVars, scan, key, start, found, content, jobVars, now,
                 evicted>>

\* ReadFile, unlocked.  An error is logged and nil is sent as the content.
ReadFound(c) ==
  /\ pc[c] = "read"
  /\ content' = [content EXCEPT ![c] = IF files[found[c]] = NoFile THEN Empty
                                       ELSE files[found[c]]]
  /\ Goto(c, "ok")
  /\ UNCHANGED <<listVars, scan, key, start, found, jobVars, now, evicted>>

\* Mutant: only the read has a deadline, not the wait.
TimeOutReading(c) ==
  /\ pc[c] = "read"
  /\ now - start[c] >= Timeout
  /\ Goto(c, "timeout")
  /\ UNCHANGED <<listVars, scan, key, start, found, content, jobVars, now,
                 evicted>>

\* ctxTimeout.Done().
TimeOut(c) ==
  /\ pc[c] \in {"wait", "read"}
  /\ now - start[c] >= Timeout
  /\ Goto(c, "timeout")
  /\ UNCHANGED <<listVars, scan, key, start, found, content, jobVars, now,
                 evicted>>

-----------------------------------------------------------------------------
(* The goroutine that decompresses.  It has no timeout of its own.         *)

Fresh(p) == files[p] = NoFile /\ \A c \in Calls : made[c] # p

\* DoDecompression puts the object into a new temporary file.
JobWrites(c) ==
  /\ job[c] = "running"
  /\ \E p \in Paths :
       /\ Fresh(p)
       /\ files' = [files EXCEPT ![p] = key[c]]
       /\ made' = [made EXCEPT ![c] = p]
  /\ job' = [job EXCEPT ![c] = "report"]
  /\ UNCHANGED <<listVars, scan, callVars, now, evicted>>

\* DoDecompression fails: the extension, the download, the archive, the disk.
JobFails(c) ==
  /\ job[c] = "running"
  /\ job' = [job EXCEPT ![c] = "report"]
  /\ UNCHANGED <<listVars, scan, callVars, made, files, now, evicted>>

\* Mutant: the loop assigns to its copy, obj.FilePath instead of
\* cr.dos[i].FilePath.
JobReportsToCopy(c) ==
  /\ job[c] = "report"
  /\ Unlocked
  /\ job' = [job EXCEPT ![c] = "done"]
  /\ UNCHANGED <<slots, len, lock, scan, callVars, made, files, now, evicted>>

\* UpdateDecompressionFilePath or UpdateDecompressionError, on every object
\* listed for the key, whichever call created it.
JobReports(c) ==
  /\ job[c] = "report"
  /\ Unlocked
  /\ slots' = [i \in DOMAIN slots |->
       IF i \notin ListedFor(key[c]) THEN slots[i]
       ELSE IF made[c] = NoPath THEN [slots[i] EXCEPT !.err = TRUE]
       ELSE [slots[i] EXCEPT !.path = made[c]]]
  /\ job' = [job EXCEPT ![c] = "done"]
  /\ UNCHANGED <<len, lock, scan, callVars, made, files, now, evicted>>

-----------------------------------------------------------------------------
(* decompressionListWorker.                                                *)

\* range evaluates dos once: its length now, and the array it has now.
ScanBegin ==
  /\ scan.pc = "sleep"
  /\ len > 0
  /\ scan' = [NoScan EXCEPT !.pc = "scan", !.i = 1, !.n = len]
  /\ UNCHANGED <<listVars, callVars, jobVars, now, evicted>>

Scanned == IF scan.moved THEN scan.array[scan.i] ELSE slots[scan.i]

\* The next object is copied out and tested, without the lock.
ScanKeeps ==
  /\ scan.pc = "scan"
  /\ ~Expired(Scanned)
  /\ scan' = IF scan.i = scan.n THEN NoScan ELSE [scan EXCEPT !.i = @ + 1]
  /\ UNCHANGED <<listVars, callVars, jobVars, now, evicted>>

ScanFindsExpired ==
  /\ scan.pc = "scan"
  /\ Expired(Scanned)
  /\ scan' = [scan EXCEPT !.pc = "remove", !.obj = Scanned]
  /\ UNCHANGED <<listVars, callVars, jobVars, now, evicted>>

\* Mutant: no break after a removal, the range goes on.
ScanRemovesAndGoesOn ==
  /\ scan.pc = "remove"
  /\ Unlocked
  /\ files' = [p \in Paths |-> IF p = scan.obj.path THEN NoFile ELSE files[p]]
  /\ slots' = [j \in DOMAIN slots |->
                 IF j \in scan.i .. len - 1 THEN slots[j + 1] ELSE slots[j]]
  /\ len' = len - 1
  /\ scan' = IF scan.i = scan.n THEN NoScan
             ELSE [scan EXCEPT !.pc = "scan", !.i = @ + 1]
  /\ evicted' = IF Expired(slots[scan.i]) THEN evicted
                ELSE evicted \cup {slots[scan.i].owner}
  /\ UNCHANGED <<lock, callVars, job, made, now>>

\* Under the lock: the file the copied object names is removed, and the i-th
\* object of the list as it is now, shifting the later ones down in place.
ScanRemoves ==
  /\ scan.pc = "remove"
  /\ Unlocked
  /\ files' = [p \in Paths |-> IF p = scan.obj.path THEN NoFile ELSE files[p]]
  /\ slots' = [j \in DOMAIN slots |->
                 IF j \in scan.i .. len - 1 THEN slots[j + 1] ELSE slots[j]]
  /\ len' = len - 1
  /\ scan' = NoScan
  /\ evicted' = IF Expired(slots[scan.i]) THEN evicted
                ELSE evicted \cup {slots[scan.i].owner}
  /\ UNCHANGED <<lock, callVars, job, made, now>>

\* Bound: the clock stops at MaxTime, and before that leaves a call that has
\* yet to begin its wait the time to time out.
Tick ==
  /\ now < MaxTime
  /\ \A c \in Calls :
       pc[c] \in {"check", "create", "store"} => now + Timeout < MaxTime
  /\ now' = now + 1
  /\ UNCHANGED <<listVars, scan, callVars, jobVars, evicted>>

-----------------------------------------------------------------------------
CallStep(c) ==
  \/ Check(c) \/ CreateLength(c) \/ CreateStore(c)
  \/ PollPath(c) \/ PollError(c) \/ ReadFound(c) \/ TimeOut(c)

JobStep(c) == JobWrites(c) \/ JobFails(c) \/ JobReports(c)

ScanStep == ScanBegin \/ ScanKeeps \/ ScanFindsExpired \/ ScanRemoves

Next ==
  \/ \E c \in Calls : Call(c) \/ CallStep(c) \/ JobStep(c)
  \/ ScanStep
  \/ Tick

Spec == Init /\ [][Next]_vars

\* The clock runs and the Go scheduler runs every goroutine that can run; a
\* decompression itself may take for ever.
FairSpec ==
  /\ Spec
  /\ WF_vars(Tick)
  /\ WF_vars(ScanStep)
  /\ \A c \in Calls : WF_vars(CallStep(c))

-----------------------------------------------------------------------------
(* Properties.                                                             *)

\* The index found without the lock is still in the list when it is used under
\* the lock, so dos[i+1:] never panics: only this goroutine shortens the list,
\* and it starts a new range after each removal.
RemovalInRange == scan.pc # "sleep" => scan.n <= len /\ scan.i <= scan.n

\* A key is listed at most once, so a call cannot be shadowed by another
\* object of its key.  The look-up and the append are two critical sections:
\* that no second call comes between rests on the one consumer goroutine.
OneObjectPerKey ==
  Unlocked => \A i, j \in Listed : slots[i].key = slots[j].key => i = j

\* A call that returns bytes returns its own key's, or nothing at all when the
\* file was removed between the look-up and the read: late jobs of earlier
\* calls, removals by index and shared objects never mix two keys.
CallContent ==
  \A c \in Calls : pc[c] = "ok" => content[c] \in {key[c], Empty}

\* The result of a finished job is seen by every call waiting for its key, as
\* long as the object the job was started for is still listed.
FinishedJobVisible ==
  \A i \in Listed :
    Unlocked /\ slots[i].owner # NoCall /\ job[slots[i].owner] = "done"
      => slots[i].path # NoPath \/ slots[i].err

\* The comment in decompressionListWorker, "Removing object from list if
\* already expired": an object is removed only when it has expired.
RemovesOnlyExpired == evicted = {}

\* Every call returns, even if no decompression ever ends.
CallReturns ==
  \A c \in Calls : pc[c] = "check" ~> pc[c] \in {"ok", "failed", "timeout"}

\* Every object leaves the list, whatever became of its job: nothing, not even
\* a call that joins it, extends its life beyond TTL and the next scans.
ObjectsExpire ==
  \A c \in Calls :
    pc[c] = "store" ~> Unlocked /\ \A i \in Listed : slots[i].owner # c
=============================================================================
