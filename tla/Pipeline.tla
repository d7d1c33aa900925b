------------------------------ MODULE Pipeline ------------------------------
(***************************************************************************)
(* What a worker does to an object: DoCompression and DoDecompression of   *)
(* internal/compression/usecase.go, with the archivers of pkg/archive and  *)
(* the S3 repository below them.  One goroutine compresses, one message    *)
(* after the other and always in the same two buffers; any number of       *)
(* goroutines decompress, each in buffers of its own.                      *)
(*                                                                         *)
(* Bytes are sequences of blocks: a tar entry, the End marker (GNU tar     *)
(* pads with more than one), something Broken, or a whole gzip member,     *)
(* the record [gz |-> bytes].  An archive without a marker ends with its   *)
(* bytes, as for Go's reader.                                              *)
(***************************************************************************)
EXTENDS Naturals, SequencesExt

CONSTANTS
  Objects,    \* (bucket, key) pairs that messages may name
  TarObjects, \* those of them whose key ends in .tar
  Entries,    \* tar entries
  AsFile,     \* the regular file Extract and Compress make of an entry
  Archives,   \* what users may store under a key
  MaxPuts,    \* bound on how often they do
  Jobs,       \* goroutines that call DoDecompression, each used once
  Paths,      \* names os.CreateTemp may give a file
  End, Broken, Absent, NoObject, NoPath

ASSUME PutsAreNat == MaxPuts \in Nat
ASSUME ObjectsAreObjects == TarObjects \subseteq Objects /\ NoObject \notin Objects
ASSUME MarkersAreApart == {End, Broken} \cap Entries = {} /\ End # Broken
ASSUME PathsAreNames == NoPath \notin Paths

\* Only the name and the body of an entry are kept: a link or a directory
\* comes out as an empty file of its name.  Doing it twice changes nothing.
ASSUME AsFileIsIdempotent ==
  /\ AsFile \in [Entries -> Entries]
  /\ \A e \in Entries : AsFile[AsFile[e]] = AsFile[e]

Blocks == Entries \cup {End, Broken}
Members == [gz : Seq(Blocks)]
ASSUME MembersAreApart == \A b \in Blocks : b \notin Members
ASSUME ArchivesAreBytes == Archives \subseteq Seq(Blocks)
ASSUME AbsentIsNothing ==
  Absent \notin Seq(Blocks) \cup Seq(Members \cup {Broken})

VARIABLES
  versions,   \* what users have stored under each key, the last one is current
  stored,     \* the object of bucket-compressed and key.gz, or Absent
  pc,         \* where DoCompression stands
  object,     \* what it was called for
  source, output, \* compBuffer
  extracted,  \* the files Extract returned
  result,     \* how the last call ended
  began, read,    \* ghosts: versions there when it began, the one it downloaded
  storedFrom, \* ghost: the version a stored object was made from
  job, jobObject, jobSource, jobOutput, jobPath, \* the same of each goroutine
  jobFrom,    \* ghost: storedFrom of the object it downloaded
  temp        \* what each temporary file holds

callVars == <<pc, object, source, output, extracted, result, began, read>>
storeVars == <<stored, storedFrom>>
jobVars == <<job, jobObject, jobSource, jobOutput, jobPath, jobFrom, temp>>
vars == <<versions, storeVars, callVars, jobVars>>

-----------------------------------------------------------------------------
(* The archivers.                                                          *)

\* The first block that is not an entry, 0 if there is none.
Stop(bytes) == SelectInSeq(bytes, LAMBDA b : b \notin Entries)

Readable(bytes) == Stop(bytes) = 0 \/ bytes[Stop(bytes)] = End

\* TarArchiever.Extract: entries up to the marker or the end of the bytes ...
FilesIn(bytes) ==
  LET n == IF Stop(bytes) = 0 THEN Len(bytes) ELSE Stop(bytes) - 1
  IN  [i \in 1 .. n |-> AsFile[bytes[i]]]

\* ... and what it leaves in the buffer.
Rest(bytes) ==
  IF Stop(bytes) = 0 THEN << >> ELSE SubSeq(bytes, Stop(bytes) + 1, Len(bytes))

\* TarArchiever.Compress; the deferred Close adds the marker.
Tar(files) == Append(files, End)

\* TarGzArchiever.Compress; the deferred Closes run tar first, gzip last.
TarGz(files) == <<[gz |-> Tar(files)]>>

\* gzip.NewReader reads members in a row as one stream.
Gunzip(bytes) ==
  FlattenSeq([i \in DOMAIN bytes |->
                IF bytes[i] \in Members THEN bytes[i].gz ELSE <<Broken>>])

-----------------------------------------------------------------------------
TypeOK ==
  /\ versions \in [Objects -> Seq(Archives)]
  /\ stored \in [Objects -> Seq(Members \cup {Broken}) \cup {Absent}]
  /\ pc \in {"idle", "download", "extract", "compress", "upload"}
  /\ object \in Objects \cup {NoObject}
  /\ source \in Seq(Blocks)
  /\ output \in Seq(Members \cup {Broken})
  /\ extracted \in Seq(Entries)
  /\ result \in {"none", "done", "retry", "giveup"}
  /\ began \in Nat /\ read \in Nat
  /\ storedFrom \in [Objects -> Nat]
  /\ job \in [Jobs -> {"idle", "download", "repack", "write", "returned", "failed"}]
  /\ jobObject \in [Jobs -> Objects \cup {NoObject}]
  /\ jobSource \in [Jobs -> Seq(Members \cup {Broken})]
  /\ jobOutput \in [Jobs -> Seq(Blocks)]
  /\ jobPath \in [Jobs -> Paths \cup {NoPath}]
  /\ jobFrom \in [Jobs -> Nat]
  /\ temp \in [Paths -> Seq(Blocks) \cup {Absent}]
  /\ pc # "idle" => object \in TarObjects

\* Under the name of a compressed object there may be something from elsewhere
\* that does not unpack.
Init ==
  /\ versions = [o \in Objects |-> << >>]
  /\ stored \in [Objects -> {Absent, <<Broken>>}]
  /\ pc = "idle" /\ object = NoObject
  /\ source = << >> /\ output = << >> /\ extracted = << >>
  /\ result = "none" /\ began = 0 /\ read = 0
  /\ storedFrom = [o \in Objects |-> 0]
  /\ job = [j \in Jobs |-> "idle"]
  /\ jobObject = [j \in Jobs |-> NoObject]
  /\ jobSource = [j \in Jobs |-> << >>]
  /\ jobOutput = [j \in Jobs |-> << >>]
  /\ jobPath = [j \in Jobs |-> NoPath]
  /\ jobFrom = [j \in Jobs |-> 0]
  /\ temp = [p \in Paths |-> Absent]

Newest(o) == Len(versions[o])

\* A user stores another archive under the key, whatever the worker is doing.
PutSource(o, bytes) ==
  /\ FoldFunction(LAMBDA s, n : Len(s) + n, 0, versions) < MaxPuts
  /\ versions' = [versions EXCEPT ![o] = Append(@, bytes)]
  /\ UNCHANGED <<storeVars, callVars, jobVars>>

-----------------------------------------------------------------------------
(* DoCompression.  "retry" and "giveup" are its errors with shouldRetry    *)
(* true and false.                                                         *)

Return(how) == pc' = "idle" /\ result' = how

RefuseExtension(o) ==
  /\ pc = "idle"
  /\ o \in Objects \ TarObjects
  /\ object' = o /\ began' = Newest(o) /\ read' = 0
  /\ Return("giveup")
  /\ UNCHANGED <<versions, storeVars, source, output, extracted, jobVars>>

\* Mutant: only the source buffer is reset.
BeginKeepsOutput(o) ==
  /\ pc = "idle"
  /\ o \in TarObjects
  /\ object' = o /\ began' = Newest(o) /\ read' = 0
  /\ source' = << >>
  /\ pc' = "download" /\ result' = "none"
  /\ UNCHANGED <<versions, storeVars, output, extracted, jobVars>>

\* Mutant: the key's extension is not looked at.
BeginAnyExtension(o) ==
  /\ pc = "idle"
  /\ o \in Objects
  /\ object' = o /\ began' = Newest(o) /\ read' = 0
  /\ source' = << >> /\ output' = << >>
  /\ pc' = "download" /\ result' = "none"
  /\ UNCHANGED <<versions, storeVars, extracted, jobVars>>

\* Both buffers are reset, whatever the last call has left in them.
Begin(o) ==
  /\ pc = "idle"
  /\ o \in TarObjects
  /\ object' = o /\ began' = Newest(o) /\ read' = 0
  /\ source' = << >> /\ output' = << >>
  /\ pc' = "download" /\ result' = "none"
  /\ UNCHANGED <<versions, storeVars, extracted, jobVars>>

Download ==
  /\ pc = "download"
  /\ Newest(object) > 0
  /\ Last(versions[object]) # << >>
  /\ source' = source \o Last(versions[object])
  /\ read' = Newest(object)
  /\ pc' = "extract"
  /\ UNCHANGED <<versions, storeVars, object, output, extracted, result, began,
                 jobVars>>

\* There is no object, answered with status 404.
DownloadNotFound ==
  /\ pc = "download"
  /\ Newest(object) = 0
  /\ Return("giveup")
  /\ UNCHANGED <<versions, storeVars, object, source, output, extracted, began,
                 read, jobVars>>

\* Any other error, an object of no bytes being one.
DownloadFails ==
  /\ pc = "download"
  /\ Return("retry")
  /\ UNCHANGED <<versions, storeVars, object, source, output, extracted, began,
                 read, jobVars>>

\* Mutant: the padding is taken for another archive that follows.
ExtractStrictly ==
  /\ pc = "extract"
  /\ source' = Rest(source)
  /\ IF Readable(source) /\ Rest(source) = << >>
     THEN extracted' = FilesIn(source) /\ pc' = "compress" /\ UNCHANGED result
     ELSE Return("giveup") /\ UNCHANGED extracted
  /\ UNCHANGED <<versions, storeVars, object, output, began, read, jobVars>>

\* A broken archive is an error; the padding of a good one stays unread.
Extract ==
  /\ pc = "extract"
  /\ source' = Rest(source)
  /\ IF Readable(source)
     THEN extracted' = FilesIn(source) /\ pc' = "compress" /\ UNCHANGED result
     ELSE Return("giveup") /\ UNCHANGED extracted
  /\ UNCHANGED <<versions, storeVars, object, output, began, read, jobVars>>

Compress ==
  /\ pc = "compress"
  /\ output' = output \o TarGz(extracted)
  /\ pc' = "upload"
  /\ UNCHANGED <<versions, storeVars, object, source, extracted, result, began,
                 read, jobVars>>

\* An entry is refused; the deferred Closes still finish the archive.
CompressFails ==
  /\ pc = "compress"
  /\ \E n \in 0 .. Len(extracted) - 1 :
       output' = output \o TarGz(SubSeq(extracted, 1, n))
  /\ Return("retry")
  /\ UNCHANGED <<versions, storeVars, object, source, extracted, began, read,
                 jobVars>>

\* The store has taken what the output buffer holds.
Store ==
  /\ stored' = [stored EXCEPT ![object] = output]
  /\ storedFrom' = [storedFrom EXCEPT ![object] = read]

Upload ==
  /\ pc = "upload"
  /\ Store
  /\ output' = << >>
  /\ Return("done")
  /\ UNCHANGED <<versions, object, source, extracted, began, read, jobVars>>

\* Mutant: the error of UploadObject is not returned.
UploadFailsSilently ==
  /\ pc = "upload"
  /\ Store \/ UNCHANGED storeVars
  /\ output' \in {output, << >>, <<Broken>>}
  /\ Return("done")
  /\ UNCHANGED <<versions, object, source, extracted, began, read, jobVars>>

\* The upload may have read the buffer, or a part of it, and the store may have
\* taken it though the answer was lost.
UploadFails ==
  /\ pc = "upload"
  /\ Store \/ UNCHANGED storeVars
  /\ output' \in {output, << >>, <<Broken>>}
  /\ Return("retry")
  /\ UNCHANGED <<versions, object, source, extracted, began, read, jobVars>>

-----------------------------------------------------------------------------
(* DoDecompression, in the goroutine that GetDecompression starts.         *)

BeginJob(j, o) ==
  /\ job[j] = "idle"
  /\ jobObject' = [jobObject EXCEPT ![j] = o]
  /\ job' = [job EXCEPT ![j] = IF o \in TarObjects THEN "download" ELSE "failed"]
  /\ UNCHANGED <<versions, storeVars, callVars, jobSource, jobOutput, jobPath,
                 jobFrom, temp>>

\* Mutant: all jobs work in decompBuffer, as the lines commented out did.
JobDownloadShared(j) ==
  /\ job[j] = "download"
  /\ stored[jobObject[j]] # Absent
  /\ jobSource' = [k \in Jobs |-> stored[jobObject[j]]]
  /\ jobFrom' = [jobFrom EXCEPT ![j] = storedFrom[jobObject[j]]]
  /\ job' = [job EXCEPT ![j] = "repack"]
  /\ UNCHANGED <<versions, storeVars, callVars, jobObject, jobOutput, jobPath,
                 temp>>

JobDownload(j) ==
  /\ job[j] = "download"
  /\ stored[jobObject[j]] # Absent
  /\ jobSource' = [jobSource EXCEPT ![j] = stored[jobObject[j]]]
  /\ jobFrom' = [jobFrom EXCEPT ![j] = storedFrom[jobObject[j]]]
  /\ job' = [job EXCEPT ![j] = "repack"]
  /\ UNCHANGED <<versions, storeVars, callVars, jobObject, jobOutput, jobPath,
                 temp>>

JobRepack(j) ==
  /\ job[j] = "repack"
  /\ Readable(Gunzip(jobSource[j]))
  /\ jobOutput' = [jobOutput EXCEPT ![j] = Tar(FilesIn(Gunzip(jobSource[j])))]
  /\ job' = [job EXCEPT ![j] = "write"]
  /\ UNCHANGED <<versions, storeVars, callVars, jobObject, jobSource, jobPath,
                 jobFrom, temp>>

\* PutToTempFile.
JobWrite(j, p) ==
  /\ job[j] = "write"
  /\ temp[p] = Absent
  /\ temp' = [temp EXCEPT ![p] = jobOutput[j]]
  /\ jobPath' = [jobPath EXCEPT ![j] = p]
  /\ job' = [job EXCEPT ![j] = "returned"]
  /\ UNCHANGED <<versions, storeVars, callVars, jobObject, jobSource, jobOutput,
                 jobFrom>>

\* PutToTempFile creates a file but cannot write it: it stays, without a name.
JobWriteFails(j, p) ==
  /\ job[j] = "write"
  /\ temp[p] = Absent
  /\ temp' = [temp EXCEPT ![p] = <<Broken>>]
  /\ job' = [job EXCEPT ![j] = "failed"]
  /\ UNCHANGED <<versions, storeVars, callVars, jobObject, jobSource, jobOutput,
                 jobPath, jobFrom>>

\* The other errors: the download, the archive, a file that is not created.
JobFails(j) ==
  /\ job[j] \in {"download", "repack", "write"}
  /\ job' = [job EXCEPT ![j] = "failed"]
  /\ UNCHANGED <<versions, storeVars, callVars, jobObject, jobSource, jobOutput,
                 jobPath, jobFrom, temp>>

-----------------------------------------------------------------------------
\* The process dies and starts again with new buffers; what it has stored and
\* its temporary files stay.
Restart ==
  /\ pc' = "idle" /\ result' = "none"
  /\ source' = << >> /\ output' = << >> /\ extracted' = << >>
  /\ job' = [j \in Jobs |-> IF job[j] \in {"idle", "returned"} THEN job[j]
                            ELSE "failed"]
  /\ UNCHANGED <<versions, storeVars, object, began, read, jobObject, jobSource,
                 jobOutput, jobPath, jobFrom, temp>>

DoCompression ==
  \/ \E o \in Objects : RefuseExtension(o) \/ Begin(o)
  \/ Download \/ DownloadNotFound \/ DownloadFails
  \/ Extract \/ Compress \/ CompressFails \/ Upload \/ UploadFails

DoDecompression(j) ==
  \/ \E o \in Objects : BeginJob(j, o)
  \/ JobDownload(j) \/ JobRepack(j) \/ JobFails(j)
  \/ \E p \in Paths : JobWrite(j, p) \/ JobWriteFails(j, p)

Next ==
  \/ \E o \in Objects, bytes \in Archives : PutSource(o, bytes)
  \/ DoCompression
  \/ \E j \in Jobs : DoDecompression(j)
  \/ Restart

Spec == Init /\ [][Next]_vars

-----------------------------------------------------------------------------
(* Properties.                                                             *)

\* What a compressed object unpacks to is exactly the files of the one version
\* of its source that DoCompression read: no bytes of another message, of
\* padding, of a failed attempt or of a half-read buffer reach the next upload
\* through the two shared buffers.
CompressedFromSource ==
  \A o \in Objects : storedFrom[o] # 0 =>
    /\ Readable(Gunzip(stored[o]))
    /\ FilesIn(Gunzip(stored[o])) = FilesIn(versions[o][storedFrom[o]])

\* A compression that returns nil, whose message is then acknowledged, has
\* stored a version that was not yet outdated when the call began, and none of
\* the failed attempts and retries around it has put an older one back.
DoneMeansStored == result = "done" => storedFrom[object] >= began

\* An error that is not to be retried, whose message is then acknowledged as
\* well, is the fault of the object: wrong extension, not there when the call
\* began, or a version that cannot be unpacked.  A fault of the store, of the
\* buffers or of an earlier message never loses a message.
GivesUpOnlyOnBadObject ==
  result = "giveup" =>
    \/ object \notin TarObjects
    \/ began = 0
    \/ read # 0 /\ ~Readable(versions[object][read])

\* The file a decompression names holds the files of one version of the source
\* of its object, in order and complete, though other jobs, compressions of the
\* same object and new versions run at the same time.
RoundTrip ==
  \A j \in Jobs : job[j] = "returned" =>
    /\ jobFrom[j] # 0
    /\ temp[jobPath[j]] = Tar(FilesIn(versions[jobObject[j]][jobFrom[j]]))
=============================================================================
