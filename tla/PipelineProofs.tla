--------------------------- MODULE PipelineProofs ---------------------------
(***************************************************************************)
(* Proofs about Pipeline, for any sets of objects, archives and jobs.      *)
(***************************************************************************)
EXTENDS Pipeline, FiniteSetTheorems, WellFoundedInduction, TLAPS

-----------------------------------------------------------------------------
(* The archivers.                                                          *)

\* A set of numbers has a least element: of the intervals up to its members,
\* one is minimal for inclusion, which is well-founded on finite sets.
LEMMA LeastElement ==
  ASSUME NEW I, I \subseteq Nat, I # {}
  PROVE  \E n \in I : \A m \in I : n <= m
<1> DEFINE T == {0 .. n : n \in I}
<1>1. T \subseteq FiniteSubsetsOf(Nat) /\ T # {}
  <2>1. ASSUME NEW n \in I
        PROVE  0 .. n \in SUBSET Nat /\ IsFiniteSet(0 .. n)
    <3>1. 0 \in Int /\ n \in Int
      OBVIOUS
    <3> QED
      BY <3>1, FS_Interval
  <2> QED
    BY <2>1 DEF FiniteSubsetsOf
<1>2. PICK x \in T : \A y \in T : <<y, x>> \notin StrictSubsetOrdering(Nat)
  <2>1. IsWellFoundedOn(StrictSubsetOrdering(Nat), FiniteSubsetsOf(Nat))
    BY FS_StrictSubsetOrderingWellFounded
  <2> QED
    BY <1>1, <2>1, WFMin
<1>3. PICK n \in I : x = 0 .. n
  BY <1>2
<1>4. ASSUME NEW m \in I, m < n
      PROVE  FALSE
  <2>1. 0 .. m \subseteq 0 .. n /\ 0 .. m # 0 .. n
    BY <1>4
  <2>2. <<0 .. m, x>> \in StrictSubsetOrdering(Nat)
    BY <1>3, <2>1 DEF StrictSubsetOrdering
  <2> QED
    BY <1>2, <2>2
<1> QED
  BY <1>4

\* Stop finds the first block that is not an entry, or says there is none.
LEMMA StopFacts ==
  ASSUME NEW S, NEW bytes \in Seq(S)
  PROVE  /\ Stop(bytes) \in 0 .. Len(bytes)
         /\ Stop(bytes) = 0 => \A i \in 1 .. Len(bytes) : bytes[i] \in Entries
         /\ Stop(bytes) # 0 =>
              /\ bytes[Stop(bytes)] \notin Entries
              /\ \A i \in 1 .. Stop(bytes) - 1 : bytes[i] \in Entries
<1> DEFINE I == {i \in 1 .. Len(bytes) : bytes[i] \notin Entries}
<1>1. Stop(bytes) = IF I # {} THEN Min(I) ELSE 0
  BY DEF Stop, SelectInSeq
<1>2. Len(bytes) \in Nat
  OBVIOUS
<1>3. CASE I = {}
  BY <1>1, <1>2, <1>3
<1>4. CASE I # {}
  <2>1. I \subseteq Nat
    BY <1>2
  <2>2. \E n \in I : \A m \in I : n <= m
    BY <1>4, <2>1, LeastElement
  <2>3. Min(I) \in I /\ \A m \in I : Min(I) <= m
    BY <2>2 DEF Min
  <2>4. Stop(bytes) = Min(I)
    BY <1>1, <1>4
  <2>5. \A i \in 1 .. Min(I) - 1 : i \in 1 .. Len(bytes) /\ i \notin I
    BY <1>2, <2>3
  <2> QED
    BY <1>2, <2>3, <2>4, <2>5
<1> QED
  BY <1>3, <1>4

\* Extract returns entries, whatever it reads.
LEMMA FilesInType ==
  ASSUME NEW S, NEW bytes \in Seq(S)
  PROVE  FilesIn(bytes) \in Seq(Entries)
<1> DEFINE n == IF Stop(bytes) = 0 THEN Len(bytes) ELSE Stop(bytes) - 1
<1>1. n \in Nat /\ \A i \in 1 .. n : bytes[i] \in Entries
  BY StopFacts
<1>2. \A i \in 1 .. n : AsFile[bytes[i]] \in Entries
  BY <1>1, AsFileIsIdempotent
<1> QED
  BY <1>1, <1>2 DEF FilesIn

\* What Compress writes can be extracted ...
LEMMA TarReadable ==
  ASSUME NEW fs \in Seq(Entries)
  PROVE  /\ Tar(fs) \in Seq(Blocks)
         /\ Readable(Tar(fs))
         /\ Stop(Tar(fs)) = Len(fs) + 1
<1>1. Tar(fs) \in Seq(Blocks) /\ Len(Tar(fs)) = Len(fs) + 1
  BY DEF Tar, Blocks
<1>2. Tar(fs)[Len(fs) + 1] = End /\ \A i \in 1 .. Len(fs) : Tar(fs)[i] \in Entries
  BY DEF Tar
<1>3. End \notin Entries
  BY MarkersAreApart
<1>4. Stop(Tar(fs)) = Len(fs) + 1
  BY <1>1, <1>2, <1>3, StopFacts
<1> QED
  BY <1>1, <1>2, <1>4 DEF Readable

\* ... and comes back as it was, if it has been extracted from an archive once.
LEMMA TarRoundTrip ==
  ASSUME NEW S, NEW bytes \in Seq(S)
  PROVE  FilesIn(Tar(FilesIn(bytes))) = FilesIn(bytes)
<1> DEFINE fs == FilesIn(bytes)
           n == IF Stop(bytes) = 0 THEN Len(bytes) ELSE Stop(bytes) - 1
<1>1. n \in Nat /\ \A i \in 1 .. n : bytes[i] \in Entries
  BY StopFacts
<1>2. fs = [i \in 1 .. n |-> AsFile[bytes[i]]]
  BY DEF FilesIn
<1>3. fs \in Seq(Entries) /\ Len(fs) = n
  <2>1. fs \in Seq(Entries)
    BY FilesInType
  <2>2. DOMAIN fs = 1 .. n
    BY <1>2
  <2> HIDE DEF fs, n
  <2> QED
    BY <1>1, <2>1, <2>2
<1>4. Stop(Tar(fs)) = Len(fs) + 1
  BY <1>3, TarReadable
<1>5. FilesIn(Tar(fs)) = [i \in 1 .. n |-> AsFile[Tar(fs)[i]]]
  BY <1>1, <1>3, <1>4 DEF FilesIn
<1>6. \A i \in 1 .. n : Tar(fs)[i] = fs[i]
  BY <1>3 DEF Tar
<1>7. \A i \in 1 .. n : AsFile[fs[i]] = fs[i]
  BY <1>1, <1>2, AsFileIsIdempotent
<1>8. [i \in 1 .. n |-> AsFile[Tar(fs)[i]]] = [i \in 1 .. n |-> fs[i]]
  BY <1>6, <1>7
<1>9. [i \in 1 .. n |-> fs[i]] = fs
  <2> HIDE DEF n
  <2> QED
    BY <1>2
<1> QED
  BY <1>5, <1>8, <1>9

\* A stream of one member or of one block unzips to what one expects.
LEMMA FlattenOne ==
  ASSUME NEW s
  PROVE  FlattenSeq(<<s>>) = s
<1> DEFINE f == [i \in 1 .. 1 |-> s]
           IsFlat(g) == g = [i \in 1 .. Len(<<s>>) |->
                               IF i = 1 THEN <<s>>[i] ELSE g[i - 1] \o <<s>>[i]]
<1>1. Len(<<s>>) = 1
  OBVIOUS
<1>2. IsFlat(f)
  BY <1>1
<1>3. \A g : IsFlat(g) => g[1] = s
  BY <1>1
<1>4. (CHOOSE g : IsFlat(g))[1] = s
  BY <1>2, <1>3
<1> QED
  BY <1>1, <1>4 DEF FlattenSeq

LEMMA GunzipTarGz ==
  ASSUME NEW fs \in Seq(Entries)
  PROVE  TarGz(fs) \in Seq(Members) /\ Gunzip(TarGz(fs)) = Tar(fs)
<1>1. [gz |-> Tar(fs)] \in Members
  BY TarReadable DEF Members
<1>2. [i \in DOMAIN TarGz(fs) |->
         IF TarGz(fs)[i] \in Members THEN TarGz(fs)[i].gz ELSE <<Broken>>]
      = <<Tar(fs)>>
  BY <1>1 DEF TarGz
<1> QED
  BY <1>1, <1>2, FlattenOne DEF Gunzip, TarGz

LEMMA ForeignUnreadable ==
  ~Readable(Gunzip(<<Broken>>))
<1>1. Broken \notin Members
  BY MembersAreApart DEF Blocks
<1>2. [i \in DOMAIN <<Broken>> |->
         IF <<Broken>>[i] \in Members THEN <<Broken>>[i].gz ELSE <<Broken>>]
      = <<<<Broken>>>>
  BY <1>1
<1>3. Gunzip(<<Broken>>) = <<Broken>>
  BY <1>2, FlattenOne DEF Gunzip
<1>4. Stop(<<Broken>>) = 1
  <2> DEFINE b == <<Broken>>
  <2>1. b \in Seq({Broken}) /\ Len(b) = 1 /\ b[1] \notin Entries
    BY MarkersAreApart
  <2> HIDE DEF b
  <2>2. Stop(b) = 1
    BY <2>1, StopFacts
  <2> QED
    BY <2>2 DEF b
<1> QED
  BY <1>3, <1>4, MarkersAreApart DEF Readable

-----------------------------------------------------------------------------
(* The inductive invariant.                                                *)

\* DoCompression: what its buffers and locals hold at each place, in terms of
\* the version it has read.
CallInv ==
  /\ pc # "idle" => result = "none" /\ began <= Newest(object)
  /\ result # "none" => object \in Objects
  /\ read # 0 => object \in Objects /\ read <= Newest(object) /\ began <= read
  /\ pc = "download" => source = << >>
  /\ pc \in {"download", "extract", "compress"} => output = << >>
  /\ pc \in {"extract", "compress", "upload"} => read # 0
  /\ pc = "extract" => source = versions[object][read]
  /\ pc = "compress" => extracted = FilesIn(versions[object][read])
  /\ pc = "upload" => output = TarGz(FilesIn(versions[object][read]))

\* A stored object made from version v of o, or by someone else.
MadeFrom(bytes, o, v) ==
  \/ v = 0 /\ bytes = <<Broken>>
  \/ v \in 1 .. Newest(o) /\ bytes = TarGz(FilesIn(versions[o][v]))

StoreInv ==
  \A o \in Objects :
    \/ stored[o] = Absent /\ storedFrom[o] = 0
    \/ MadeFrom(stored[o], o, storedFrom[o])

JobInv ==
  \A j \in Jobs :
    /\ job[j] \in {"download", "repack", "write", "returned"}
         => jobObject[j] \in Objects
    /\ job[j] = "repack" => MadeFrom(jobSource[j], jobObject[j], jobFrom[j])
    /\ job[j] \in {"write", "returned"}
         => jobFrom[j] \in 1 .. Newest(jobObject[j])
    /\ job[j] = "write"
         => jobOutput[j] = Tar(FilesIn(versions[jobObject[j]][jobFrom[j]]))
    /\ job[j] = "returned" =>
         /\ jobPath[j] \in Paths
         /\ temp[jobPath[j]] # Absent
         /\ temp[jobPath[j]] = Tar(FilesIn(versions[jobObject[j]][jobFrom[j]]))

IInv ==
  TypeOK /\ CallInv /\ StoreInv /\ JobInv
  /\ DoneMeansStored /\ GivesUpOnlyOnBadObject

\* An archive that was stored can be read as bytes.
LEMMA VersionBytes ==
  ASSUME TypeOK, NEW o \in Objects, NEW v \in 1 .. Newest(o)
  PROVE  /\ versions[o][v] \in Seq(Blocks)
         /\ FilesIn(versions[o][v]) \in Seq(Entries)
<1>1. versions[o] \in Seq(Archives)
  BY DEF TypeOK
<1>2. versions[o][v] \in Archives
  BY <1>1 DEF Newest
<1> QED
  BY <1>2, ArchivesAreBytes, FilesInType

\* Of what was made from a version Gunzip and Extract give back its files.
LEMMA MadeFromUnpacks ==
  ASSUME TypeOK, NEW o \in Objects, NEW v, NEW bytes, MadeFrom(bytes, o, v),
         Readable(Gunzip(bytes))
  PROVE  /\ v \in 1 .. Newest(o)
         /\ FilesIn(Gunzip(bytes)) = FilesIn(versions[o][v])
<1>1. v \in 1 .. Newest(o) /\ bytes = TarGz(FilesIn(versions[o][v]))
  BY ForeignUnreadable DEF MadeFrom
<1>2. versions[o][v] \in Seq(Blocks) /\ FilesIn(versions[o][v]) \in Seq(Entries)
  BY <1>1, VersionBytes
<1>3. Gunzip(bytes) = Tar(FilesIn(versions[o][v]))
  BY <1>1, <1>2, GunzipTarGz
<1> QED
  BY <1>1, <1>2, <1>3, TarRoundTrip

\* Storing another version keeps the earlier ones where they are.
LEMMA VersionsKept ==
  ASSUME TypeOK, [Next]_vars, NEW o \in Objects
  PROVE  /\ Newest(o) \in Nat
         /\ Newest(o)' \in Nat
         /\ Newest(o) <= Newest(o)'
         /\ \A v \in 1 .. Newest(o) : versions'[o][v] = versions[o][v]
<1>1. versions \in [Objects -> Seq(Archives)]
  BY DEF TypeOK
<1>2. CASE UNCHANGED versions
  BY <1>1, <1>2 DEF Newest
<1>3. CASE \E p \in Objects, bytes \in Archives : PutSource(p, bytes)
  <2>1. PICK p \in Objects, bytes \in Archives :
          versions' = [versions EXCEPT ![p] = Append(@, bytes)]
    BY <1>3 DEF PutSource
  <2> QED
    BY <1>1, <2>1 DEF Newest
<1> QED
  BY <1>2, <1>3 DEF Next, vars, DoCompression, DoDecompression, RefuseExtension,
     Begin, Download, DownloadNotFound, DownloadFails, Extract, Compress,
     CompressFails, Upload, UploadFails, BeginJob, JobDownload, JobRepack,
     JobWrite, JobWriteFails, JobFails, Restart

\* So what was made from a version still is.
LEMMA MadeFromKept ==
  ASSUME TypeOK, [Next]_vars, NEW o \in Objects, NEW v, NEW bytes,
         MadeFrom(bytes, o, v)
  PROVE  MadeFrom(bytes, o, v)'
BY VersionsKept DEF MadeFrom

-----------------------------------------------------------------------------
(* Every step preserves it.                                                *)

LEMMA TypeStep ==
  ASSUME IInv, [Next]_vars
  PROVE  TypeOK'
<1> USE DEF TypeOK
<1>1. TypeOK /\ CallInv /\ JobInv
  BY DEF IInv
<1>2. CASE UNCHANGED vars
  BY <1>1, <1>2 DEF vars, storeVars, callVars, jobVars
<1>3. ASSUME NEW o \in Objects, NEW bytes \in Archives, PutSource(o, bytes)
      PROVE  TypeOK'
  <2>1. versions' \in [Objects -> Seq(Archives)]
    <3>1. versions' = [versions EXCEPT ![o] = Append(versions[o], bytes)]
      BY <1>3 DEF PutSource
    <3>2. Append(versions[o], bytes) \in Seq(Archives)
      BY <1>1
    <3> QED
      BY <1>1, <3>1, <3>2
  <2>2. UNCHANGED <<storeVars, callVars, jobVars>>
    BY <1>3 DEF PutSource
  <2> QED
    BY <1>1, <2>1, <2>2 DEF storeVars, callVars, jobVars
<1>4. ASSUME NEW o \in Objects, RefuseExtension(o) \/ Begin(o)
      PROVE  TypeOK'
  <2>1. Newest(o) \in Nat
    BY <1>1 DEF Newest
  <2>2. << >> \in Seq(Blocks) /\ << >> \in Seq(Members \cup {Broken})
    OBVIOUS
  <2>3. CASE RefuseExtension(o)
    BY <1>1, <2>1, <2>3 DEF RefuseExtension, Return, storeVars, jobVars
  <2>4. CASE Begin(o)
    BY <1>1, <2>1, <2>2, <2>4 DEF Begin, storeVars, jobVars
  <2> QED
    BY <1>4, <2>3, <2>4
<1>5. CASE Download
  <2>1. Newest(object) \in Nat /\ object \in Objects
    BY <1>1, <1>5, ObjectsAreObjects DEF Download, Newest
  <2>2. Last(versions[object]) \in Seq(Blocks)
    <3>1. Newest(object) \in 1 .. Newest(object)
      BY <1>5, <2>1 DEF Download
    <3> QED
      BY <1>1, <2>1, <3>1, VersionBytes DEF Last, Newest
  <2>3. source' \in Seq(Blocks)
    BY <1>1, <1>5, <2>2 DEF Download
  <2> QED
    BY <1>1, <1>5, <2>1, <2>3 DEF Download, storeVars, jobVars
<1>6. CASE DownloadNotFound \/ DownloadFails
  BY <1>1, <1>6 DEF DownloadNotFound, DownloadFails, Return, storeVars, jobVars
<1>7. CASE Extract
  <2>1. FilesIn(source) \in Seq(Entries)
    BY <1>1, FilesInType
  <2>2. Rest(source) \in Seq(Blocks)
    BY <1>1, StopFacts DEF Rest
  <2> QED
    BY <1>1, <1>7, <2>1, <2>2 DEF Extract, Return, storeVars, jobVars
<1>8. CASE Compress
  <2>1. TarGz(extracted) \in Seq(Members)
    BY <1>1, GunzipTarGz
  <2>2. output' \in Seq(Members \cup {Broken})
    BY <1>1, <1>8, <2>1 DEF Compress
  <2> QED
    BY <1>1, <1>8, <2>2 DEF Compress, storeVars, jobVars
<1>9. CASE CompressFails
  <2>1. PICK n \in 0 .. Len(extracted) - 1 :
          output' = output \o TarGz(SubSeq(extracted, 1, n))
    BY <1>9 DEF CompressFails
  <2>2. SubSeq(extracted, 1, n) \in Seq(Entries)
    BY <1>1
  <2>3. TarGz(SubSeq(extracted, 1, n)) \in Seq(Members)
    BY <2>2, GunzipTarGz
  <2>4. output' \in Seq(Members \cup {Broken})
    BY <1>1, <2>1, <2>3
  <2> QED
    BY <1>1, <1>9, <2>4 DEF CompressFails, Return, storeVars, jobVars
<1>10. CASE Upload \/ UploadFails
  <2>1. output' \in Seq(Members \cup {Broken})
    <3>1. /\ << >> \in Seq(Members \cup {Broken})
          /\ <<Broken>> \in Seq(Members \cup {Broken})
      OBVIOUS
    <3> QED
      BY <1>1, <1>10, <3>1 DEF Upload, UploadFails
  <2>2. /\ stored' \in [Objects -> Seq(Members \cup {Broken}) \cup {Absent}]
        /\ storedFrom' \in [Objects -> Nat]
    BY <1>1, <1>10 DEF Upload, UploadFails, Store, storeVars
  <2> QED
    BY <1>1, <1>10, <2>1, <2>2 DEF Upload, UploadFails, Return, jobVars
<1>11. ASSUME NEW j \in Jobs, NEW o \in Objects, BeginJob(j, o)
       PROVE  TypeOK'
  BY <1>1, <1>11 DEF BeginJob, storeVars, callVars
<1>12. ASSUME NEW j \in Jobs, JobDownload(j)
       PROVE  TypeOK'
  <2>1. jobObject[j] \in Objects
    BY <1>1, <1>12 DEF JobDownload, JobInv
  <2>2. stored[jobObject[j]] \in Seq(Members \cup {Broken})
    BY <1>1, <1>12, <2>1 DEF JobDownload
  <2> QED
    BY <1>1, <1>12, <2>1, <2>2 DEF JobDownload, storeVars, callVars
<1>13. ASSUME NEW j \in Jobs, JobRepack(j)
       PROVE  TypeOK'
  <2>1. /\ jobObject[j] \in Objects
        /\ jobFrom[j] \in 1 .. Newest(jobObject[j])
        /\ FilesIn(Gunzip(jobSource[j]))
             = FilesIn(versions[jobObject[j]][jobFrom[j]])
    BY <1>1, <1>13, MadeFromUnpacks DEF JobRepack, JobInv
  <2>2. FilesIn(Gunzip(jobSource[j])) \in Seq(Entries)
    BY <1>1, <2>1, VersionBytes
  <2>3. Tar(FilesIn(Gunzip(jobSource[j]))) \in Seq(Blocks)
    BY <2>2, TarReadable
  <2> QED
    BY <1>1, <1>13, <2>3 DEF JobRepack, storeVars, callVars
<1>14. ASSUME NEW j \in Jobs, NEW p \in Paths, JobWrite(j, p) \/ JobWriteFails(j, p)
       PROVE  TypeOK'
  <2>1. <<Broken>> \in Seq(Blocks)
    BY DEF Blocks
  <2> QED
    BY <1>1, <1>14, <2>1 DEF JobWrite, JobWriteFails, storeVars, callVars
<1>15. ASSUME NEW j \in Jobs, JobFails(j)
       PROVE  TypeOK'
  BY <1>1, <1>15 DEF JobFails, storeVars, callVars
<1>16. CASE Restart
  <2>1. job' \in [Jobs -> {"idle", "download", "repack", "write", "returned",
                           "failed"}]
    BY <1>1, <1>16 DEF Restart
  <2> QED
    BY <1>1, <1>16, <2>1 DEF Restart, storeVars
<1> QED
  BY <1>2, <1>3, <1>4, <1>5, <1>6, <1>7, <1>8, <1>9, <1>10, <1>11, <1>12,
     <1>13, <1>14, <1>15, <1>16 DEF Next, DoCompression, DoDecompression

\* Steps that leave DoCompression and its buffers alone.
LEMMA CallUntouched ==
  ASSUME IInv, [Next]_vars, UNCHANGED callVars
  PROVE  CallInv'
<1>1. TypeOK /\ CallInv
  BY DEF IInv
<1>2. CASE object = NoObject
  BY <1>1, <1>2, ObjectsAreObjects DEF callVars, CallInv, TypeOK
<1>3. CASE object \in Objects
  <2>1. /\ Newest(object) \in Nat /\ Newest(object)' \in Nat
        /\ Newest(object) <= Newest(object)'
        /\ \A v \in 1 .. Newest(object) :
             versions'[object'][v] = versions[object][v]
    BY <1>1, <1>3, VersionsKept DEF callVars
  <2>2. read \in Nat /\ began \in Nat
    BY <1>1 DEF TypeOK
  <2>3. read # 0 => versions'[object'][read'] = versions[object][read]
    BY <1>1, <2>1, <2>2 DEF callVars, CallInv
  <2> QED
    BY <1>1, <2>1, <2>2, <2>3 DEF callVars, CallInv
<1> QED
  BY <1>1, <1>2, <1>3 DEF TypeOK

LEMMA CallStep ==
  ASSUME IInv, [Next]_vars
  PROVE  CallInv'
<1>1. TypeOK /\ CallInv
  BY DEF IInv
<1>2. CASE UNCHANGED callVars
  BY <1>2, CallUntouched
<1>3. ASSUME NEW o \in Objects, RefuseExtension(o)
      PROVE  CallInv'
  BY <1>1, <1>3 DEF RefuseExtension, Return, CallInv, TypeOK, Newest
<1>4. ASSUME NEW o \in Objects, Begin(o)
      PROVE  CallInv'
  <2>1. Newest(o) \in Nat
    BY <1>1 DEF Newest, TypeOK
  <2> QED
    BY <1>4, <2>1 DEF Begin, CallInv, Newest
<1>5. CASE Download
  <2>1. object \in Objects /\ Newest(object) \in Nat \ {0}
    BY <1>1, <1>5, ObjectsAreObjects DEF Download, Newest, TypeOK
  <2>2. Last(versions[object]) = versions[object][Newest(object)]
    BY DEF Last, Newest
  <2>3. Last(versions[object]) \in Seq(Blocks)
    BY <1>1, <2>1, <2>2, VersionBytes
  <2>4. source' = versions[object][read']
    BY <1>1, <1>5, <2>2, <2>3 DEF Download, CallInv
  <2> QED
    BY <1>1, <1>5, <2>1, <2>4 DEF Download, CallInv, Newest
<1>6. CASE DownloadNotFound \/ DownloadFails
  BY <1>1, <1>6, ObjectsAreObjects
     DEF DownloadNotFound, DownloadFails, Return, CallInv, TypeOK, Newest
<1>7. CASE Extract
  BY <1>1, <1>7, ObjectsAreObjects DEF Extract, Return, CallInv, TypeOK, Newest
<1>8. CASE Compress
  <2>1. output' = TarGz(extracted)
    <3>1. TarGz(extracted) \in Seq(Members)
      BY <1>1, GunzipTarGz DEF TypeOK
    <3> QED
      BY <1>1, <1>8, <3>1 DEF Compress, CallInv
  <2> QED
    BY <1>1, <1>8, <2>1 DEF Compress, CallInv, TypeOK, Newest
<1>9. CASE CompressFails \/ Upload \/ UploadFails
  BY <1>1, <1>9, ObjectsAreObjects
     DEF CompressFails, Upload, UploadFails, Return, CallInv, TypeOK, Newest
<1>10. CASE Restart
  BY <1>1, <1>10 DEF Restart, CallInv, TypeOK, Newest
<1> QED
  BY <1>2, <1>3, <1>4, <1>5, <1>6, <1>7, <1>8, <1>9, <1>10
     DEF Next, DoCompression, DoDecompression, PutSource, BeginJob, JobDownload,
         JobRepack, JobWrite, JobWriteFails, JobFails, vars

\* Only an upload changes the store, and it stores what was made from the
\* version that was read.
LEMMA StoreStep ==
  ASSUME IInv, [Next]_vars
  PROVE  StoreInv'
<1>1. TypeOK /\ CallInv /\ StoreInv
  BY DEF IInv
<1>2. CASE UNCHANGED storeVars
  BY <1>1, <1>2, MadeFromKept DEF StoreInv, storeVars
<1>3. CASE pc = "upload" /\ Store /\ UNCHANGED versions
  <2>1. object \in Objects /\ MadeFrom(output, object, read)
    BY <1>1, <1>3 DEF CallInv, MadeFrom, Newest, TypeOK
  <2> QED
    BY <1>1, <1>3, <2>1 DEF StoreInv, Store, TypeOK, MadeFrom, Newest
<1> QED
  BY <1>2, <1>3
     DEF Next, DoCompression, DoDecompression, PutSource, RefuseExtension, Begin,
         Download, DownloadNotFound, DownloadFails, Extract, Compress,
         CompressFails, Upload, UploadFails, BeginJob, JobDownload, JobRepack,
         JobWrite, JobWriteFails, JobFails, Restart, vars

LEMMA DoneStep ==
  ASSUME IInv, [Next]_vars
  PROVE  DoneMeansStored'
<1>1. TypeOK /\ CallInv /\ DoneMeansStored
  BY DEF IInv
<1>2. CASE UNCHANGED <<callVars, storeVars>>
  BY <1>1, <1>2 DEF DoneMeansStored, callVars, storeVars
<1>3. CASE result' # "done"
  BY <1>3 DEF DoneMeansStored
<1>4. CASE Upload
  <2>1. storedFrom'[object] = read /\ began <= read
    BY <1>1, <1>4 DEF Upload, Store, CallInv, TypeOK
  <2> QED
    BY <1>1, <1>4, <2>1 DEF Upload, DoneMeansStored, TypeOK
<1>5. CASE Download \/ Extract \/ Compress
  BY <1>1, <1>3, <1>5 DEF Download, Extract, Compress, Return, CallInv
<1> QED
  BY <1>2, <1>3, <1>4, <1>5
     DEF Next, DoCompression, DoDecompression, PutSource, RefuseExtension, Begin,
         DownloadNotFound, DownloadFails, CompressFails, UploadFails, BeginJob,
         JobDownload, JobRepack, JobWrite, JobWriteFails, JobFails, Restart,
         Return, vars

LEMMA GivesUpStep ==
  ASSUME IInv, [Next]_vars
  PROVE  GivesUpOnlyOnBadObject'
<1>1. TypeOK /\ CallInv /\ GivesUpOnlyOnBadObject
  BY DEF IInv
<1>2. CASE UNCHANGED callVars
  <2>1. CASE read = 0
    BY <1>1, <1>2, <2>1 DEF GivesUpOnlyOnBadObject, callVars
  <2>2. CASE read # 0
    <3>1. object \in Objects /\ read \in 1 .. Newest(object)
      BY <1>1, <2>2 DEF CallInv, TypeOK, Newest
    <3>2. versions'[object][read] = versions[object][read]
      BY <1>1, <3>1, VersionsKept
    <3> QED
      BY <1>1, <1>2, <3>2 DEF GivesUpOnlyOnBadObject, callVars
  <2> QED
    BY <2>1, <2>2
<1>3. CASE result' # "giveup"
  BY <1>3 DEF GivesUpOnlyOnBadObject
<1>4. ASSUME NEW o \in Objects, RefuseExtension(o)
      PROVE  GivesUpOnlyOnBadObject'
  BY <1>4 DEF RefuseExtension, GivesUpOnlyOnBadObject
<1>5. CASE DownloadNotFound
  <2>1. began = 0
    BY <1>1, <1>5 DEF DownloadNotFound, CallInv, TypeOK
  <2> QED
    BY <1>5, <2>1 DEF DownloadNotFound, GivesUpOnlyOnBadObject
<1>6. CASE Extract
  BY <1>1, <1>6 DEF Extract, Return, CallInv, GivesUpOnlyOnBadObject
<1>7. CASE Download \/ Compress
  BY <1>1, <1>3, <1>7 DEF Download, Compress, CallInv
<1> QED
  BY <1>2, <1>3, <1>4, <1>5, <1>6, <1>7
     DEF Next, DoCompression, DoDecompression, PutSource, Begin, DownloadFails,
         CompressFails, Upload, UploadFails, BeginJob, JobDownload, JobRepack,
         JobWrite, JobWriteFails, JobFails, Restart, Return, vars

\* A goroutine's buffers and file are its own, so what another one or the
\* compressions do leaves them alone.
LEMMA JobStepKeeps ==
  ASSUME IInv, [Next]_vars
  PROVE  JobInv'
<1>1. TypeOK /\ StoreInv /\ JobInv
  BY DEF IInv
<1> DEFINE Good(j) ==
      /\ job[j] \in {"download", "repack", "write", "returned"}
           => jobObject[j] \in Objects
      /\ job[j] = "repack" => MadeFrom(jobSource[j], jobObject[j], jobFrom[j])
      /\ job[j] \in {"write", "returned"}
           => jobFrom[j] \in 1 .. Newest(jobObject[j])
      /\ job[j] = "write"
           => jobOutput[j] = Tar(FilesIn(versions[jobObject[j]][jobFrom[j]]))
      /\ job[j] = "returned" =>
           /\ jobPath[j] \in Paths
           /\ temp[jobPath[j]] # Absent
           /\ temp[jobPath[j]] = Tar(FilesIn(versions[jobObject[j]][jobFrom[j]]))
<1>2. \A j \in Jobs : Good(j)
  BY <1>1 DEF JobInv
<1>3. ASSUME NEW j \in Jobs, jobObject'[j] = jobObject[j],
             jobSource'[j] = jobSource[j], jobOutput'[j] = jobOutput[j],
             jobPath'[j] = jobPath[j], jobFrom'[j] = jobFrom[j],
             job'[j] = job[j],
             \A p \in Paths : temp[p] # Absent => temp'[p] = temp[p]
      PROVE  Good(j)'
  <2>1. CASE job[j] \in {"idle", "failed"}
    BY <1>3, <2>1
  <2>2. CASE job[j] \in {"download", "repack", "write", "returned"}
    <3>1. jobObject[j] \in Objects
      BY <1>2, <2>2
    <3>2. job[j] = "repack" => MadeFrom(jobSource[j], jobObject[j], jobFrom[j])'
      <4>1. job[j] = "repack" => MadeFrom(jobSource[j], jobObject[j], jobFrom[j])
        BY <1>2
      <4> QED
        BY <1>1, <1>3, <3>1, <4>1, VersionsKept DEF MadeFrom
    <3>3. ASSUME job[j] \in {"write", "returned"}
          PROVE  /\ jobFrom[j] \in 1 .. Len(versions'[jobObject[j]])
                 /\ versions'[jobObject[j]][jobFrom[j]]
                      = versions[jobObject[j]][jobFrom[j]]
      <4>1. jobFrom[j] \in 1 .. Newest(jobObject[j])
        BY <1>2, <3>3
      <4>2. PICK o \in Objects : o = jobObject[j]
        BY <3>1
      <4>3. /\ Len(versions[o]) \in Nat /\ Len(versions'[o]) \in Nat
            /\ Len(versions[o]) <= Len(versions'[o])
            /\ \A v \in 1 .. Len(versions[o]) : versions'[o][v] = versions[o][v]
        BY <1>1, VersionsKept DEF Newest
      <4>4. jobFrom[j] \in 1 .. Len(versions[o])
        BY <4>1, <4>2 DEF Newest
      <4>5. /\ jobFrom[j] \in 1 .. Len(versions'[o])
            /\ versions'[o][jobFrom[j]] = versions[o][jobFrom[j]]
        BY <4>3, <4>4
      <4> QED
        BY <4>2, <4>5
    <3>4. Newest(jobObject[j])' = Len(versions'[jobObject[j]])
      BY <1>3 DEF Newest
    <3> QED
      BY <1>2, <1>3, <3>1, <3>2, <3>3, <3>4 DEF Newest
  <2> QED
    BY <1>1, <2>1, <2>2 DEF TypeOK
<1>4. CASE UNCHANGED jobVars
  BY <1>3, <1>4 DEF JobInv, jobVars
<1>5. ASSUME NEW j \in Jobs, NEW o \in Objects, BeginJob(j, o)
      PROVE  JobInv'
  <2>1. ASSUME NEW i \in Jobs \ {j}
        PROVE  Good(i)'
    BY <1>1, <1>3, <1>5 DEF BeginJob, TypeOK
  <2>2. Good(j)'
    BY <1>1, <1>5 DEF BeginJob, TypeOK
  <2> QED
    BY <2>1, <2>2 DEF JobInv
<1>6. ASSUME NEW j \in Jobs, JobDownload(j)
      PROVE  JobInv'
  <2>1. ASSUME NEW i \in Jobs \ {j}
        PROVE  Good(i)'
    BY <1>1, <1>3, <1>6 DEF JobDownload, TypeOK
  <2>2. jobObject[j] \in Objects
    BY <1>2, <1>6 DEF JobDownload
  <2>3. MadeFrom(stored[jobObject[j]], jobObject[j], storedFrom[jobObject[j]])
    BY <1>1, <1>6, <2>2 DEF JobDownload, StoreInv
  <2>4. Good(j)'
    BY <1>1, <1>6, <2>2, <2>3 DEF JobDownload, TypeOK, MadeFrom, Newest
  <2> QED
    BY <2>1, <2>4 DEF JobInv
<1>7. ASSUME NEW j \in Jobs, JobRepack(j)
      PROVE  JobInv'
  <2>1. ASSUME NEW i \in Jobs \ {j}
        PROVE  Good(i)'
    BY <1>1, <1>3, <1>7 DEF JobRepack, TypeOK
  <2>2. /\ jobObject[j] \in Objects
        /\ jobFrom[j] \in 1 .. Newest(jobObject[j])
        /\ FilesIn(Gunzip(jobSource[j]))
             = FilesIn(versions[jobObject[j]][jobFrom[j]])
    BY <1>1, <1>2, <1>7, MadeFromUnpacks DEF JobRepack
  <2>3. jobOutput'[j] = Tar(FilesIn(versions[jobObject[j]][jobFrom[j]]))
    BY <1>1, <1>7, <2>2 DEF JobRepack, TypeOK
  <2>4. Good(j)'
    BY <1>1, <1>7, <2>2, <2>3 DEF JobRepack, TypeOK, Newest
  <2> QED
    BY <2>1, <2>4 DEF JobInv
<1>8. ASSUME NEW j \in Jobs, NEW p \in Paths, JobWrite(j, p)
      PROVE  JobInv'
  <2>1. ASSUME NEW i \in Jobs \ {j}
        PROVE  Good(i)'
    BY <1>1, <1>3, <1>8 DEF JobWrite, TypeOK
  <2>2. temp'[p] = Tar(FilesIn(versions[jobObject[j]][jobFrom[j]]))
    BY <1>1, <1>2, <1>8 DEF JobWrite, TypeOK
  <2>3. jobOutput[j] # Absent
    BY <1>1, AbsentIsNothing DEF TypeOK
  <2>4. Good(j)'
    BY <1>1, <1>2, <1>8, <2>2, <2>3 DEF JobWrite, TypeOK, Newest
  <2> QED
    BY <2>1, <2>4 DEF JobInv
<1>9. ASSUME NEW j \in Jobs, NEW p \in Paths, JobWriteFails(j, p)
      PROVE  JobInv'
  <2>1. ASSUME NEW i \in Jobs \ {j}
        PROVE  Good(i)'
    BY <1>1, <1>3, <1>9 DEF JobWriteFails, TypeOK
  <2>2. Good(j)'
    BY <1>1, <1>9 DEF JobWriteFails, TypeOK
  <2> QED
    BY <2>1, <2>2 DEF JobInv
<1>10. ASSUME NEW j \in Jobs, JobFails(j)
       PROVE  JobInv'
  <2>1. ASSUME NEW i \in Jobs \ {j}
        PROVE  Good(i)'
    BY <1>1, <1>3, <1>10 DEF JobFails, TypeOK
  <2>2. Good(j)'
    BY <1>1, <1>10 DEF JobFails, TypeOK
  <2> QED
    BY <2>1, <2>2 DEF JobInv
<1>11. CASE Restart
  <2>1. ASSUME NEW i \in Jobs
        PROVE  Good(i)'
    <3>1. CASE job'[i] = job[i]
      BY <1>3, <1>11, <3>1 DEF Restart
    <3>2. CASE job'[i] = "failed"
      BY <3>2
    <3> QED
      BY <1>11, <3>1, <3>2 DEF Restart
  <2> QED
    BY <2>1 DEF JobInv
<1> QED
  BY <1>4, <1>5, <1>6, <1>7, <1>8, <1>9, <1>10, <1>11
     DEF Next, DoCompression, DoDecompression, PutSource, RefuseExtension, Begin,
         Download, DownloadNotFound, DownloadFails, Extract, Compress,
         CompressFails, Upload, UploadFails, vars

-----------------------------------------------------------------------------
(* The theorems.                                                           *)

\* The buffers, the store, the jobs and the results stay as IInv says.
THEOREM Consistent == Spec => []IInv
<1>1. Init => IInv
  <2> SUFFICES ASSUME Init
               PROVE  IInv
    OBVIOUS
  <2>1. /\ << >> \in Seq(Archives) /\ << >> \in Seq(Blocks)
        /\ << >> \in Seq(Entries) /\ << >> \in Seq(Members \cup {Broken})
        /\ <<Broken>> \in Seq(Members \cup {Broken})
    OBVIOUS
  <2>2. stored \in [Objects -> Seq(Members \cup {Broken}) \cup {Absent}]
    BY <2>1 DEF Init
  <2>3. TypeOK
    BY <2>1, <2>2 DEF Init, TypeOK
  <2>4. CallInv /\ StoreInv /\ JobInv
    BY DEF Init, CallInv, StoreInv, MadeFrom, JobInv
  <2> QED
    BY <2>3, <2>4 DEF Init, IInv, DoneMeansStored, GivesUpOnlyOnBadObject
<1>2. IInv /\ [Next]_vars => IInv'
  BY TypeStep, CallStep, StoreStep, JobStepKeeps, DoneStep, GivesUpStep DEF IInv
<1> QED
  BY <1>1, <1>2, PTL DEF Spec

\* Every variable keeps its type.
THEOREM TypeCorrect == Spec => []TypeOK
<1>1. IInv => TypeOK
  BY DEF IInv
<1> QED
  BY <1>1, Consistent, PTL

\* The compressed object unpacks to the files of the version it was made from.
THEOREM StoredAsRead == Spec => []CompressedFromSource
<1>1. ASSUME IInv
      PROVE  CompressedFromSource
  <2> SUFFICES ASSUME NEW o \in Objects, storedFrom[o] # 0
               PROVE  /\ Readable(Gunzip(stored[o]))
                      /\ FilesIn(Gunzip(stored[o]))
                           = FilesIn(versions[o][storedFrom[o]])
    BY DEF CompressedFromSource
  <2>1. TypeOK /\ MadeFrom(stored[o], o, storedFrom[o])
    BY <1>1 DEF IInv, StoreInv
  <2>2. /\ storedFrom[o] \in 1 .. Newest(o)
        /\ stored[o] = TarGz(FilesIn(versions[o][storedFrom[o]]))
    BY <2>1 DEF MadeFrom
  <2>3. FilesIn(versions[o][storedFrom[o]]) \in Seq(Entries)
    BY <2>1, <2>2, VersionBytes
  <2>4. Readable(Gunzip(stored[o]))
    BY <2>2, <2>3, GunzipTarGz, TarReadable
  <2> QED
    BY <2>1, <2>4, MadeFromUnpacks
<1> QED
  BY <1>1, Consistent, PTL

\* A compression that returned nil has stored a version new enough.
THEOREM DoneIsDone == Spec => []DoneMeansStored
<1>1. IInv => DoneMeansStored
  BY DEF IInv
<1> QED
  BY <1>1, Consistent, PTL

\* A message is given up only for a fault of its object.
THEOREM GivesUpRightly == Spec => []GivesUpOnlyOnBadObject
<1>1. IInv => GivesUpOnlyOnBadObject
  BY DEF IInv
<1> QED
  BY <1>1, Consistent, PTL

\* What compression and decompression together do to the files of an archive.
THEOREM RoundTripped == Spec => []RoundTrip
<1>1. IInv => RoundTrip
  BY DEF IInv, JobInv, RoundTrip
<1> QED
  BY <1>1, Consistent, PTL
=============================================================================
