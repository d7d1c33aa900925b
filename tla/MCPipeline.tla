----------------------------- MODULE MCPipeline -----------------------------
(***************************************************************************)
(* Constants for checking Pipeline with TLC.                               *)
(***************************************************************************)
EXTENDS Pipeline, TLC

CONSTANTS f1, f2, link, emptyFile

MCEntries == {f1, f2, link, emptyFile}
MCAsFile == [e \in MCEntries |-> IF e = link THEN emptyFile ELSE e]

\* Padded and with a link, without a marker, cut off, and no bytes at all.
MCArchives == {<<f1, link, End, End>>, <<f2>>, <<f1, Broken>>, << >>}

\* Archives, jobs and temporary files of equal kind are interchangeable.
Symmetry ==
  Permutations(TarObjects) \cup Permutations(Jobs) \cup Permutations(Paths)
=============================================================================
