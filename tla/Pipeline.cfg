SPECIFICATION Spec
CONSTANTS
  f1 = f1
  f2 = f2
  link = link
  emptyFile = emptyFile
  Objects = {o1, o2, o3}
  TarObjects = {o1, o2}
  Entries <- MCEntries
  AsFile <- MCAsFile
  Archives <- MCArchives
  MaxPuts = 2
  Jobs = {j1, j2}
  Paths = {p1, p2}
  End = End
  Broken = Broken
  Absent = Absent
  NoObject = NoObject
  NoPath = NoPath
SYMMETRY Symmetry
INVARIANTS
  TypeOK
  CompressedFromSource
  DoneMeansStored
  GivesUpOnlyOnBadObject
  RoundTrip
CHECK_DEADLOCK FALSE
