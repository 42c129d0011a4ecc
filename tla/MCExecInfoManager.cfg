SPECIFICATION MCSpec
CONSTANTS
  Holder = {h1, h2, h3}
  lib = lib
  vdso = vdso
  FileID <- MCFileID
  NumPages <- MCNumPages
  NoFile = NoFile
  NoHolder = NoHolder
  small = small
  other = other
  big = big
  huge = huge
  Exe = {small, other, big, huge}
  Size <- MCSize
  MaxSize = 2
  MaxRequests = 5
  MaxCrashes = 1
  None = None
  Sections <- FrameSections
  CIEs <- FrameCIEs
  CieCacheSize = 1
  GoStart = 30
  GoEnd = 40
  EntryPoint = 11
INVARIANTS
  CountsHolders
  KnownIsUsable
  PagesHaveDeltas
  EntriesMatchFiles
  UnwindsAsDescribed
PROPERTY
  ImplementsLeases
SYMMETRY Symmetry
