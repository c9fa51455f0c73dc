SPECIFICATION FsSpec
CONSTANTS
  d1 = d1 d2 = d2 d3 = d3 a1 = a1 a2 = a2
  proc = proc Proc = proc NoName = NoName
  MaxDir = 3
  MaxArch = 3
  DirNames = {proc, d1, d2, d3}
  FileNames = {a1, a2}
INVARIANTS
  MaskMatches
  NodeOwnsSlot
  OthersServed
  LayoutSound
PROPERTIES
  ParentsKept
