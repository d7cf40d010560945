SPECIFICATION ImuSpec
CONSTANTS
  Threads = {t1}
  Regions <- MCRegions
  NNodes = 3
  Sizes <- MCSizes
  Alignments <- MCAlignments
  Fds = {3, 4}
  VectorEntry = 1000
INVARIANT ChunksTile
