SPECIFICATION Spec
CONSTANTS
  Threads = {t1, t2}
  Regions <- MCRegions
  NNodes = 3
  Sizes <- MCSizes
  Alignments <- MCAlignments
SYMMETRY Symmetry
INVARIANTS ChunksTile FreeListExact BlocksBacked BestFit Coalesced
