SPECIFICATION FairByteSpec
CONSTANTS
  Lists <- MCLists
  Faults = TRUE
INVARIANTS WireCombined ReadsExact StateKnown BusReleased FaultsReported
PROPERTY TransferEnds
