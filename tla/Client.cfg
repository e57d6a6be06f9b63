CONSTANTS
  Host = {h1, h2}
  Bootstrap = bootstrap
  Inserts = {i1}
  Lookups = {l1}
  Peer = {1, 2, 3, 5}
  Self = 4
  Capacity = 3
SPECIFICATION FairSpec
INVARIANTS
  ThenOnceAtTheEnd
  
PROPERTIES
  NothingStoredAfterFini
  BootstrapEnds
  InsertEnds
  BootstrapHelps
CHECK_DEADLOCK FALSE
