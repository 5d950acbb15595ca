CONSTANTS
  ClusterNames <- SomeNames
  DNSDomains <- WithAndWithoutDomain
  Counts <- AnyCounts
  Memories <- SomeMemories
  Indexes <- FirstIndexes
  Characters <- SomeCharacters
  Words <- ValidWords
  Lower <- LowerCase
  Overlays <- TalosOverlays
  Mib = 4
  HalfRange = 64
SPECIFICATION Spec
INVARIANTS
  NamesApart
  LimitAsAsked
  StateOnVolumes
CHECK_DEADLOCK FALSE
