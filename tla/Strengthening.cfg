CONSTANTS
  Clusters = {a}
  EmptyName = EmptyName
  Sanitized <- OwnNames
  Domains = {NoDomain}
  NoDomain = NoDomain
  NetworkOf <- OnNamed
  NoNetwork = NoNetwork
  DefaultNetwork = DefaultNetwork
  Foreign = {}
  Procs = {p1, p2}
  Creators = {p1, p2}
  Destroyers = {p1, p2}
  DestroyTargets = {a, EmptyName}
  Shapes <- OneNode
  CliPresent = {TRUE}
  Faults = {}
  MayCrash = TRUE
SPECIFICATION Spec
INVARIANTS
  IInv
  LockInv
  SweepInv
  NetworkInv
  LedgerInv
  VolumesAreTheLock
  NilMeansNetworkGone
PROPERTIES
  ImplementsLedger
