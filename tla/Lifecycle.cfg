CONSTANTS
  Clusters = {a}
  EmptyName = EmptyName
  Sanitized <- OwnNames
  Domains = {NoDomain, aegis}
  NoDomain = NoDomain
  NetworkOf <- OnDefault
  NoNetwork = NoNetwork
  DefaultNetwork = DefaultNetwork
  Foreign = {}
  Procs = {p1}
  Creators = {p1}
  Destroyers = {p1}
  DestroyTargets = {a}
  Shapes <- WithAndWithoutControlPlane
  CliPresent = {TRUE, FALSE}
  Faults = {"fails", "lost"}
  MayCrash = TRUE
SPECIFICATION RecoverySpec
INVARIANTS
  TypeOK
  NilMeansClean
  FailuresAreNamed
  CreateNilMeansUp
PROPERTIES
  FreshBoot
  ReclaimedUnlessTorn
  ImplementsLedger
