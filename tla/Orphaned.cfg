CONSTANTS
  Clusters = {a}
  EmptyName = EmptyName
  Sanitized <- OwnNames
  Domains = {NoDomain, aegis}
  NoDomain = NoDomain
  NetworkOf <- OnNamed
  NoNetwork = NoNetwork
  DefaultNetwork = DefaultNetwork
  Foreign = {}
  Procs = {p1}
  Creators = {p1}
  Destroyers = {p1}
  DestroyTargets = {a}
  Shapes <- ControlPlane
  CliPresent = {TRUE}
  Faults = {}
  MayCrash = TRUE
  MaxOrphans = 1
SPECIFICATION OrphansSpec
INVARIANTS
  OrphansInv
  NilMeansNoContainer
PROPERTIES
  ReclaimedUnlessTorn
