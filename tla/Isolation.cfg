CONSTANTS
  Clusters = {a, b}
  EmptyName = EmptyName
  Sanitized <- OwnNames
  Domains = {NoDomain}
  NoDomain = NoDomain
  NetworkOf <- OnNamed
  NoNetwork = NoNetwork
  DefaultNetwork = DefaultNetwork
  Foreign = {f}
  Procs = {p1, p2}
  Creators = {p1}
  Destroyers = {p2}
  DestroyTargets = {a, EmptyName}
  Shapes <- ControlPlane
  CliPresent = {TRUE}
  Faults = {"fails"}
  MayCrash = TRUE
SPECIFICATION Spec
INVARIANTS
  NilMeansClean
PROPERTIES
  OnlyOwnResourcesRemoved
  RefusedOnlyByOwnVolume
