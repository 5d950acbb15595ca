CONSTANTS
  Clusters = {a}
  EmptyName = EmptyName
  Sanitized <- OwnNames
  Domains = {NoDomain}
  NoDomain = NoDomain
  NetworkOf <- OnDefault
  NoNetwork = NoNetwork
  DefaultNetwork = DefaultNetwork
  Foreign = {}
  Procs = {p1}
  Creators = {p1}
  Destroyers = {p1}
  DestroyTargets = {a}
  Shapes <- ControlPlane
  CliPresent = {TRUE}
  Faults = {"fails"}
  MayCrash = FALSE
SPECIFICATION RecoverySpec
PROPERTIES
  Reclaimed
