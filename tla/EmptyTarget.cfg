CONSTANTS
  Clusters = {a}
  EmptyName = EmptyName
  Sanitized <- OwnNames
  Domains = {NoDomain}
  NoDomain = NoDomain
  NetworkOf <- OnDefault
  NoNetwork = NoNetwork
  DefaultNetwork = DefaultNetwork
  Foreign = {}
  Procs = {p1}
  Creators = {p1}
  Destroyers = {p1}
  DestroyTargets = {EmptyName}
  Shapes <- ControlPlane
  CliPresent = {TRUE}
  Faults = {}
  MayCrash = FALSE
SPECIFICATION Spec
PROPERTIES
  StateSweepIsPerCluster
