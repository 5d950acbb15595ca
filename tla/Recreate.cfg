CONSTANTS
  Clusters = {a}
  EmptyName = EmptyName
  Sanitized <- OwnNames
  Domains = {NoDomain}
  NoDomain = NoDomain
  NetworkOf <- OnDefault
  NoNetwork = NoNetwork
  DefaultNetwork = DefaultNetwork
  Foreign = {}
  Procs = {p1, p2}
  Creators = {p1, p2}
  Destroyers = {p2}
  DestroyTargets = {a}
  Shapes <- ControlPlane
  CliPresent = {TRUE}
  Faults = {}
  MayCrash = FALSE
SPECIFICATION Spec
PROPERTIES
  FreshBoot
