CONSTANTS
  Clusters = {a, b}
  EmptyName = EmptyName
  Sanitized <- SharedName
  Domains = {NoDomain}
  NoDomain = NoDomain
  NetworkOf <- OnDefault
  NoNetwork = NoNetwork
  DefaultNetwork = DefaultNetwork
  Foreign = {}
  Procs = {p1}
  Creators = {p1}
  Destroyers = {p1}
  DestroyTargets = {a, b}
  Shapes <- ControlPlane
  CliPresent = {TRUE}
  Faults = {}
  MayCrash = FALSE
SPECIFICATION Spec
PROPERTIES
  RefusedOnlyByOwnVolume
