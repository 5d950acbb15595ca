CONSTANTS
  Clusters = {a}
  EmptyName = EmptyName
  Sanitized <- OwnNames
  Domains = {NoDomain, aegis}
  NoDomain = NoDomain
  NetworkOf <- OnDefault
  NoNetwork = NoNetwork
  DefaultNetwork = DefaultNetwork
  Foreign = {}
  Procs = {p1, p2}
  Creators = {p1, p2}
  Destroyers = {}
  DestroyTargets = {}
  Shapes <- WithWorker
  CliPresent = {TRUE}
  Faults = {"fails", "lost"}
  MayCrash = TRUE
SPECIFICATION Spec
INVARIANTS
  CreatesInv
  CreateNilMeansUp
PROPERTIES
  FreshBoot
  RecordSurvivesCreates
