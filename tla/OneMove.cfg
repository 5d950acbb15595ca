CONSTANTS
  Reqs <- ThreeNodes
  Injected <- NotTheSecond
  Others = {}
  Addrs = {a2, a3, a4, a5}
  NoAddr = NoAddr
  SeedAddr = a2
  Faults = {"fails", "lost"}
  MaxMoves = 1
SPECIFICATION Spec
INVARIANTS
  TypeOK
  RightNode
  CreatedMeansConfigured
  InOrder
  OnlyLostAnswersMislead
  EndpointWorks
