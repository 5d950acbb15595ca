----------------------------- MODULE MCRecovery ------------------------------
(* Constant values for checking Recovery on small instances.                 *)
EXTENDS Recovery

OwnNames == [c \in Clusters |-> c]
OnDefault == [c \in Clusters |-> DefaultNetwork]
ControlPlane == {[controlplanes |-> 1, workers |-> 0]}
WithAndWithoutControlPlane ==
  {[controlplanes |-> 1, workers |-> 1], [controlplanes |-> 0, workers |-> 1]}
=============================================================================
