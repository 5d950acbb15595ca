----------------------------- MODULE MCOrphans ------------------------------
(* Constant values for checking Orphans on small instances.                  *)
EXTENDS OrphansProofs

OwnNames == [c \in Clusters |-> c]
OnNamed == [c \in Clusters |-> "clusternet"]
ControlPlane == {[controlplanes |-> 1, workers |-> 0]}
=============================================================================
