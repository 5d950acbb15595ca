---------------------------- MODULE MCProvisioner ----------------------------
(* Constant values for checking Provisioner on small instances.              *)
EXTENDS Provisioner

OwnNames == [c \in Clusters |-> c]             \* no two names share a sanitized form
SharedName == [c \in Clusters |-> "s"]         \* all of them do
OnDefault == [c \in Clusters |-> DefaultNetwork]
OnNamed == [c \in Clusters |-> "clusternet"]

ControlPlane == {[controlplanes |-> 1, workers |-> 0]}
WithWorker == {[controlplanes |-> 1, workers |-> 1]}
=============================================================================
