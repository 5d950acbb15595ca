------------------------------- MODULE MCLock --------------------------------
(* Constant values for checking the inductive invariants of the proofs.      *)
EXTENDS LedgerProofs

OwnNames == [c \in Clusters |-> c]
OnDefault == [c \in Clusters |-> DefaultNetwork]
OnNamed == [c \in Clusters |-> "clusternet"]

OneNode ==
  {[controlplanes |-> 1, workers |-> 0], [controlplanes |-> 0, workers |-> 1]}
WithWorker == {[controlplanes |-> 1, workers |-> 1]}
=============================================================================
