---------------------------- MODULE MCReconcile -----------------------------
(* Constant values for checking Reconcile on small instances.                *)
EXTENDS Reconcile

ThreeNodes == <<"controlplane", "controlplane", "worker">>
NotTheSecond == DOMAIN Reqs \ {2}
=============================================================================
