------------------------------- MODULE Await --------------------------------
(* What Create expects of its two waits, for a node's address (node.go:228)  *)
(* and for a node to take its config (reconcile.go:79): a call that succeeds *)
(* only if the node was ready at some moment of it, or fails.  Provisioner   *)
(* models the waits as such calls; PollLoop shows that the loops are.        *)
VARIABLES
  ready,    \* whether the node would answer the try at this moment
  seen,     \* whether it would have, at any moment of the wait
  outcome   \* of the wait: "none" yet, or how it ended

awaitVars == <<ready, seen, outcome>>

AwaitInit == ready \in BOOLEAN /\ seen = ready /\ outcome = "error"

Begin ==
  /\ outcome # "none" /\ outcome' = "none"
  /\ seen' = ready /\ UNCHANGED ready

Succeed ==
  /\ outcome = "none" /\ seen /\ outcome' = "ok"
  /\ UNCHANGED <<ready, seen>>

GiveUp ==
  /\ outcome = "none" /\ outcome' = "error"
  /\ UNCHANGED <<ready, seen>>

(* The node comes up, loses its address, stops: at any time.                 *)
HostMoves ==
  /\ ready' \in BOOLEAN /\ seen' = (seen \/ ready')
  /\ UNCHANGED outcome

AwaitNext == Begin \/ Succeed \/ GiveUp \/ HostMoves

AwaitSpec == AwaitInit /\ [][AwaitNext]_awaitVars
=============================================================================
