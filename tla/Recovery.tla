------------------------------ MODULE Recovery ------------------------------
(* After trouble: from some moment on nothing fails and nobody creates any   *)
(* more, and the operator runs destroy again and again.  What is left then?  *)
EXTENDS Provisioner

VARIABLE
  calm   \* no more faults, kills or creates; the binary is there

recoveryVars == <<vars, calm>>

Quiet == INSTANCE Provisioner
           WITH Creators <- {}, Faults <- {}, MayCrash <- FALSE, CliPresent <- {TRUE}

RecoveryInit == Init /\ calm = FALSE

CalmsDown ==
  /\ ~calm /\ calm' = TRUE
  /\ UNCHANGED vars

RecoveryNext ==
  \/ ~calm /\ Next /\ UNCHANGED calm
  \/ calm /\ Quiet!Next /\ UNCHANGED calm
  \/ CalmsDown

Proceeds(p) ==
  /\ calm /\ UNCHANGED calm
  /\ Quiet!CreateStep(p) \/ Quiet!DestroyStep(p) \/ Quiet!Exit(p)

Retries(p) == calm /\ Quiet!StartDestroy(p) /\ UNCHANGED calm

(* Every exec and file access returns, so an invocation that runs goes on;   *)
(* the operator starts a destroy whenever the last one has ended.            *)
RecoverySpec ==
  /\ RecoveryInit
  /\ [][RecoveryNext]_recoveryVars
  /\ WF_recoveryVars(CalmsDown)
  /\ \A p \in Procs : WF_recoveryVars(Proceeds(p)) /\ WF_recoveryVars(Retries(p))

-----------------------------------------------------------------------------
(* A failed create needs no manual cleanup (VERIFICATION.md:387): however    *)
(* creates and destroys failed or were killed, retried destroys end with     *)
(* nothing of the cluster left.                                              *)
Reclaimed == \A c \in Clusters : <>[]Clean(c)

(* The same, but for one thing that stays: a state.yaml that does not        *)
(* decode, on which Reflect refuses for good (main.go:178-180).              *)
ReclaimedUnlessTorn == \A c \in Clusters : <>[](Clean(c) \/ yaml[c].status = "torn")
=============================================================================
