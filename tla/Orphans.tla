------------------------------- MODULE Orphans -------------------------------
(* A killed aegis does not take its child with it: exec.CommandContext kills *)
(* the `container` command when its context ends, and main's never does.     *)
(* The command it was waiting for is left to run, and its effect comes       *)
(* later, beside whatever the operator has started since.                    *)
EXTENDS Recovery, FiniteSets

CONSTANT MaxOrphans   \* how many such commands there are at a time
ASSUME OrphansAssumption == MaxOrphans \in Nat

VARIABLES
  orphans,  \* the commands, each as the invocation that waited for it
  strays    \* history: those of the volumes that such commands have made

orphanVars == <<recoveryVars, orphans, strays>>

OrphansInit == RecoveryInit /\ orphans = {} /\ strays = {}

Keep == UNCHANGED orphans /\ strays' = strays \cap VolumesNamed'

(* The phases that wait for a command with an effect.                        *)
Waiting ==
  {"network", "volCreate", "launch", "stop", "rm", "delVol", "sweepStop",
   "sweepRm", "sweepVol", "delNet"}

Kill(p) ==
  /\ ~calm /\ MayCrash /\ proc[p].cli /\ proc[p].pc \in Waiting
  /\ proc[p].pc \in {"network", "delNet"} => ~IsBuiltIn(proc[p].net)
  /\ Cardinality(orphans) < MaxOrphans
  /\ orphans' = orphans \cup {proc[p]}
  /\ Become(p, Idle)
  /\ UNCHANGED <<runtimeVars, stateVars, calm, strays>>

(* What the invocation had asked the CLI for; nobody reads the answer.       *)
Command(o, err) ==
  LET node == o.work[o.pos]
      volume == nodeVolumeName(node.name, o.kind)
  IN \/ o.pc = "network" /\ ensureNetwork(o.net, "done", err)
     \/ o.pc = "volCreate" /\ volumeCreate(volume, o.target, "done", err)
     \/ o.pc = "launch" /\ runNode(node, "done", err)
     \/ o.pc = "stop" /\ stop(node, "done", err)
     \/ o.pc = "rm" /\ remove(node, "done", err)
     \/ o.pc = "delVol" /\ volumeDelete(volume, "done", err)
     \/ o.pc = "sweepStop" /\ \E id \in o.todo : stop(id, "done", err)
     \/ o.pc = "sweepRm" /\ \E id \in o.cur : remove(id, "done", err)
     \/ o.pc = "sweepVol" /\ \E name \in o.vols : volumeDelete(name, "done", err)
     \/ o.pc = "delNet" /\ destroyNetwork(o.net, "done", err)

Lands ==
  /\ \E o \in orphans :
       /\ orphans' = orphans \ {o}
       /\ \E err \in BOOLEAN : Command(o, err)
  /\ strays' = (strays \cap VolumesNamed') \cup (VolumesNamed' \ VolumesNamed)
  /\ UNCHANGED <<stateVars, proc, calm>>

OrphansNext ==
  \/ RecoveryNext /\ Keep
  \/ \E p \in Procs : Kill(p)
  \/ Lands

(* A command runs to its end, with or without its parent.                    *)
OrphansSpec ==
  /\ OrphansInit
  /\ [][OrphansNext]_orphanVars
  /\ WF_orphanVars(CalmsDown /\ Keep)
  /\ WF_orphanVars(Lands)
  /\ \A p \in Procs :
       /\ WF_orphanVars(Proceeds(p) /\ Keep)
       /\ WF_orphanVars(Retries(p) /\ Keep)

-----------------------------------------------------------------------------
(* A destroy that reports success, with no create beside it, has left no     *)
(* container (destroy.go:19) even if the last command of a killed create     *)
(* came into it: a launch that lands holds its volumes, and deleting them    *)
(* fails; at most a volume that landed after the sweep's listing is left.    *)
NilMeansNoContainer ==
  \A p \in Procs :
    /\ Succeeded(p, "destroy") /\ proc[p].target \in Clusters
    /\ "create" \notin proc[p].rivals
    => /\ containersMatchingLabel(proc[p].target) = {}
       /\ volumesMatchingLabel(proc[p].target) \subseteq strays
=============================================================================
