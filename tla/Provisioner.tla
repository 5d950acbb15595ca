---------------------------- MODULE Provisioner -----------------------------
(* `aegis -name c` and `aegis -name c -destroy`: provider/apple's Create     *)
(* (create.go), Destroy (destroy.go) and the glue of cmd/aegis/main.go.      *)
(* Each invocation is a process that runs the Go code from top to bottom;    *)
(* every exec of the CLI and every access to the state directory is a step,  *)
(* so that other invocations, failures and kills fall between any two.       *)
EXTENDS ContainerRuntime, StateDir

CONSTANTS
  Procs,           \* slots in which invocations run, one at a time each
  Creators,        \* the slots that may run a create
  Destroyers,      \* the slots that may run a destroy
  DestroyTargets,  \* the names passed with -destroy; may hold EmptyName
  Shapes,          \* the node counts asked for
  CliPresent,      \* whether the `container` binary is there: a set of BOOLEANs
  Faults,          \* what may go wrong with a call: {"fails", "lost"} or less
  MayCrash         \* whether an invocation may be killed

ASSUME ProvisionerAssumption ==
  /\ Creators \subseteq Procs
  /\ Destroyers \subseteq Procs
  /\ DestroyTargets \subseteq Clusters \cup {EmptyName}
  /\ Shapes \subseteq Shape
  /\ CliPresent \subseteq BOOLEAN
  /\ Faults \subseteq {"fails", "lost"}
  /\ MayCrash \in BOOLEAN
  /\ Foreign \cap NodeInfos = {}

VARIABLE
  proc   \* Procs -> the invocation's locals, see Invocations

vars == <<containers, volumes, networks, dirs, yaml, proc>>

CreatePhases ==
  {"validate", "stat", "mkdir", "network", "dns", "volExists", "volCreate",
   "launch", "address", "reconcile", "saveOpen", "saveWrite", "talosconfig"}
DestroyPhases ==
  {"reflect", "stop", "rm", "delVol", "listC", "sweepStop", "sweepRm",
   "listV", "sweepVol", "delNet", "rmRecord", "rmDir"}

(* One invocation.  work: orderedReqs in a create, Info().Nodes in a         *)
(* destroy; pos and kind: the loop's place in it; net: Info().Network.Name;  *)
(* todo, cur, vols: what the label sweep has listed and not yet handled;     *)
(* badC, badV, bad: the containers, volumes and phases whose error is in the *)
(* returned error.  rivals is history: the kinds of other invocations on     *)
(* this cluster whose run overlapped this one's.                             *)
Invocations ==
  [op : {"none", "create", "destroy"}, target : Clusters \cup {EmptyName},
   domain : Domains \cup {NoDomain}, cli : BOOLEAN,
   pc : {"idle", "returned"} \cup CreatePhases \cup DestroyPhases,
   work : Seq(NodeInfos), pos : Nat \ {0}, kind : Kinds,
   net : {NetworkOf[c] : c \in Clusters} \cup {NoNetwork},
   todo : SUBSET (NodeInfos \cup Foreign), cur : SUBSET (NodeInfos \cup Foreign),
   vols : SUBSET VolumeNames,
   badC : SUBSET (NodeInfos \cup Foreign), badV : SUBSET VolumeNames,
   bad : SUBSET {"request", "exists", "mkdir", "network", "dns", "check",
                 "stale", "create", "launch", "address", "reconcile", "save",
                 "talosconfig", "reflect", "listC", "listV", "dir"},
   rivals : SUBSET {"create", "destroy"}]

Idle ==
  [op |-> "none", target |-> EmptyName, domain |-> NoDomain, cli |-> TRUE,
   pc |-> "idle", work |-> <<>>, pos |-> 1, kind |-> "var", net |-> NoNetwork,
   todo |-> {}, cur |-> {}, vols |-> {}, badC |-> {}, badV |-> {}, bad |-> {},
   rivals |-> {}]

Init ==
  /\ RuntimeInit
  /\ StateInit
  /\ proc = [p \in Procs |-> Idle]

Running(p) == proc[p].pc \notin {"idle", "returned"}

(* How an exec of the CLI, and a file operation, can go for this invocation. *)
Execs(p) == IF proc[p].cli THEN {"done"} \cup Faults ELSE {"noCli"}
FileOps == {"done"} \cup (Faults \cap {"fails"})

Become(p, me) == proc' = [proc EXCEPT ![p] = me]
Goto(p, phase) == Become(p, [proc[p] EXCEPT !.pc = phase])

(* `return nil, err`: Create gives up at its first error and cleans nothing. *)
Fail(p, what) == Become(p, [proc[p] EXCEPT !.pc = "returned", !.bad = {what}])

NoteNothing(err, set, elem) == set  \* mutant: the error is logged and dropped
(* errs = append(errs, err): Destroy collects its errors and goes on.        *)
Note(err, set, elem) == IF err THEN set \cup {elem} ELSE set

(* The loop over the nodes: on to the next one, or out of it.                *)
NextNodeStopsShort(me, again, after) ==  \* mutant: off by one
  IF me.pos + 1 < Len(me.work) THEN [me EXCEPT !.pc = again, !.pos = @ + 1]
                               ELSE [me EXCEPT !.pc = after, !.pos = 1]
NextNode(me, again, after) ==
  IF me.pos < Len(me.work) THEN [me EXCEPT !.pc = again, !.pos = @ + 1]
                           ELSE [me EXCEPT !.pc = after, !.pos = 1]

(* The loop over a node's two volumes inside it.                             *)
NextVolume(me, same, again, after) ==
  IF me.kind = "var" THEN [me EXCEPT !.pc = same, !.kind = "system-state"]
                     ELSE NextNode([me EXCEPT !.kind = "var"], again, after)

ThisNode(p) == proc[p].work[proc[p].pos]
ThisVolume(p) == nodeVolumeName(ThisNode(p).name, proc[p].kind)

-----------------------------------------------------------------------------
(* An operator starts an invocation.  Nothing locks: whatever else runs on   *)
(* the same name overlaps with it.                                           *)
Meets(a, b) == a = b \/ a = EmptyName \/ b = EmptyName

Begin(p, me) ==
  proc' = [q \in Procs |->
    IF q = p
      THEN [me EXCEPT !.rivals =
              {proc[o].op : o \in {s \in Procs \ {p} :
                 Running(s) /\ Meets(proc[s].target, me.target)}}]
      ELSE IF proc[q].pc # "idle" /\ Meets(proc[q].target, me.target)
             THEN [proc[q] EXCEPT !.rivals = @ \cup {me.op}]
             ELSE proc[q]]

StartCreate(p) ==
  /\ p \in Creators /\ proc[p].pc = "idle"
  /\ \E c \in Clusters, shape \in Shapes, domain \in Domains, cli \in CliPresent :
       Begin(p, [Idle EXCEPT
         !.op = "create", !.target = c, !.domain = domain, !.cli = cli,
         !.pc = "validate", !.net = NetworkOf[c],
         !.work = [i \in 1 .. shape.controlplanes + shape.workers |->
                     nodeFQDN(orderedReqs(c, shape)[i], domain)]])
  /\ UNCHANGED <<runtimeVars, stateVars>>

StartDestroy(p) ==
  /\ p \in Destroyers /\ proc[p].pc = "idle"
  /\ \E c \in DestroyTargets, cli \in CliPresent :
       Begin(p, [Idle EXCEPT !.op = "destroy", !.target = c, !.cli = cli,
                             !.pc = "reflect"])
  /\ UNCHANGED <<runtimeVars, stateVars>>

-----------------------------------------------------------------------------
(* Create                                                                    *)

ValidateNothing(p) ==  \* mutant: a worker-only request goes through
  /\ proc[p].pc = "validate" /\ Goto(p, "stat")
  /\ UNCHANGED <<runtimeVars, stateVars>>

ValidateClusterRequest(p) ==
  /\ proc[p].pc = "validate"
  /\ IF \E i \in DOMAIN proc[p].work : proc[p].work[i].name.role = "controlplane"
       THEN Goto(p, "stat") ELSE Fail(p, "request")
  /\ UNCHANGED <<runtimeVars, stateVars>>

NewStateStat(p) ==
  /\ proc[p].pc = "stat"
  /\ \E taken \in BOOLEAN :
       /\ StatDir(proc[p].target, taken)
       /\ IF taken THEN Fail(p, "exists") ELSE Goto(p, "mkdir")
  /\ UNCHANGED runtimeVars

NewStateMkdir(p) ==
  /\ proc[p].pc = "mkdir"
  /\ \E r \in FileOps, err \in BOOLEAN :
       /\ MakeDir(proc[p].target, r, err)
       /\ IF err THEN Fail(p, "mkdir") ELSE Goto(p, "network")
  /\ UNCHANGED runtimeVars

EnsureNetwork(p) ==
  /\ proc[p].pc = "network"
  /\ \E r \in Execs(p), err \in BOOLEAN :
       /\ ensureNetwork(proc[p].net, r, err)
       /\ IF err THEN Fail(p, "network")
          ELSE Goto(p, IF proc[p].domain = NoDomain THEN "volExists" ELSE "dns")
  /\ UNCHANGED stateVars

(* The resolver entry is the operator's to make: it may or may not be there. *)
CheckDNSDomain(p) ==
  /\ proc[p].pc = "dns"
  /\ \E listed \in BOOLEAN :
       IF listed /\ proc[p].cli THEN Goto(p, "volExists") ELSE Fail(p, "dns")
  /\ UNCHANGED <<runtimeVars, stateVars>>

CheckVolumeReuses(p) ==  \* mutant: a volume that is there is used
  /\ proc[p].pc = "volExists"
  /\ \E r \in Execs(p), answer \in {"present", "absent", "error"} :
       /\ volumeExists(ThisVolume(p), r, answer)
       /\ CASE answer = "absent"  -> Goto(p, "volCreate")
            [] answer = "present" ->
                 Become(p, NextVolume(proc[p], "volExists", "volExists", "launch"))
            [] answer = "error"   -> Fail(p, "check")
  /\ UNCHANGED stateVars

(* prepareNodeVolumes, in two execs per volume: inspect it, then create it.  *)
CheckVolume(p) ==
  /\ proc[p].pc = "volExists"
  /\ \E r \in Execs(p), answer \in {"present", "absent", "error"} :
       /\ volumeExists(ThisVolume(p), r, answer)
       /\ CASE answer = "absent"  -> Goto(p, "volCreate")
            [] answer = "present" -> Fail(p, "stale")
            [] answer = "error"   -> Fail(p, "check")
  /\ UNCHANGED stateVars

CreateVolume(p) ==
  /\ proc[p].pc = "volCreate"
  /\ \E r \in Execs(p), err \in BOOLEAN :
       /\ volumeCreate(ThisVolume(p), proc[p].target, r, err)
       /\ IF err THEN Fail(p, "create")
          ELSE Become(p, NextVolume(proc[p], "volExists", "volExists", "launch"))
  /\ UNCHANGED stateVars

Launch(p) ==
  /\ proc[p].pc = "launch"
  /\ \E r \in Execs(p), err \in BOOLEAN :
       /\ runNode(ThisNode(p), r, err)
       /\ IF err THEN Fail(p, "launch") ELSE Goto(p, "address")
  /\ UNCHANGED stateVars

(* The node gets an address within ipDiscoveryTimeout or it does not.        *)
WaitForIPv4(p) ==
  /\ proc[p].pc = "address"
  /\ \/ /\ IsRunning(ThisNode(p))
        /\ Become(p, NextNode(proc[p], "launch", "reconcile"))
     \/ Fail(p, "address")
  /\ UNCHANGED <<runtimeVars, stateVars>>

(* assertDistinctIPs and reconcileConfigs: node by node, a running node      *)
(* takes its config within applyConfigTimeout or it does not.                *)
ReconcileConfigs(p) ==
  /\ proc[p].pc = "reconcile"
  /\ \/ /\ IsRunning(ThisNode(p))
        /\ Become(p, NextNode(proc[p], "reconcile", "saveOpen"))
     \/ Fail(p, "reconcile")
  /\ UNCHANGED <<runtimeVars, stateVars>>

SaveOpen(p) ==
  /\ proc[p].pc = "saveOpen"
  /\ \E r \in FileOps, err \in BOOLEAN :
       /\ OpenRecord(proc[p].target, r, err)
       /\ IF err THEN Fail(p, "save") ELSE Goto(p, "saveWrite")
  /\ UNCHANGED runtimeVars

SaveWrite(p) ==
  /\ proc[p].pc = "saveWrite"
  /\ \E r \in FileOps, err \in BOOLEAN :
       /\ WriteRecord(proc[p].target, proc[p].work, r, err)
       /\ IF err THEN Fail(p, "save") ELSE Goto(p, "talosconfig")
  /\ UNCHANGED runtimeVars

(* run() saves the talosconfig next to state.yaml, making the directory.     *)
SaveTalosconfig(p) ==
  /\ proc[p].pc = "talosconfig"
  /\ \E r \in FileOps, err \in BOOLEAN :
       /\ MakeDir(proc[p].target, r, err)
       /\ IF err THEN Fail(p, "talosconfig") ELSE Goto(p, "returned")
  /\ UNCHANGED runtimeVars

CreateStep(p) ==
  \/ ValidateClusterRequest(p) \/ NewStateStat(p) \/ NewStateMkdir(p)
  \/ EnsureNetwork(p) \/ CheckDNSDomain(p)
  \/ CheckVolume(p) \/ CreateVolume(p)
  \/ Launch(p) \/ WaitForIPv4(p) \/ ReconcileConfigs(p)
  \/ SaveOpen(p) \/ SaveWrite(p) \/ SaveTalosconfig(p)

-----------------------------------------------------------------------------
(* Destroy                                                                   *)

SweepAlways(name) == "listC"  \* mutant: sweeps for the empty name too
SweepNever(name) == "delNet"  \* mutant: the recorded pass only

(* sweepByLabel skips an empty cluster name.                                 *)
Sweep(name) == IF name = EmptyName THEN "delNet" ELSE "listC"

ReflectNeedsRecord(p) ==  \* mutant: no ClusterRef, a missing record is an error
  /\ proc[p].pc = "reflect"
  /\ LET record == ReadState(proc[p].target)
     IN IF record.status # "saved" THEN Fail(p, "reflect")
        ELSE Become(p, [proc[p] EXCEPT !.work = record.nodes,
                          !.net = record.network, !.pc = "stop"])
  /\ UNCHANGED <<runtimeVars, stateVars>>

(* runDestroy: a missing state.yaml gives a ClusterRef without nodes and     *)
(* network; any other error of Reflect ends the invocation.                  *)
Reflect(p) ==
  /\ proc[p].pc = "reflect"
  /\ LET record == ReadState(proc[p].target)
     IN IF record.status = "torn" THEN Fail(p, "reflect")
        ELSE Become(p, [proc[p] EXCEPT
               !.work = record.nodes, !.net = record.network,
               !.pc = IF record.nodes = <<>> THEN Sweep(proc[p].target) ELSE "stop"])
  /\ UNCHANGED <<runtimeVars, stateVars>>

(* destroyRecordedNodes: stop, remove, delete both volumes, node by node,    *)
(* noting errors and going on.                                               *)
StopRecorded(p) ==
  /\ proc[p].pc = "stop"
  /\ \E r \in Execs(p), err \in BOOLEAN :
       /\ stop(ThisNode(p), r, err)
       /\ Become(p, [proc[p] EXCEPT !.pc = "rm", !.badC = Note(err, @, ThisNode(p))])
  /\ UNCHANGED stateVars

RemoveRecorded(p) ==
  /\ proc[p].pc = "rm"
  /\ \E r \in Execs(p), err \in BOOLEAN :
       /\ remove(ThisNode(p), r, err)
       /\ Become(p, [proc[p] EXCEPT !.pc = "delVol",
                                    !.badC = Note(err, @, ThisNode(p))])
  /\ UNCHANGED stateVars

DeleteRecordedVolume(p) ==
  /\ proc[p].pc = "delVol"
  /\ \E r \in Execs(p), err \in BOOLEAN :
       /\ volumeDelete(ThisVolume(p), r, err)
       /\ Become(p, NextVolume([proc[p] EXCEPT !.badV = Note(err, @, ThisVolume(p))],
                               "delVol", "stop", Sweep(proc[p].target)))
  /\ UNCHANGED stateVars

(* sweepByLabel: what was listed is handled in the CLI's order, any order.   *)
ListContainers(p) ==
  /\ proc[p].pc = "listC"
  /\ \E r \in Execs(p) :
       LET ids == containersMatchingLabel(proc[p].target)
       IN IF ListFails(r)
            THEN Become(p, [proc[p] EXCEPT !.pc = "listV", !.bad = @ \cup {"listC"}])
            ELSE Become(p, [proc[p] EXCEPT !.todo = ids,
                              !.pc = IF ids = {} THEN "listV" ELSE "sweepStop"])
  /\ UNCHANGED <<runtimeVars, stateVars>>

SweepStop(p) ==
  /\ proc[p].pc = "sweepStop"
  /\ \E id \in proc[p].todo, r \in Execs(p), err \in BOOLEAN :
       /\ stop(id, r, err)
       /\ Become(p, [proc[p] EXCEPT !.pc = "sweepRm", !.cur = {id},
                                    !.badC = Note(err, @, id)])
  /\ UNCHANGED stateVars

SweepRemove(p) ==
  /\ proc[p].pc = "sweepRm"
  /\ \E id \in proc[p].cur, r \in Execs(p), err \in BOOLEAN :
       /\ remove(id, r, err)
       /\ Become(p, [proc[p] EXCEPT
            !.pc = IF proc[p].todo = {id} THEN "listV" ELSE "sweepStop",
            !.cur = {}, !.todo = @ \ {id}, !.badC = Note(err, @, id)])
  /\ UNCHANGED stateVars

ListVolumes(p) ==
  /\ proc[p].pc = "listV"
  /\ \E r \in Execs(p) :
       LET names == volumesMatchingLabel(proc[p].target)
       IN IF ListFails(r)
            THEN Become(p, [proc[p] EXCEPT !.pc = "delNet", !.bad = @ \cup {"listV"}])
            ELSE Become(p, [proc[p] EXCEPT !.vols = names,
                              !.pc = IF names = {} THEN "delNet" ELSE "sweepVol"])
  /\ UNCHANGED <<runtimeVars, stateVars>>

SweepVolume(p) ==
  /\ proc[p].pc = "sweepVol"
  /\ \E name \in proc[p].vols, r \in Execs(p), err \in BOOLEAN :
       /\ volumeDelete(name, r, err)
       /\ Become(p, [proc[p] EXCEPT
            !.pc = IF proc[p].vols = {name} THEN "delNet" ELSE "sweepVol",
            !.vols = @ \ {name}, !.badV = Note(err, @, name)])
  /\ UNCHANGED stateVars

DestroyNetwork(p) ==
  /\ proc[p].pc = "delNet"
  /\ \E r \in Execs(p), err \in BOOLEAN :
       /\ destroyNetwork(proc[p].net, r, err)
       /\ Become(p, [proc[p] EXCEPT !.pc = "rmRecord", !.bad = Note(err, @, "network")])
  /\ UNCHANGED stateVars

(* RemoveAll(statePath), whatever went wrong before it.                      *)
RemoveStateFiles(p) ==
  /\ proc[p].pc = "rmRecord"
  /\ \E r \in FileOps, err \in BOOLEAN :
       /\ RemoveRecord(proc[p].target, r, err)
       /\ Become(p, [proc[p] EXCEPT !.pc = IF err THEN "returned" ELSE "rmDir",
                                    !.bad = Note(err, @, "dir")])
  /\ UNCHANGED runtimeVars

RemoveStateDir(p) ==
  /\ proc[p].pc = "rmDir"
  /\ \E r \in FileOps, err \in BOOLEAN :
       /\ RemoveDir(proc[p].target, r, err)
       /\ Become(p, [proc[p] EXCEPT !.pc = "returned", !.bad = Note(err, @, "dir")])
  /\ UNCHANGED runtimeVars

DestroyStep(p) ==
  \/ Reflect(p)
  \/ StopRecorded(p) \/ RemoveRecorded(p) \/ DeleteRecordedVolume(p)
  \/ ListContainers(p) \/ SweepStop(p) \/ SweepRemove(p)
  \/ ListVolumes(p) \/ SweepVolume(p)
  \/ DestroyNetwork(p) \/ RemoveStateFiles(p) \/ RemoveStateDir(p)

-----------------------------------------------------------------------------
(* The process ends; a killed one leaves everything as it lies.              *)
Exit(p) ==
  /\ proc[p].pc = "returned"
  /\ Become(p, Idle)
  /\ UNCHANGED <<runtimeVars, stateVars>>

Crash(p) ==
  /\ MayCrash /\ Running(p)
  /\ Become(p, Idle)
  /\ UNCHANGED <<runtimeVars, stateVars>>

Next ==
  \E p \in Procs :
    \/ StartCreate(p) \/ StartDestroy(p)
    \/ CreateStep(p) \/ DestroyStep(p)
    \/ Exit(p) \/ Crash(p)

Spec == Init /\ [][Next]_vars

-----------------------------------------------------------------------------
(* What the invocations promise                                              *)

(* The variables have their types: what the runtime holds, what is on disk,  *)
(* and the locals of every invocation.                                       *)
TypeOK ==
  /\ RuntimeTypeOK
  /\ StateTypeOK
  /\ proc \in [Procs -> Invocations]

Returned(p, op) == proc[p].pc = "returned" /\ proc[p].op = op
Succeeded(p, op) ==
  /\ Returned(p, op)
  /\ proc[p].badC = {} /\ proc[p].badV = {} /\ proc[p].bad = {}

Clean(c) ==
  /\ containersMatchingLabel(c) = {}
  /\ volumesMatchingLabel(c) = {}
  /\ c \notin dirs /\ yaml[c].status = "absent"

(* A destroy that reports success, with no create of the cluster running     *)
(* beside it, leaves no container, volume or record of the cluster, however  *)
(* the create before it ended and whatever was missing (destroy.go:17-36).   *)
NilMeansClean ==
  \A p \in Procs :
    /\ Succeeded(p, "destroy") /\ proc[p].target \in Clusters
    /\ "create" \notin proc[p].rivals
    => Clean(proc[p].target)

(* One stuck node does not block the rest (destroy.go:80): what a destroy    *)
(* that got past Reflect leaves behind is a container or volume that its own *)
(* error names, or one that a failed listing hid from it.                    *)
FailuresAreNamed ==
  \A p \in Procs :
    LET me == proc[p]
    IN /\ Returned(p, "destroy") /\ me.target \in Clusters
       /\ "create" \notin me.rivals /\ "reflect" \notin me.bad
       => /\ containersMatchingLabel(me.target) \subseteq me.badC
             \/ "listC" \in me.bad
          /\ volumesMatchingLabel(me.target) \subseteq me.badV
             \/ "listV" \in me.bad

(* A create that reports success, with no destroy of the cluster running     *)
(* beside it, has a record from which a later destroy finds every node: a    *)
(* control plane first, each node a running container on its own two booted  *)
(* volumes.                                                                  *)
CreateNilMeansUp ==
  \A p \in Procs :
    LET me == proc[p]
        record == yaml[me.target]
    IN Succeeded(p, "create") /\ "destroy" \notin me.rivals
       => /\ record.status = "saved" /\ record.nodes = me.work
          /\ record.network = NetworkOf[me.target]
          /\ record.nodes[1].name.role = "controlplane"
          /\ \A i \in DOMAIN me.work :
               /\ [id |-> me.work[i], label |-> me.target, running |-> TRUE]
                    \in containers
               /\ \A name \in nodeVolumeNames(me.work[i].name) :
                    [name |-> name, label |-> me.target, booted |-> TRUE] \in volumes

(* Never reuse a stale volume (create.go:153): a node is launched only on    *)
(* volumes of its own cluster on which no node has run before.               *)
FreshBoot ==
  [][\A x \in containers' :
       x.id \notin ContainerIDs =>
         \A v \in volumes : v.name \in Mounts(x) => ~v.booted /\ v.label = x.label]_vars

(* Never wipe one silently, and never another cluster's (node.go:87): a      *)
(* container or volume disappears only by a destroy of the cluster whose     *)
(* label it carries; a container without a label never does.                 *)
OnlyOwnResourcesRemoved ==
  [][/\ \A x \in containers : x.id \notin {y.id : y \in containers'} =>
          \E p \in Procs : proc[p].op = "destroy" /\ proc[p].target = x.label
     /\ \A v \in volumes : v.name \notin {w.name : w \in volumes'} =>
          \E p \in Procs : proc[p].op = "destroy" /\ proc[p].target = v.label
     /\ \A x \in containers : x.id \in Foreign => x \in containers']_vars

(* The stale-state refusal tells the operator to destroy this cluster        *)
(* (create.go:172-177), and that helps: the volume in the way is its own.    *)
RefusedOnlyByOwnVolume ==
  [][\A p \in Procs :
       proc[p].pc = "volExists" /\ proc'[p].bad = {"stale"} =>
         \E v \in volumes : v.name = ThisVolume(p) /\ v.label = proc[p].target]_vars

(* The phases of Create that follow prepareNodeVolumes.                      *)
PastVolumes ==
  {"launch", "address", "reconcile", "saveOpen", "saveWrite", "talosconfig"}

(* The volumes are the only lock there is: `volume create` fails on a name   *)
(* that exists, so of two creates of a cluster at most one gets past         *)
(* prepareNodeVolumes (create.go:145), unless a destroy ran beside one.      *)
VolumesAreTheLock ==
  \A p, q \in Procs :
    /\ p # q /\ proc[p].target = proc[q].target
    /\ proc[p].pc \in PastVolumes /\ proc[q].pc \in PastVolumes
    => "destroy" \in proc[p].rivals \cup proc[q].rivals

(* Two creates of one cluster: the record of the one that came up is never   *)
(* overwritten by the other; only a destroy that covers it removes it.       *)
RecordSurvivesCreates ==
  [][\A c \in Clusters : yaml[c].status = "saved" /\ yaml'[c] # yaml[c] =>
       \E p \in Procs : proc[p].op = "destroy" /\ c \in clusterStatePath(proc[p].target)]_vars

(* The state-directory sweep is per cluster (destroy.go:66): a destroy       *)
(* removes the directory of the cluster it was given, and no other.          *)
StateSweepIsPerCluster ==
  [][\A c \in dirs : c \notin dirs' =>
       \E p \in Procs : proc[p].op = "destroy" /\ proc[p].target = c]_vars

(* Teardown leaves only the default network (runbook.md:97): a destroy that  *)
(* found a record and reports success has deleted the named network in it.   *)
NilMeansNetworkGone ==
  \A p \in Procs :
    /\ Succeeded(p, "destroy") /\ proc[p].work # <<>>
    /\ "create" \notin proc[p].rivals
    => NetworkOf[proc[p].target] \notin networks

-----------------------------------------------------------------------------
(* The ledger of a cluster, as these modules keep it.                        *)
OnCluster(p, c) == proc[p].target \in {c, EmptyName} /\ proc[p].op # "none"

StatusOn(p, c) ==
  LET me == proc[p]
  IN IF ~OnCluster(p, c) THEN "away"
     ELSE IF Running(p)
       THEN IF me.op = "create" THEN "creating"
            ELSE IF me.target = EmptyName THEN "erasing" ELSE "destroying"
       ELSE IF ~Succeeded(p, me.op) THEN "failed"
            ELSE IF me.op = "create" THEN "created" ELSE "destroyed"

(* Whether no invocation ran beside this one that spoils its result.         *)
Alone(p) ==
  proc[p].rivals \subseteq (IF proc[p].op = "create" THEN {} ELSE {"destroy"})

RecordedOf(c) ==
  UNION {{node} \cup nodeVolumeNames(node.name) :
           node \in {yaml[c].nodes[i] : i \in DOMAIN yaml[c].nodes}}

Of(c) == INSTANCE Ledger WITH
  Callers <- Procs,
  status  <- [p \in Procs |-> StatusOn(p, c)],
  alone   <- {p \in Procs : proc[p].target = c /\ Running(p) /\ Alone(p)},
  held    <- containersMatchingLabel(c) \cup volumesMatchingLabel(c),
  known   <- yaml[c].status,
  listed  <- RecordedOf(c)

(* Every exec, file access, failure and kill is, for each cluster, a step of *)
(* its ledger or none: a create is all there when it says so, a destroy      *)
(* leaves nothing when it says so, and an operation on another cluster, or   *)
(* without a name, touches neither containers nor volumes of this one.       *)
ImplementsLedger ==
  /\ \A c \in Clusters : Of(c)!LedgerInit
  /\ [][\A c \in Clusters : [Of(c)!LedgerNext]_(Of(c)!ledgerVars)]_vars
=============================================================================
