---------------------------- MODULE LedgerProofs -----------------------------
(* Provisioner implements Ledger: theorems for any number of invocations     *)
(* that create and destroy any clusters at once, fail and are killed, as     *)
(* long as the clusters' names stay apart once sanitized.                    *)
EXTENDS DestroyProofs

-----------------------------------------------------------------------------
(* The inductive invariant: what a create may count on by who ran beside it. *)

(* No other create of the cluster has run beside this one; nothing has.      *)
Uncontested(me) == me.op = "create" /\ "create" \notin me.rivals
Sole(me) == me.op = "create" /\ me.rivals = {}

(* A create that found no state directory finds no record either, until it   *)
(* writes its own.                                                           *)
Unrecorded ==
  {"mkdir", "network", "dns", "volExists", "volCreate", "launch", "address",
   "reconcile", "saveOpen"}
OwnRecord(me) ==
  /\ me.pc \in Unrecorded => yaml[me.target].status = "absent"
  /\ me.pc = "saveWrite" => yaml[me.target].status # "saved"

(* An empty slot is nobody's; a record is in its cluster's directory.        *)
IdleIsNone == \A p \in Procs : proc[p].pc = "idle" => proc[p].op = "none"
RecordsInDirs == \A c \in Clusters : yaml[c].status # "absent" => c \in dirs

(* Destroys beside a create do not make its volumes stale nor its record     *)
(* another's, other creates may; and nothing undoes what a create alone has  *)
(* delivered (create.go:41-122).                                             *)
LedgerInv ==
  /\ IdleIsNone /\ RecordsInDirs
  /\ \A p \in Procs : Distinct(proc[p])
  /\ \A p \in Procs : Uncontested(proc[p]) => Fresh(proc[p]) /\ OwnRecord(proc[p])
  /\ \A p \in Procs : Sole(proc[p]) => Delivered(p)

-----------------------------------------------------------------------------
(* Where steps lead, and what they leave alone.                              *)

(* A create goes on to another phase of Create, or returns.                  *)
LEMMA CreateGoesOn ==
  ASSUME IInv, NEW p \in Procs, CreateStep(p)
  PROVE  proc'[p].pc \in CreatePhases \cup {"returned"}
<1>1. \/ \E what : Fail(p, what)
      \/ \E phase \in CreatePhases \cup {"returned"} : Goto(p, phase)
      \/ \E again \in CreatePhases, after \in CreatePhases :
           Become(p, NextNode(proc[p], again, after))
      \/ Become(p, NextVolume(proc[p], "volExists", "volExists", "launch"))
  BY DEF CreateStep, ValidateClusterRequest, NewStateStat, NewStateMkdir,
         EnsureNetwork, CheckDNSDomain, CheckVolume, CreateVolume, Launch,
         WaitForIPv4, ReconcileConfigs, SaveOpen, SaveWrite, SaveTalosconfig,
         CreatePhases
<1>2. ASSUME NEW again \in CreatePhases, NEW after \in CreatePhases,
             Become(p, NextNode(proc[p], again, after))
      PROVE  proc'[p].pc \in CreatePhases
  BY <1>2, NextNodeEffect, ZenonT(60)
<1>3. Become(p, NextVolume(proc[p], "volExists", "volExists", "launch")) =>
        proc'[p].pc \in CreatePhases
  BY CreatedEffect DEF CreatePhases
<1> QED
  BY <1>1, <1>2, <1>3, FailEffect, GotoEffect DEF At

(* A destroy goes on to another phase of Destroy, or returns.                *)
LEMMA DestroyGoesOn ==
  ASSUME IInv, NEW p \in Procs, DestroyStep(p)
  PROVE  proc'[p].pc \in DestroyPhases \cup {"returned"}
<1>1. proc[p] \in Invocations /\ \A new : Become(p, new) => proc'[p] = new
  BY DEF IInv, ProcSound, Become
<1>2. CASE StopRecorded(p) \/ RemoveRecorded(p) \/ DeleteRecordedVolume(p)
  <2>1. proc[p].pc \in DestroyPhases /\ proc[p].pc \in LoopPhases
    BY <1>2 DEF StopRecorded, RemoveRecorded, DeleteRecordedVolume, DestroyPhases,
                LoopPhases
  <2>2. proc[p].target \in Clusters
    BY <2>1, DestroyContext
  <2> QED
    BY <1>2, <2>2, RecordedPhase DEF Reflect, StopRecorded, RemoveRecorded,
                                     DeleteRecordedVolume, DestroyPhases
<1>3. CASE ListContainers(p) \/ ListVolumes(p) \/ SweepStop(p) \/ SweepRemove(p)
           \/ SweepVolume(p)
  BY <1>3, SweepPhaseNext DEF DestroyPhases
<1>4. CASE Reflect(p)
  <2>1. CASE Fail(p, "reflect")
    BY <2>1, FailEffect
  <2>2. CASE \E x, y : \E phase \in {"listC", "delNet", "stop"} :
               Become(p, [proc[p] EXCEPT !.work = x, !.net = y, !.pc = phase])
    <3>1. PICK x, y, phase : /\ phase \in {"listC", "delNet", "stop"}
                             /\ proc'[p] = [proc[p] EXCEPT !.work = x, !.net = y,
                                                           !.pc = phase]
      BY <1>1, <2>2
    <3>2. proc'[p].pc = phase
      BY <1>1, <3>1 DEF Invocations
    <3> QED
      BY <3>1, <3>2 DEF DestroyPhases
  <2> QED
    BY <1>4, <2>1, <2>2, SweepPhase DEF Reflect
<1>5. CASE DestroyNetwork(p) \/ RemoveStateFiles(p) \/ RemoveStateDir(p)
  <2>1. PICK x, phase : /\ phase \in {"rmRecord", "rmDir", "returned"}
                        /\ proc'[p] = [proc[p] EXCEPT !.pc = phase, !.bad = x]
    BY <1>1, <1>5 DEF DestroyNetwork, RemoveStateFiles, RemoveStateDir
  <2>2. proc'[p].pc = phase
    BY <1>1, <2>1 DEF Invocations
  <2> QED
    BY <2>1, <2>2 DEF DestroyPhases
<1> QED
  BY <1>2, <1>3, <1>4, <1>5 DEF DestroyStep

(* Whoever executes a step of Create or Destroy is running one.              *)
LEMMA WhoActs ==
  ASSUME IInv, NEW q \in Procs
  PROVE  /\ CreateStep(q) => /\ Running(q) /\ proc[q].op = "create"
                             /\ proc[q].target \in Clusters
         /\ DestroyStep(q) => Running(q) /\ proc[q].op = "destroy"
BY CreateKeeps, DestroyKeeps
   DEF IInv, ProcSound, Sound, Running, CreatePhases, DestroyPhases

(* Whom a running invocation meets, and does not know of, it cannot disturb. *)
LEMMA Unmet ==
  ASSUME IInv, Witnesses, NEW q \in Procs, NEW p \in Procs \ {q},
         proc[p].pc # "idle",
         \/ CreateStep(q) /\ "create" \notin proc[p].rivals
         \/ DestroyStep(q) /\ "destroy" \notin proc[p].rivals
  PROVE  /\ proc[q].target # proc[p].target
         /\ proc[q].target # EmptyName /\ proc[p].target # EmptyName
BY WhoActs DEF Witnesses, Witnessed, Meets

(* What a cluster has on the host.                                           *)
BoxesOf(c) == {x \in containers : x.label = c}
DisksOf(c) == {v \in volumes : v.label = c}

LEMMA OwnersOf ==
  ASSUME SanitizedInjective, IInv, NEW d \in Clusters
  PROVE  /\ \A id \in NodeInfos : id.name.cluster = d =>
              \A x \in containers : x.id = id => x.label = d
         /\ \A name : name.owner = Sanitized[d] =>
              \A v \in volumes : v.name = name => v.label = d
<1>1. \A x \in containers : ForeignContainer(x) \/ NodeContainer(x)
  BY DEF IInv, RuntimeSound, ContainersOwned
<1>2. \A v \in volumes : v.label \in Clusters /\ v.name.owner = Sanitized[v.label]
  BY DEF IInv, RuntimeSound, RuntimeTypeOK, VolumesOwned, Volumes
<1> QED
  BY <1>1, <1>2, ProvisionerAssumption
     DEF ForeignContainer, NodeContainer, SanitizedInjective

(* A command given another cluster's container, or volume, does nothing to   *)
(* this one's.                                                               *)
LEMMA StopElsewhere ==
  ASSUME IInv, NEW c, NEW id, \A x \in containers : x.id = id => x.label # c,
         NEW r, NEW err, stop(id, r, err) \/ remove(id, r, err)
  PROVE  BoxesOf(c)' = BoxesOf(c) /\ DisksOf(c)' = DisksOf(c)
<1>1. volumes' = volumes
  BY DEF stop, remove
<1>2. \A x \in containers : x.label = c => x \in containers'
  BY DEF stop, remove
<1>3. \A x \in containers : [x EXCEPT !.running = FALSE].label = x.label
  BY DEF IInv, RuntimeSound, RuntimeTypeOK, Containers
<1>4. \A y \in containers' : y.label = c => y \in containers
  <2>1. CASE stop(id, r, err)
    <3>1. \A y \in containers' :
            y \in containers \/ \E x \in containers : /\ x.id = id
                                                      /\ y = [x EXCEPT !.running = FALSE]
      BY <2>1 DEF stop
    <3> QED
      BY <1>3, <3>1
  <2>2. CASE remove(id, r, err)
    BY <2>2 DEF remove
  <2> QED
    BY <2>1, <2>2
<1> QED
  BY <1>1, <1>2, <1>4 DEF BoxesOf, DisksOf

(* Nor does deleting a volume that carries another label.                    *)
LEMMA DeleteElsewhere ==
  ASSUME NEW c, NEW name, \A v \in volumes : v.name = name => v.label # c,
         NEW r, NEW err, volumeDelete(name, r, err)
  PROVE  BoxesOf(c)' = BoxesOf(c) /\ DisksOf(c)' = DisksOf(c)
BY DEF volumeDelete, BoxesOf, DisksOf

(* Nor making one for another cluster.                                       *)
LEMMA VolumeElsewhere ==
  ASSUME NEW c, NEW name, NEW d, c # d, NEW r, NEW err, volumeCreate(name, d, r, err)
  PROVE  BoxesOf(c)' = BoxesOf(c) /\ DisksOf(c)' = DisksOf(c)
<1>1. containers' = containers /\ volumes \subseteq volumes'
  BY DEF volumeCreate
<1>2. [name |-> name, label |-> d, booted |-> FALSE].label # c
  OBVIOUS
<1>3. \A v \in volumes' : v.label = c => v \in volumes
  BY <1>2 DEF volumeCreate
<1> QED
  BY <1>1, <1>3 DEF BoxesOf, DisksOf

(* Nor launching another cluster's node on volumes of another label.         *)
LEMMA RunElsewhere ==
  ASSUME IInv, NEW c, NEW id, id.name.cluster # c,
         \A v \in volumes : v.name \in nodeVolumeNames(id.name) => v.label # c,
         NEW r, NEW err, runNode(id, r, err)
  PROVE  BoxesOf(c)' = BoxesOf(c) /\ DisksOf(c)' = DisksOf(c)
<1>1. containers \subseteq containers'
  BY DEF runNode
<1>2. [id |-> id, label |-> id.name.cluster, running |-> TRUE].label # c
  OBVIOUS
<1>3. \A x \in containers' : x.label = c => x \in containers
  BY <1>2 DEF runNode
<1>4. \A v \in volumes : [v EXCEPT !.booted = TRUE].label = v.label
  BY DEF IInv, RuntimeSound, RuntimeTypeOK, Volumes
<1>5. \/ volumes' = volumes
      \/ volumes' = {IF v.name \in nodeVolumeNames(id.name)
                       THEN [v EXCEPT !.booted = TRUE] ELSE v : v \in volumes}
  BY DEF runNode
<1>6. \A v \in volumes : v.label = c => v \in volumes'
  BY <1>5
<1>7. ASSUME NEW w \in volumes', w.label = c, volumes' # volumes
      PROVE  w \in volumes
  <2>1. PICK v \in volumes : w = IF v.name \in nodeVolumeNames(id.name)
                                  THEN [v EXCEPT !.booted = TRUE] ELSE v
    BY <1>5, <1>7
  <2> QED
    BY <1>4, <1>7, <2>1
<1> QED
  BY <1>1, <1>3, <1>6, <1>7 DEF BoxesOf, DisksOf

(* Nothing an invocation on one cluster does touches what another one has.   *)
LEMMA Elsewhere ==
  ASSUME SanitizedInjective, IInv, NEW q \in Procs, Acts(q),
         NEW c \in Clusters, proc[q].target # c
  PROVE  BoxesOf(c)' = BoxesOf(c) /\ DisksOf(c)' = DisksOf(c)
<1> DEFINE me == proc[q]
<1>1. CASE StopRecorded(q) \/ RemoveRecorded(q) \/ DeleteRecordedVolume(q)
  <2>1. me.pc \in DestroyPhases /\ me.pc \in LoopPhases
    BY <1>1 DEF StopRecorded, RemoveRecorded, DeleteRecordedVolume, DestroyPhases,
                LoopPhases
  <2>2. /\ me.target \in Clusters
        /\ ThisNode(q) \in NodeInfos /\ ThisNode(q).name.cluster = me.target
        /\ ThisVolume(q).owner = Sanitized[me.target]
    BY <2>1, DestroyContext
  <2>3. CASE StopRecorded(q) \/ RemoveRecorded(q)
    <3>1. PICK r, err : stop(ThisNode(q), r, err) \/ remove(ThisNode(q), r, err)
      BY <2>3 DEF StopRecorded, RemoveRecorded
    <3> QED
      BY <2>2, <3>1, OwnersOf, StopElsewhere
  <2>4. CASE DeleteRecordedVolume(q)
    <3>1. PICK r, err : volumeDelete(ThisVolume(q), r, err)
      BY <2>4 DEF DeleteRecordedVolume
    <3> QED
      BY <2>2, <3>1, OwnersOf, DeleteElsewhere
  <2> QED
    BY <1>1, <2>3, <2>4
<1>2. CASE SweepStop(q) \/ SweepRemove(q)
  <2>1. me.pc \in SweepPhases
    BY <1>2 DEF SweepStop, SweepRemove, SweepPhases
  <2>2. /\ me.target \in Clusters
        /\ \A id \in me.todo \cup me.cur : id \in NodeInfos /\ id.name.cluster = me.target
    BY <2>1 DEF IInv, ProcSound, Sound, OwnContainers
  <2>3. PICK id \in me.todo \cup me.cur : \E r, err : stop(id, r, err) \/ remove(id, r, err)
    BY <1>2 DEF SweepStop, SweepRemove
  <2> QED
    BY <2>2, <2>3, OwnersOf, StopElsewhere
<1>3. CASE SweepVolume(q)
  <2>1. /\ me.target \in Clusters
        /\ \A name \in me.vols : name.owner = Sanitized[me.target]
    BY <1>3 DEF SweepVolume, SweepPhases, IInv, ProcSound, Sound, OwnVolumes
  <2>2. PICK name \in me.vols : \E r, err : volumeDelete(name, r, err)
    BY <1>3 DEF SweepVolume
  <2> QED
    BY <2>1, <2>2, OwnersOf, DeleteElsewhere
<1>4. CASE CreateVolume(q)
  <2>1. PICK r, err : volumeCreate(ThisVolume(q), me.target, r, err)
    BY <1>4 DEF CreateVolume
  <2> QED
    BY <2>1, VolumeElsewhere
<1>5. CASE Launch(q)
  <2>1. PICK r, err : runNode(ThisNode(q), r, err)
    BY <1>5 DEF Launch
  <2>2. /\ ThisNode(q) \in NodeInfos /\ ThisNode(q).name.cluster = me.target
        /\ me.target \in Clusters
    BY <1>5, CreateContext DEF Launch, CreatePhases
  <2>3. \A name \in nodeVolumeNames(ThisNode(q).name) : name.owner = Sanitized[me.target]
    BY <2>2 DEF nodeVolumeNames, nodeVolumeName
  <2>4. \A v \in volumes : v.name \in nodeVolumeNames(ThisNode(q).name) => v.label # c
    BY <2>2, <2>3, OwnersOf
  <2> QED
    BY <2>1, <2>2, <2>4, RunElsewhere
<1>6. CASE UNCHANGED <<containers, volumes>>
  BY <1>6 DEF BoxesOf, DisksOf
<1> QED
  BY <1>1, <1>2, <1>3, <1>4, <1>5, <1>6
     DEF Acts, StartCreate, StartDestroy, Exit, Crash, CreateStep, DestroyStep,
         ValidateClusterRequest, NewStateStat, NewStateMkdir, EnsureNetwork,
         ensureNetwork, CheckDNSDomain, CheckVolume, volumeExists, WaitForIPv4,
         ReconcileConfigs, SaveOpen, SaveWrite, SaveTalosconfig, Reflect,
         ListContainers, ListVolumes, DestroyNetwork, destroyNetwork,
         RemoveStateFiles, RemoveStateDir, runtimeVars

(* A record changes by its own cluster's create; else it is emptied, by a    *)
(* destroy that covers it.                                                   *)
LEMMA RecordElsewhere ==
  ASSUME IInv, NEW q \in Procs, Acts(q), NEW c \in Clusters
  PROVE  \/ yaml'[c] = yaml[c]
         \/ CreateStep(q) /\ Writes(q) /\ proc[q].target = c
         \/ /\ DestroyStep(q) /\ c \in clusterStatePath(proc[q].target)
            /\ yaml'[c] = NoRecord
<1>1. CASE DestroyStep(q)
  <2>1. \/ yaml' = yaml
        \/ yaml' = [d \in Clusters |-> IF d \in clusterStatePath(proc[q].target)
                                         THEN NoRecord ELSE yaml[d]]
    BY <1>1 DEF DestroyStep, Reflect, StopRecorded, RemoveRecorded,
                DeleteRecordedVolume, ListContainers, SweepStop, SweepRemove,
                ListVolumes, SweepVolume, DestroyNetwork, RemoveStateFiles,
                RemoveRecord, RemoveStateDir, RemoveDir, stateVars
  <2> QED
    BY <1>1, <2>1
<1>2. CASE ~DestroyStep(q)
  <2>1. yaml'[c] # yaml[c] => Writes(q) /\ proc[q].target = c
    BY <1>2, WhoWrites
  <2> QED
    BY <2>1 DEF Writes, CreateStep
<1> QED
  BY <1>1, <1>2

-----------------------------------------------------------------------------
(* The invariant is inductive.                                               *)

(* An invocation that ends leaves its slot as it found it.                   *)
LEMMA IdleKept ==
  ASSUME IInv, IdleIsNone, NEW q \in Procs, Acts(q)
  PROVE  IdleIsNone'
<1> SUFFICES ASSUME NEW p \in Procs, proc'[p].pc = "idle"
             PROVE  proc'[p].op = "none"
  BY DEF IdleIsNone
<1>1. CASE p # q
  BY <1>1, OthersSame DEF Same, IdleIsNone
<1>2. CASE p = q
  <2>1. CASE Exit(q) \/ Crash(q)
    <3>1. proc'[q] = Idle
      BY <2>1 DEF Exit, Crash, Become, IInv, ProcSound
    <3> QED
      BY <1>2, <3>1 DEF Idle
  <2>2. CASE Starts(q)
    <3>1. proc'[q].pc \in {"validate", "reflect"}
      BY <2>2, Beginning, BeginEffect DEF BeginsCreate, BeginsDestroy
    <3> QED
      BY <1>2, <3>1
  <2>3. CASE CreateStep(q) \/ DestroyStep(q)
    BY <1>2, <2>3, CreateGoesOn, DestroyGoesOn DEF CreatePhases, DestroyPhases
  <2> QED
    BY <2>1, <2>2, <2>3 DEF Acts, Starts
<1> QED
  BY <1>1, <1>2

(* The requests of a create stay one per node.                               *)
LEMMA DistinctKept ==
  ASSUME IInv, LockInv, NEW q \in Procs, Acts(q), NEW p \in Procs, Distinct(proc[p])
  PROVE  Distinct(proc'[p])
<1>1. CASE p # q
  BY <1>1, OthersSame DEF Same, Distinct
<1>2. CASE p = q
  <2>1. CASE CreateStep(q)
    <3>1. proc'[q].work = proc[q].work /\ proc[q].pc \in CreatePhases
      BY <2>1, CreateKeeps, WayToTheLock DEF LockInv
    <3> QED
      BY <1>2, <3>1 DEF Distinct
  <2>2. CASE DestroyStep(q)
    <3>1. proc'[q].pc \notin CreatePhases
      BY <2>2, DestroyGoesOn DEF CreatePhases, DestroyPhases
    <3> QED
      BY <1>2, <3>1 DEF Distinct
  <2>3. CASE StartCreate(q)
    BY <1>2, <2>3, StartPromises DEF Promises, Prepared, Distinct
  <2>4. CASE StartDestroy(q)
    <3>1. proc'[q].pc = "reflect"
      BY <2>4, Begun
    <3> QED
      BY <1>2, <3>1 DEF Distinct, CreatePhases
  <2>5. CASE Exit(q) \/ Crash(q)
    <3>1. proc'[q] = Idle
      BY <2>5 DEF Exit, Crash, Become, IInv, ProcSound
    <3> QED
      BY <1>2, <3>1 DEF Idle, Distinct, CreatePhases
  <2> QED
    BY <2>1, <2>2, <2>3, <2>4, <2>5 DEF Acts
<1> QED
  BY <1>1, <1>2

(* state.yaml is opened only in a directory that is there, and goes with it. *)
LEMMA RecordsInDirsKept ==
  ASSUME IInv, RecordsInDirs, NEW q \in Procs, Acts(q)
  PROVE  RecordsInDirs'
<1> SUFFICES ASSUME NEW c \in Clusters, yaml'[c].status # "absent"
             PROVE  c \in dirs'
  BY DEF RecordsInDirs
<1>1. yaml'[c] # NoRecord
  BY DEF NoRecord
<1>2. CASE yaml'[c] = yaml[c]
  <2>1. c \in dirs
    BY <1>2 DEF RecordsInDirs
  <2>2. CASE RemoveStateDir(q) /\ dirs' # dirs
    <3>1. /\ dirs' = dirs \ clusterStatePath(proc[q].target)
          /\ yaml' = [d \in Clusters |-> IF d \in clusterStatePath(proc[q].target)
                                           THEN NoRecord ELSE yaml[d]]
      BY <2>2 DEF RemoveStateDir, RemoveDir, stateVars
    <3> QED
      BY <1>1, <2>1, <3>1
  <2>3. CASE ~RemoveStateDir(q)
    <3>1. dirs \subseteq dirs'
      BY <2>3
         DEF Acts, StartCreate, StartDestroy, Exit, Crash, CreateStep, DestroyStep,
             ValidateClusterRequest, NewStateStat, StatDir, NewStateMkdir, MakeDir,
             EnsureNetwork, CheckDNSDomain, CheckVolume, CreateVolume, Launch,
             WaitForIPv4, ReconcileConfigs, SaveOpen, OpenRecord, SaveWrite,
             WriteRecord, SaveTalosconfig, Reflect, StopRecorded, RemoveRecorded,
             DeleteRecordedVolume, ListContainers, SweepStop, SweepRemove,
             ListVolumes, SweepVolume, DestroyNetwork, RemoveStateFiles,
             RemoveRecord, stateVars
    <3> QED
      BY <2>1, <3>1
  <2> QED
    BY <2>1, <2>2, <2>3
<1>3. CASE yaml'[c] # yaml[c]
  <2>1. Writes(q) /\ proc[q].target = c
    BY <1>1, <1>3, RecordElsewhere
  <2>2. c \in dirs
    <3>1. CASE SaveOpen(q)
      <4>1. PICK r, err : OpenRecord(c, r, err)
        BY <2>1, <3>1 DEF SaveOpen
      <4> QED
        BY <1>3, <4>1 DEF OpenRecord
    <3>2. CASE SaveWrite(q)
      <4>1. PICK r, err : WriteRecord(c, proc[q].work, r, err)
        BY <2>1, <3>2 DEF SaveWrite
      <4>2. yaml[c].status # "absent"
        BY <1>3, <4>1 DEF WriteRecord
      <4> QED
        BY <4>2 DEF RecordsInDirs
    <3> QED
      BY <2>1, <3>1, <3>2 DEF Writes
  <2>3. dirs' = dirs
    BY <2>1 DEF Writes, SaveOpen, OpenRecord, SaveWrite, WriteRecord
  <2> QED
    BY <2>2, <2>3
<1> QED
  BY <1>2, <1>3

(* Destroys only take volumes away.                                          *)
LEMMA DestroyBootsNothing ==
  ASSUME NEW q \in Procs, DestroyStep(q)
  PROVE  volumes' \subseteq volumes
BY DEF DestroyStep, Reflect, StopRecorded, stop, RemoveRecorded, remove,
       DeleteRecordedVolume, volumeDelete, ListContainers, SweepStop, SweepRemove,
       ListVolumes, SweepVolume, DestroyNetwork, destroyNetwork, RemoveStateFiles,
       RemoveStateDir, runtimeVars

(* Beside a create nobody but another create of its cluster spoils its       *)
(* volumes or writes its record.                                             *)
LEMMA OthersLeaveUncontested ==
  ASSUME SanitizedInjective, IInv, Witnesses, NEW q \in Procs, NEW p \in Procs \ {q},
         Acts(q), proc[p].pc # "idle",
         Uncontested(proc[p]), Fresh(proc[p]), OwnRecord(proc[p])
  PROVE  Fresh(proc[p])' /\ OwnRecord(proc[p])'
<1>1. Same(proc[p], proc'[p])
  BY OthersSame
<1>2. CreateStep(q) => proc[q].target # proc[p].target
  BY Unmet DEF Uncontested
<1>3. Fresh(proc[p])'
  <2>1. CASE DestroyStep(q)
    <3>1. volumes' \subseteq volumes
      BY <2>1, DestroyBootsNothing
    <3> QED
      BY <1>1, <3>1 DEF Same, Fresh, Unlaunched, VolumeOf
  <2>2. CASE CreateStep(q)
    BY <1>2, <2>2, OthersLeaveFresh, WhoActs
  <2>3. CASE UNCHANGED volumes
    BY <1>1, <2>3 DEF Same, Fresh, Unlaunched, VolumeOf
  <2> QED
    BY <2>1, <2>2, <2>3 DEF Acts, StartCreate, StartDestroy, Exit, Crash, runtimeVars
<1>4. OwnRecord(proc[p])'
  <2> SUFFICES ASSUME proc[p].pc \in Unrecorded \cup {"saveWrite"}
               PROVE  \/ yaml'[proc[p].target] = yaml[proc[p].target]
                      \/ yaml'[proc[p].target].status = "absent"
    BY <1>1 DEF Same, OwnRecord
  <2>1. proc[p].pc \in CreatePhases
    BY DEF Unrecorded, CreatePhases
  <2>2. proc[p].target \in Clusters
    BY <2>1 DEF IInv, ProcSound, Sound
  <2> QED
    BY <1>2, <2>2, RecordElsewhere DEF NoRecord
<1> QED
  BY <1>3, <1>4

(* A create goes on without a record until it opens its own, and writes that *)
(* only once.                                                                *)
LEMMA OwnRecordKept ==
  ASSUME IInv, RecordsInDirs, NEW p \in Procs, CreateStep(p), OwnRecord(proc[p])
  PROVE  OwnRecord(proc[p])'
<1> DEFINE me == proc[p]
           new == proc'[p]
           c == me.target
<1>1. c \in Clusters /\ new.target = c /\ yaml \in [Clusters -> Records]
  BY CreateKeeps, WhoActs DEF Keeps, IInv, StateSound, StateTypeOK
<1>2. CASE \E what : Fail(p, what)
  BY <1>2, FailEffect DEF OwnRecord, Unrecorded
<1>3. CASE ValidateClusterRequest(p) /\ ~\E what : Fail(p, what)
  <2>1. new.pc = "stat"
    BY <1>3, GotoEffect DEF ValidateClusterRequest, At
  <2> QED
    BY <2>1 DEF OwnRecord, Unrecorded
<1>4. CASE NewStateStat(p) /\ ~\E what : Fail(p, what)
  <2>1. c \notin dirs /\ yaml' = yaml
    BY <1>4 DEF NewStateStat, StatDir, stateVars
  <2>2. new.pc = "mkdir"
    BY <1>4, GotoEffect DEF NewStateStat, At
  <2> QED
    BY <1>1, <2>1, <2>2 DEF OwnRecord, RecordsInDirs
<1>5. CASE SaveOpen(p) /\ ~\E what : Fail(p, what)
  <2>1. yaml' = [yaml EXCEPT ![c] = TornRecord] /\ Goto(p, "saveWrite")
    BY <1>5 DEF SaveOpen, OpenRecord
  <2>2. new.pc = "saveWrite" /\ yaml'[c].status = "torn"
    BY <1>1, <2>1, GotoEffect DEF At, TornRecord, NoRecord
  <2> QED
    BY <1>1, <2>2 DEF OwnRecord, Unrecorded
<1>6. CASE SaveWrite(p) \/ SaveTalosconfig(p)
  <2>1. new.pc \in {"talosconfig", "returned"}
    BY <1>6, FailEffect, GotoEffect DEF SaveWrite, SaveTalosconfig, At
  <2> QED
    BY <2>1 DEF OwnRecord, Unrecorded
<1>7. CASE /\ \/ NewStateMkdir(p) \/ EnsureNetwork(p) \/ CheckDNSDomain(p)
              \/ CheckVolume(p) \/ CreateVolume(p) \/ Launch(p) \/ WaitForIPv4(p)
              \/ ReconcileConfigs(p)
           /\ ~\E what : Fail(p, what)
  <2>1. yaml' = yaml /\ me.pc \in Unrecorded
    BY <1>7 DEF NewStateMkdir, MakeDir, EnsureNetwork, CheckDNSDomain, CheckVolume,
                CreateVolume, Launch, WaitForIPv4, ReconcileConfigs, stateVars,
                Unrecorded
  <2>2. new.pc # "saveWrite"
    <3>1. \/ \E phase \in {"network", "dns", "volExists", "volCreate", "address"} :
               Goto(p, phase)
          \/ \E again \in {"launch", "reconcile"}, after \in {"reconcile", "saveOpen"} :
               Become(p, NextNode(me, again, after))
          \/ Become(p, NextVolume(me, "volExists", "volExists", "launch"))
      BY <1>7 DEF NewStateMkdir, EnsureNetwork, CheckDNSDomain, CheckVolume,
                  CreateVolume, Launch, WaitForIPv4, ReconcileConfigs
    <3>2. ASSUME NEW again \in {"launch", "reconcile"},
                 NEW after \in {"reconcile", "saveOpen"},
                 Become(p, NextNode(me, again, after))
          PROVE  new.pc # "saveWrite"
      BY <3>2, NextNodeEffect
    <3> QED
      BY <3>1, <3>2, GotoEffect, CreatedEffect DEF At
  <2> QED
    BY <1>1, <2>1, <2>2 DEF OwnRecord
<1> QED
  BY <1>2, <1>3, <1>4, <1>5, <1>6, <1>7 DEF CreateStep

(* A create beside which nothing ran keeps what it has delivered, as nothing *)
(* on its cluster moves without it.                                          *)
LEMMA OthersLeaveSole ==
  ASSUME SanitizedInjective, IInv, Witnesses, NEW q \in Procs, NEW p \in Procs \ {q},
         Acts(q), proc[p].pc # "idle", Sole(proc[p]), Delivered(p)
  PROVE  Delivered(p)'
<1> DEFINE me == proc[p]
<1>1. Same(me, proc'[p])
  BY OthersSame
<1>2. CASE me.target \notin Clusters
  <2>1. me.pc \notin CreatePhases
    BY <1>2 DEF IInv, ProcSound, Sound
  <2>2. ~(me.pc = "returned" /\ me.op = "create" /\ me.bad = {})
    BY <1>2 DEF Delivered, Recorded
  <2> QED
    BY <1>1, <2>1, <2>2
       DEF Same, Delivered, AllUp, Launched, Recorded, CreatePhases
<1>3. CASE me.target \in Clusters
  <2> PICK c \in Clusters : c = me.target
    BY <1>3
  <2>1. BoxesOf(c)' = BoxesOf(c) /\ DisksOf(c)' = DisksOf(c) /\ yaml'[c] = yaml[c]
    <3>1. CASE CreateStep(q) \/ DestroyStep(q)
      <4>1. proc[q].target # c /\ proc[q].target # EmptyName
        BY <3>1, Unmet DEF Sole
      <4> QED
        BY <1>3, <4>1, Elsewhere, RecordElsewhere DEF clusterStatePath
    <3>2. CASE UNCHANGED <<runtimeVars, stateVars>>
      BY <3>2 DEF BoxesOf, DisksOf, runtimeVars, stateVars
    <3> QED
      BY <3>1, <3>2 DEF Acts, StartCreate, StartDestroy, Exit, Crash
  <2>2. \A node : UpOn(node, c) => UpOn(node, c)'
    <3> SUFFICES ASSUME NEW node, UpOn(node, c)
                 PROVE  UpOn(node, c)'
      OBVIOUS
    <3>1. [id |-> node, label |-> c, running |-> TRUE] \in BoxesOf(c)
      BY DEF UpOn, BoxesOf
    <3>2. \A name \in nodeVolumeNames(node.name) :
            [name |-> name, label |-> c, booted |-> TRUE] \in DisksOf(c)
      BY DEF UpOn, DisksOf
    <3>3. BoxesOf(c)' \subseteq containers' /\ DisksOf(c)' \subseteq volumes'
      BY DEF BoxesOf, DisksOf
    <3> QED
      BY <2>1, <3>1, <3>2, <3>3 DEF UpOn
  <2>3. AllUp(me)'
    BY <1>1, <2>2 DEF Same, Delivered, AllUp, Launched, UpOn
  <2>4. Recorded(me)'
    BY <1>1, <2>1 DEF Same, Delivered, Recorded
  <2> QED
    BY <2>3, <2>4 DEF Delivered
<1> QED
  BY <1>2, <1>3

(* One step of anybody: its own locals by the lemma of its phase, those of   *)
(* the others by what they have not met.                                     *)
LEMMA StepKeepsLedger ==
  ASSUME SanitizedInjective, IInv, LockInv, LedgerInv, NEW q \in Procs, Acts(q)
  PROVE  LedgerInv'
<1>1. IdleIsNone' /\ RecordsInDirs'
  BY IdleKept, RecordsInDirsKept DEF LedgerInv
<1>2. \A p \in Procs : Distinct(proc'[p])
  BY DistinctKept DEF LedgerInv
<1>3. ASSUME NEW p \in Procs, Uncontested(proc'[p])
      PROVE  /\ Fresh(proc[p])' /\ OwnRecord(proc[p])'
             /\ Sole(proc'[p]) => Delivered(p)'
  <2>1. proc'[p].op # "none" /\ proc'[p].pc # "idle"
    BY <1>1, <1>3 DEF Uncontested, IdleIsNone
  <2>2. CASE p # q
    <3>1. Same(proc[p], proc'[p])
      BY <2>2, OthersSame
    <3>2. /\ Uncontested(proc[p]) /\ proc[p].pc # "idle"
          /\ Sole(proc'[p]) => Sole(proc[p])
      BY <1>3, <2>1, <3>1 DEF Same, Uncontested, Sole
    <3>3. /\ Fresh(proc[p]) /\ OwnRecord(proc[p])
          /\ Sole(proc[p]) => Delivered(p)
      BY <3>2 DEF LedgerInv
    <3> QED
      BY <2>2, <3>2, <3>3, OthersLeaveUncontested, OthersLeaveSole DEF LockInv
  <2>3. CASE p = q /\ Starts(q)
    <3>1. CASE StartDestroy(q) /\ ~StartCreate(q)
      <4>1. proc'[q].op = "destroy"
        BY <2>3, <3>1, Beginning, BeginEffect DEF BeginsDestroy
      <4> QED
        BY <1>3, <2>3, <4>1 DEF Uncontested
    <3>2. CASE StartCreate(q)
      <4>1. Promises(q)'
        BY <3>2, StartPromises
      <4>2. proc'[q].pc = "validate"
        BY <2>3, <3>2, Beginning, BeginEffect DEF BeginsCreate
      <4>3. OwnRecord(proc[q])'
        BY <4>2 DEF OwnRecord, Unrecorded
      <4> QED
        BY <2>3, <4>1, <4>3 DEF Promises, Prepared
    <3> QED
      BY <2>3, <3>1, <3>2 DEF Starts
  <2>4. CASE p = q /\ (Exit(q) \/ Crash(q))
    <3>1. proc'[q] = Idle
      BY <2>4 DEF Exit, Crash, Become, IInv, ProcSound
    <3> QED
      BY <2>1, <2>4, <3>1 DEF Idle
  <2>5. CASE p = q /\ DestroyStep(q)
    <3>1. proc'[q].op = "destroy"
      BY <2>5, DestroyKeeps, WhoActs DEF Keeps
    <3> QED
      BY <1>3, <2>5, <3>1 DEF Uncontested
  <2>6. CASE p = q /\ CreateStep(q)
    <3>1. Keeps(proc[q], proc'[q])
      BY <2>6, CreateKeeps
    <3>2. Uncontested(proc[q]) /\ (Sole(proc'[q]) => Sole(proc[q]))
      BY <1>3, <2>6, <3>1 DEF Keeps, Uncontested, Sole
    <3>3. /\ Prepared(q) /\ OwnRecord(proc[q])
          /\ Sole(proc[q]) => Delivered(q)
      BY <3>2 DEF LedgerInv, Prepared
    <3>4. ~StartDestroy(q) /\ ~DestroyStep(q)
      BY <2>6, WhoActs DEF StartDestroy, Running
    <3>5. Prepared(q)' /\ (Delivered(q) => Delivered(q)')
      BY <3>3, <3>4, OwnKeepsPromises DEF LockInv
    <3>6. OwnRecord(proc[q])'
      BY <2>6, <3>3, OwnRecordKept DEF LedgerInv
    <3> QED
      BY <2>6, <3>2, <3>3, <3>5, <3>6 DEF Prepared
  <2> QED
    BY <2>2, <2>3, <2>4, <2>5, <2>6 DEF Acts, Starts
<1>4. \A p \in Procs : Sole(proc'[p]) => Uncontested(proc'[p])
  BY DEF Sole, Uncontested
<1> QED
  BY <1>1, <1>2, <1>3, <1>4 DEF LedgerInv

(* At first nothing runs and nothing is recorded.                            *)
LEMMA LedgerInitially == Init => LedgerInv
<1> SUFFICES ASSUME Init
             PROVE  LedgerInv
  OBVIOUS
<1>1. \A p \in Procs : proc[p] = Idle
  BY DEF Init
<1>2. \A c \in Clusters : yaml[c].status = "absent"
  BY DEF Init, StateInit, NoRecord
<1> QED
  BY <1>1, <1>2 DEF LedgerInv, IdleIsNone, RecordsInDirs, Idle, Distinct, CreatePhases,
                    Uncontested, Sole

(* So every step keeps what creates may count on.                            *)
LEMMA LedgerInductive ==
  ASSUME SanitizedInjective
  PROVE  IInv /\ LockInv /\ LedgerInv /\ [Next]_vars => LedgerInv'
<1> SUFFICES ASSUME IInv, LockInv, LedgerInv, [Next]_vars
             PROVE  LedgerInv'
  OBVIOUS
<1>1. CASE Next
  <2>1. PICK q \in Procs : Acts(q)
    BY <1>1 DEF Next, Acts
  <2> QED
    BY <2>1, StepKeepsLedger
<1>2. CASE UNCHANGED vars
  BY <1>2 DEF vars, runtimeVars, stateVars, LedgerInv, IdleIsNone, RecordsInDirs,
              Distinct, Fresh, OwnRecord, Delivered, AllUp, UpOn, Recorded
<1> QED
  BY <1>1, <1>2

(* Whatever else runs, fails or is killed, a create counts on what nobody    *)
(* that ran beside it could have spoiled: no other create, its volumes are   *)
(* fresh and the record is its own; nothing at all, its nodes are up         *)
(* (create.go:41-122).                                                       *)
THEOREM CountedOn ==
  ASSUME SanitizedInjective
  PROVE  Spec => []LedgerInv
BY LedgerInitially, LedgerInductive, LockHeld, Ownership, PTL DEF Spec

-----------------------------------------------------------------------------
(* What an invocation's step is to the ledger's callers.                     *)

(* The mapping's values, by name.                                            *)
Statuses(c) == [p \in Procs |-> StatusOn(p, c)]
Promising(c) == {p \in Procs : proc[p].target = c /\ Running(p) /\ Alone(p)}
HeldOf(c) == containersMatchingLabel(c) \cup volumesMatchingLabel(c)

(* How an invocation stands on a cluster, from its locals alone.             *)
Busy(me) == me.pc \notin {"idle", "returned"}
Faultless(me) == me.badC = {} /\ me.badV = {} /\ me.bad = {}

StandsOn(me, c) ==
  IF me.op = "none" \/ me.target \notin {c, EmptyName} THEN "away"
  ELSE IF Busy(me)
         THEN IF me.op = "create" THEN "creating"
              ELSE IF me.target = EmptyName THEN "erasing" ELSE "destroying"
         ELSE IF me.pc = "idle" \/ ~Faultless(me) THEN "failed"
              ELSE IF me.op = "create" THEN "created" ELSE "destroyed"

(* Where an invocation stands depends on its own locals only.                *)
LEMMA Standing ==
  ASSUME NEW p \in Procs, NEW c
  PROVE  /\ StatusOn(p, c) = StandsOn(proc[p], c)
         /\ StatusOn(p, c)' = StandsOn(proc'[p], c)
BY DEF StatusOn, StandsOn, OnCluster, Running, Busy, Returned, Succeeded, Faultless

(* Only a start enters the history of others.                                *)
LEMMA OthersUntouched ==
  ASSUME IInv, NEW q \in Procs, NEW p \in Procs \ {q}, Acts(q), ~Starts(q)
  PROVE  proc'[p] = proc[p]
<1>1. CASE CreateStep(q) \/ DestroyStep(q)
  <2>1. \E me : Become(q, me)
    BY <1>1
       DEF CreateStep, DestroyStep, ValidateClusterRequest, NewStateStat,
           NewStateMkdir, EnsureNetwork, CheckDNSDomain, CheckVolume, CreateVolume,
           Launch, WaitForIPv4, ReconcileConfigs, SaveOpen, SaveWrite,
           SaveTalosconfig, Reflect, StopRecorded, RemoveRecorded,
           DeleteRecordedVolume, ListContainers, SweepStop, SweepRemove,
           ListVolumes, SweepVolume, DestroyNetwork, RemoveStateFiles,
           RemoveStateDir, Fail, Goto
  <2> QED
    BY <2>1 DEF Become, IInv, ProcSound
<1>2. CASE Exit(q) \/ Crash(q)
  BY <1>2 DEF Exit, Crash, Become, IInv, ProcSound
<1> QED
  BY <1>1, <1>2 DEF Acts, Starts

(* Where the others stand does not change.                                   *)
LEMMA OthersStand ==
  ASSUME IInv, NEW q \in Procs, NEW p \in Procs \ {q}, Acts(q), NEW c
  PROVE  StatusOn(p, c)' = StatusOn(p, c)
BY OthersSameSweep, Standing DEF SameSweep, StandsOn, Busy, Faultless

(* A step changes the status of the one who takes it.                        *)
LEMMA StatusStep ==
  ASSUME IInv, NEW q \in Procs, Acts(q), NEW c, NEW word,
         StatusOn(q, c)' = word
  PROVE  Statuses(c)' = [Statuses(c) EXCEPT ![q] = word]
BY OthersStand DEF Statuses

(* Or of nobody.                                                             *)
LEMMA StatusStays ==
  ASSUME IInv, NEW q \in Procs, Acts(q), NEW c, StatusOn(q, c)' = StatusOn(q, c)
  PROVE  Statuses(c)' = Statuses(c)
BY OthersStand DEF Statuses

(* A step that starts nothing can at most end its own promise.               *)
LEMMA PromisingStep ==
  ASSUME IInv, NEW q \in Procs, Acts(q), ~Starts(q), NEW c
  PROVE  Promising(c)' \ {q} = Promising(c) \ {q}
<1>1. ASSUME NEW p \in Procs \ {q}
      PROVE  p \in Promising(c)' <=> p \in Promising(c)
  <2>1. proc'[p] = proc[p]
    BY OthersUntouched
  <2> QED
    BY <2>1 DEF Promising, Running, Alone
<1>2. Promising(c) \subseteq Procs /\ Promising(c)' \subseteq Procs
  BY DEF Promising
<1> QED
  BY <1>1, <1>2

(* What the ledger keeps of a cluster follows from what it has and its       *)
(* record.                                                                   *)
LEMMA KeptTogether ==
  ASSUME NEW c
  PROVE  /\ BoxesOf(c)' = BoxesOf(c) /\ DisksOf(c)' = DisksOf(c) => HeldOf(c)' = HeldOf(c)
         /\ yaml'[c] = yaml[c] => RecordedOf(c)' = RecordedOf(c)
         /\ yaml'[c].nodes = <<>> => RecordedOf(c)' = {}
<1>1. /\ containersMatchingLabel(c) = {x.id : x \in BoxesOf(c)}
      /\ containersMatchingLabel(c)' = {x.id : x \in BoxesOf(c)'}
      /\ volumesMatchingLabel(c) = {v.name : v \in DisksOf(c)}
      /\ volumesMatchingLabel(c)' = {v.name : v \in DisksOf(c)'}
  BY DEF containersMatchingLabel, volumesMatchingLabel, BoxesOf, DisksOf
<1>2. yaml'[c] = yaml[c] => RecordedOf(c)' = RecordedOf(c)
  BY DEF RecordedOf
<1>3. ASSUME yaml'[c].nodes = <<>>
      PROVE  RecordedOf(c)' = {}
  BY <1>3 DEF RecordedOf
<1> QED
  BY <1>1, <1>2, <1>3 DEF HeldOf

(* The steps of the ledger, in the mapping's words.                          *)
LEMMA LedgerWords ==
  ASSUME NEW c
  PROVE  /\ Of(c)!Same <=> /\ HeldOf(c)' = HeldOf(c)
                           /\ yaml'[c].status = yaml[c].status
                           /\ RecordedOf(c)' = RecordedOf(c)
         /\ Of(c)!GoOn <=> Statuses(c)' = Statuses(c) /\ Promising(c)' = Promising(c)
         /\ \A q, word : Of(c)!Report(q, word) <=>
              /\ Statuses(c)' = [Statuses(c) EXCEPT ![q] = word]
              /\ Promising(c)' = Promising(c) \ {q}
<1> QED
  BY DEF Of!Same, Of!GoOn, Of!Report, HeldOf, Statuses, Promising

(* What becomes of its things, the record unchanged, and of its record, its  *)
(* things unchanged.                                                         *)
LEMMA LedgerThings ==
  ASSUME NEW c, yaml'[c] = yaml[c]
  PROVE  /\ HeldOf(c)' = HeldOf(c) => Of(c)!Same
         /\ \A x : HeldOf(c)' = HeldOf(c) \cup {x} => Of(c)!Acquire
         /\ \A x \in HeldOf(c) : HeldOf(c)' = HeldOf(c) \ {x} => Of(c)!Release
<1>1. yaml'[c].status = yaml[c].status /\ RecordedOf(c)' = RecordedOf(c)
  BY KeptTogether
<1>2. HeldOf(c)' = HeldOf(c) => Of(c)!Same
  BY <1>1, LedgerWords
<1>3. ASSUME NEW x, HeldOf(c)' = HeldOf(c) \cup {x}
      PROVE  Of(c)!Acquire
  <2>1. x \in HeldOf(c)'
    BY <1>3
  <2> QED
    BY <1>1, <1>3, <2>1 DEF Of!Acquire, HeldOf
<1>4. ASSUME NEW x \in HeldOf(c), HeldOf(c)' = HeldOf(c) \ {x}
      PROVE  Of(c)!Release
  BY <1>1, <1>4 DEF Of!Release, HeldOf
<1> QED
  BY <1>2, <1>3, <1>4

(* What a change of the record is to the ledger, if it takes nothing along.  *)
LEMMA LedgerRecord ==
  ASSUME NEW c, HeldOf(c)' = HeldOf(c)
  PROVE  /\ yaml'[c] = NoRecord => Of(c)!Erase
         /\ yaml'[c] = TornRecord => Of(c)!Write
         /\ yaml[c].status # "absent" /\ yaml'[c].status = "saved" => Of(c)!Write
<1>1. /\ NoRecord.status = "absent" /\ NoRecord.nodes = <<>>
      /\ TornRecord.status = "torn" /\ TornRecord.nodes = <<>>
  BY DEF NoRecord, TornRecord
<1>2. yaml'[c].nodes = <<>> => RecordedOf(c)' = {}
  BY KeptTogether
<1>3. yaml'[c] = NoRecord => Of(c)!Erase
  BY <1>1, <1>2 DEF Of!Erase, HeldOf
<1>4. yaml'[c] = TornRecord => Of(c)!Write
  BY <1>1, <1>2 DEF Of!Write, HeldOf
<1>5. yaml[c].status # "absent" /\ yaml'[c].status = "saved" => Of(c)!Write
  BY DEF Of!Write, HeldOf
<1> QED
  BY <1>3, <1>4, <1>5

(* What leaves the mapped values alone is a stutter of the ledger.           *)
LEMMA Stutters ==
  ASSUME NEW c, Statuses(c)' = Statuses(c), Promising(c)' = Promising(c),
         HeldOf(c)' = HeldOf(c), yaml'[c] = yaml[c]
  PROVE  UNCHANGED Of(c)!ledgerVars
BY KeptTogether DEF Of!ledgerVars, Statuses, Promising, HeldOf

(* Who runs, runs something.                                                 *)
LEMMA RunningSomething ==
  ASSUME IInv, NEW p \in Procs, Running(p)
  PROVE  /\ proc[p].op = "create" => proc[p].target \in Clusters
         /\ proc[p].op \in {"create", "destroy"}
         /\ proc[p].target \in Clusters \cup {EmptyName}
BY DEF IInv, ProcSound, Sound, Running, Invocations

(* Who ends, or is killed, leaves.                                           *)
LEMMA EndsInLedger ==
  ASSUME IInv, NEW c \in Clusters, NEW q \in Procs, Exit(q) \/ Crash(q)
  PROVE  Of(c)!Leave(q) \/ UNCHANGED Of(c)!ledgerVars
<1>1. Acts(q) /\ ~Starts(q) /\ proc'[q] = Idle
  BY DEF Acts, Starts, Exit, Crash, StartCreate, StartDestroy, Running, Become, IInv,
         ProcSound
<1>2. Statuses(c)' = [Statuses(c) EXCEPT ![q] = "away"]
  <2>1. StatusOn(q, c)' = "away"
    BY <1>1, Standing DEF StandsOn, Idle
  <2> QED
    BY <1>1, <2>1, StatusStep
<1>3. Promising(c)' = Promising(c) \ {q}
  <2>1. q \notin Promising(c)'
    BY <1>1 DEF Promising, Running, Idle
  <2> QED
    BY <1>1, <2>1, PromisingStep
<1>4. HeldOf(c)' = HeldOf(c) /\ yaml'[c] = yaml[c]
  BY KeptTogether DEF Exit, Crash, runtimeVars, stateVars, BoxesOf, DisksOf
<1>5. CASE StatusOn(q, c) # "away"
  <2>1. Of(c)!Same /\ Of(c)!Report(q, "away")
    BY <1>2, <1>3, <1>4, LedgerWords, KeptTogether
  <2> QED
    BY <1>5, <2>1 DEF Of!Leave
<1>6. CASE StatusOn(q, c) = "away"
  <2>1. Statuses(c)' = Statuses(c)
    BY <1>2, <1>6 DEF Statuses
  <2>2. q \notin Promising(c)
    BY <1>6, Standing, RunningSomething DEF Promising, StandsOn, Running, Busy
  <2> QED
    BY <1>3, <1>4, <2>1, <2>2, Stutters
<1> QED
  BY <1>5, <1>6

(* A step on another cluster is none in this one's ledger.                   *)
LEMMA ElsewhereInLedger ==
  ASSUME SanitizedInjective, IInv, NEW c \in Clusters, NEW q \in Procs,
         CreateStep(q) \/ DestroyStep(q), proc[q].target \notin {c, EmptyName}
  PROVE  UNCHANGED Of(c)!ledgerVars
<1>1. Acts(q) /\ ~Starts(q)
  BY WhoActs DEF Acts, Starts, StartCreate, StartDestroy, Running
<1>2. Keeps(proc[q], proc'[q])
  BY CreateKeeps, DestroyKeeps
<1>3. StatusOn(q, c) = "away" /\ StatusOn(q, c)' = "away"
  BY <1>2, Standing DEF Keeps, StandsOn
<1>4. Statuses(c)' = Statuses(c)
  BY <1>1, <1>3, StatusStays
<1>5. q \notin Promising(c) /\ q \notin Promising(c)'
  BY <1>2 DEF Keeps, Promising
<1>6. Promising(c)' = Promising(c)
  BY <1>1, <1>5, PromisingStep
<1>7. HeldOf(c)' = HeldOf(c)
  BY <1>1, Elsewhere, KeptTogether
<1>8. yaml'[c] = yaml[c]
  BY <1>1, RecordElsewhere DEF clusterStatePath
<1> QED
  BY <1>4, <1>6, <1>7, <1>8, Stutters

(* Who creates and who destroys in the ledger of a cluster.                  *)
LEMMA Doing ==
  ASSUME IInv, NEW c \in Clusters
  PROVE  /\ \A p : p \in Of(c)!Creating <=>
              p \in Procs /\ Running(p) /\ proc[p].op = "create" /\ proc[p].target = c
         /\ \A p : p \in Of(c)!Destroying <=>
              /\ p \in Procs /\ Running(p) /\ proc[p].op = "destroy"
              /\ proc[p].target \in {c, EmptyName}
<1>1. ASSUME NEW p \in Procs
      PROVE  /\ StatusOn(p, c) = "creating" <=>
                  Running(p) /\ proc[p].op = "create" /\ proc[p].target = c
             /\ StatusOn(p, c) \in {"destroying", "erasing"} <=>
                  /\ Running(p) /\ proc[p].op = "destroy"
                  /\ proc[p].target \in {c, EmptyName}
  <2>1. CASE ~Running(p)
    BY <2>1, Standing DEF StandsOn, Busy, Running
  <2>2. CASE Running(p)
    BY <2>2, Standing, RunningSomething, IdentityAssumption DEF StandsOn, Busy, Running
  <2> QED
    BY <2>1, <2>2
<1> QED
  BY <1>1 DEF Of!Creating, Of!Destroying

(* Who starts, starts on its cluster, and what others promised is kept or    *)
(* ended as the ledger has it.                                               *)
LEMMA StartsInLedger ==
  ASSUME IInv, IdleIsNone, NEW c \in Clusters, NEW q \in Procs, Starts(q)
  PROVE  \/ Of(c)!BeginCreate(q) \/ Of(c)!BeginDestroy(q) \/ Of(c)!BeginEraseAll(q)
         \/ UNCHANGED Of(c)!ledgerVars
<1>1. /\ Acts(q) /\ proc[q].pc = "idle" /\ UNCHANGED <<runtimeVars, stateVars>>
      /\ c # EmptyName /\ proc \in [Procs -> Invocations]
  BY IdentityAssumption
     DEF Starts, Acts, StartCreate, StartDestroy, IInv, ProcSound
<1>2. PICK me \in Invocations :
        /\ Begin(q, me)
        /\ StartCreate(q) => BeginsCreate(me)
        /\ ~StartCreate(q) => BeginsDestroy(me)
  BY Beginning
<1>3. /\ me.op \in {"create", "destroy"} /\ me.target \in Clusters \cup {EmptyName}
      /\ me.op = "create" => me.target \in Clusters
      /\ me.pc \in {"validate", "reflect"}
  BY <1>2 DEF BeginsCreate, BeginsDestroy
<1>4. /\ proc'[q].op = me.op /\ proc'[q].target = me.target /\ proc'[q].pc = me.pc
      /\ proc'[q].rivals = Met(q, me)
  BY <1>2, BeginEffect
<1>5. ASSUME NEW p \in Procs \ {q}
      PROVE  /\ proc'[p].op = proc[p].op /\ proc'[p].target = proc[p].target
             /\ proc'[p].pc = proc[p].pc
             /\ proc'[p].rivals =
                  IF proc[p].pc # "idle" /\ Meets(proc[p].target, me.target)
                    THEN proc[p].rivals \cup {me.op} ELSE proc[p].rivals
  BY <1>1, <1>2, OthersSame, BeginEffect, ZenonT(60) DEF Same
<1>6. StatusOn(q, c) = "away" /\ q \notin Promising(c)
  BY <1>1, Standing DEF StandsOn, IdleIsNone, Promising, Running
<1>7. HeldOf(c)' = HeldOf(c) /\ yaml'[c] = yaml[c]
  BY <1>1, KeptTogether DEF runtimeVars, stateVars, BoxesOf, DisksOf
<1>8. Of(c)!Same
  BY <1>7, LedgerWords, KeptTogether
<1>9. ASSUME NEW word, StatusOn(q, c)' = word
      PROVE  Of(c)!Begin(q, word)
  <2>1. Statuses(c)' = [Statuses(c) EXCEPT ![q] = word]
    BY <1>1, <1>9, StatusStep
  <2> QED
    BY <1>6, <1>8, <2>1 DEF Of!Begin, Statuses
<1>10. CASE me.target \notin {c, EmptyName}
  <2>1. StatusOn(q, c)' = "away"
    BY <1>4, <1>10, Standing DEF StandsOn
  <2>2. Statuses(c)' = Statuses(c)
    BY <1>1, <1>6, <2>1, StatusStays
  <2>3. \A p \in Procs \ {q} : p \in Promising(c)' <=> p \in Promising(c)
    BY <1>1, <1>5, <1>10 DEF Promising, Meets, Running, Alone
  <2>4. q \notin Promising(c)'
    BY <1>4, <1>10 DEF Promising
  <2>5. Promising(c)' = Promising(c)
    BY <1>6, <2>3, <2>4 DEF Promising
  <2> QED
    BY <1>7, <2>2, <2>5, Stutters
<1>11. CASE me.op = "create" /\ me.target = c
  <2>1. StatusOn(q, c)' = "creating"
    BY <1>3, <1>4, <1>11, Standing DEF StandsOn, Busy
  <2>2. \A p \in Procs \ {q} : p \notin Promising(c)'
    BY <1>1, <1>5, <1>11 DEF Promising, Meets, Running, Alone
  <2>3. q \in Promising(c)' <=> Met(q, me) = {}
    BY <1>3, <1>4, <1>11 DEF Promising, Running, Alone
  <2>4. Met(q, me) = {} <=> Of(c)!Creating \cup Of(c)!Destroying = {}
    <3>1. Met(q, me) = {} <=>
            \A p \in Procs \ {q} : ~(Running(p) /\ Meets(proc[p].target, c))
      BY <1>11 DEF Met
    <3>2. ~Running(q)
      BY <1>1 DEF Running
    <3>3. ASSUME NEW p \in Procs
          PROVE  Running(p) /\ Meets(proc[p].target, c) <=>
                   p \in Of(c)!Creating \cup Of(c)!Destroying
      <4>1. Running(p) => /\ proc[p].op \in {"create", "destroy"}
                          /\ proc[p].op = "create" => proc[p].target # EmptyName
        BY RunningSomething, IdentityAssumption
      <4>2. Meets(proc[p].target, c) <=> proc[p].target \in {c, EmptyName}
        BY <1>1 DEF Meets
      <4> QED
        BY <4>1, <4>2, Doing
    <3>4. Of(c)!Creating \cup Of(c)!Destroying \subseteq Procs
      BY Doing
    <3> QED
      BY <3>1, <3>2, <3>3, <3>4
  <2>5. Promising(c)' = IF Of(c)!Creating \cup Of(c)!Destroying = {} THEN {q} ELSE {}
    <3>1. Promising(c)' \subseteq Procs
      BY DEF Promising
    <3> QED
      BY <2>2, <2>3, <2>4, <3>1
  <2> QED
    BY <1>9, <2>1, <2>5 DEF Of!BeginCreate, Promising
<1>12. CASE me.op = "destroy" /\ me.target \in {c, EmptyName}
  <2>1. \A p \in Procs \ {q} :
          p \in Promising(c)' <=> p \in Promising(c) \ Of(c)!Creating
    <3> SUFFICES ASSUME NEW p \in Procs \ {q}
                 PROVE  p \in Promising(c)' <=> p \in Promising(c) \ Of(c)!Creating
      OBVIOUS
    <3>1. CASE ~(Running(p) /\ proc[p].target = c)
      BY <1>5, <3>1 DEF Promising, Running
    <3>2. CASE Running(p) /\ proc[p].target = c
      <4>1. proc'[p].rivals = proc[p].rivals \cup {"destroy"}
        BY <1>1, <1>5, <1>12, <3>2 DEF Meets, Running
      <4>2. p \in Of(c)!Creating <=> proc[p].op = "create"
        BY <3>2, Doing
      <4>3. p \in Promising(c)' <=> proc[p].op # "create" /\ proc[p].rivals \subseteq {"destroy"}
        BY <1>5, <3>2, <4>1 DEF Promising, Running, Alone
      <4>4. p \in Promising(c) <=> Alone(p)
        BY <3>2 DEF Promising
      <4> QED
        BY <4>2, <4>3, <4>4 DEF Alone
    <3> QED
      BY <3>1, <3>2
  <2>2. Promising(c) \subseteq Procs /\ Promising(c)' \subseteq Procs
    BY DEF Promising
  <2>3. CASE me.target = EmptyName
    <3>1. StatusOn(q, c)' = "erasing"
      BY <1>3, <1>4, <1>12, <2>3, Standing DEF StandsOn, Busy
    <3>2. q \notin Promising(c)'
      BY <1>1, <1>4, <2>3 DEF Promising
    <3>3. Promising(c)' = Promising(c) \ Of(c)!Creating
      BY <1>6, <2>1, <2>2, <3>2
    <3> QED
      BY <1>9, <3>1, <3>3 DEF Of!BeginEraseAll, Promising
  <2>4. CASE me.target = c
    <3>1. StatusOn(q, c)' = "destroying"
      BY <1>1, <1>3, <1>4, <1>12, <2>4, Standing DEF StandsOn, Busy
    <3>2. q \in Promising(c)' <=> Met(q, me) \subseteq {"destroy"}
      BY <1>3, <1>4, <1>12, <2>4 DEF Promising, Running, Alone
    <3>3. Met(q, me) \subseteq {"destroy"} <=> Of(c)!Creating = {}
      <4>1. Met(q, me) \subseteq {"destroy"} <=>
              \A p \in Procs \ {q} :
                Running(p) /\ Meets(proc[p].target, c) => proc[p].op = "destroy"
        BY <2>4 DEF Met
      <4>2. ~Running(q)
        BY <1>1 DEF Running
      <4>3. ASSUME NEW p \in Procs
            PROVE  /\ Running(p) /\ Meets(proc[p].target, c)
                   /\ proc[p].op # "destroy"
                   <=> p \in Of(c)!Creating
        <5>1. Running(p) => /\ proc[p].op \in {"create", "destroy"}
                            /\ proc[p].op = "create" => proc[p].target # EmptyName
          BY RunningSomething, IdentityAssumption
        <5>2. Meets(proc[p].target, c) <=> proc[p].target \in {c, EmptyName}
          BY <1>1 DEF Meets
        <5> QED
          BY <5>1, <5>2, Doing
      <4>4. Of(c)!Creating \subseteq Procs
        BY Doing
      <4> QED
        BY <4>1, <4>2, <4>3, <4>4
    <3>4. Promising(c)' = (Promising(c) \ Of(c)!Creating)
                            \cup (IF Of(c)!Creating = {} THEN {q} ELSE {})
      BY <1>6, <2>1, <2>2, <3>2, <3>3
    <3> QED
      BY <1>9, <3>1, <3>4 DEF Of!BeginDestroy, Promising
  <2> QED
    BY <1>12, <2>3, <2>4
<1> QED
  BY <1>3, <1>10, <1>11, <1>12, IdentityAssumption

-----------------------------------------------------------------------------
(* What a step is to the cluster's things and record.                        *)

(* A create of the cluster adds a container or a volume to it, or writes its *)
(* record.                                                                   *)
LEMMA Fills ==
  ASSUME IInv, NEW c \in Clusters, NEW q \in Procs, CreateStep(q), proc[q].target = c
  PROVE  Of(c)!Same \/ Of(c)!Acquire \/ Of(c)!Write
<1> DEFINE me == proc[q]
<1>1. yaml \in [Clusters -> Records]
  BY DEF IInv, StateSound, StateTypeOK
<1>2. CASE CreateVolume(q)
  <2>1. PICK r, err : volumeCreate(ThisVolume(q), c, r, err)
    BY <1>2 DEF CreateVolume
  <2>2. containers' = containers /\ yaml' = yaml
    BY <1>2, <2>1 DEF CreateVolume, volumeCreate, stateVars
  <2>3. CASE volumes' = volumes
    <3>1. HeldOf(c)' = HeldOf(c)
      BY <2>2, <2>3, KeptTogether DEF BoxesOf, DisksOf
    <3> QED
      BY <2>2, <3>1, LedgerThings
  <2>4. CASE volumes' # volumes
    <3> DEFINE w == [name |-> ThisVolume(q), label |-> c, booted |-> FALSE]
    <3>1. volumes' = volumes \cup {w} /\ w.name = ThisVolume(q) /\ w.label = c
      BY <2>1, <2>4 DEF volumeCreate
    <3> HIDE DEF w
    <3>2. volumesMatchingLabel(c)' = volumesMatchingLabel(c) \cup {ThisVolume(q)}
      BY <3>1, Listed
    <3>3. containersMatchingLabel(c)' = containersMatchingLabel(c)
      BY <2>2 DEF containersMatchingLabel
    <3>4. HeldOf(c)' = HeldOf(c) \cup {ThisVolume(q)}
      BY <3>2, <3>3 DEF HeldOf
    <3> QED
      BY <2>2, <3>4, LedgerThings
  <2> QED
    BY <2>3, <2>4
<1>3. CASE Launch(q)
  <2>1. PICK r, err : runNode(ThisNode(q), r, err)
    BY <1>3 DEF Launch
  <2>2. ThisNode(q).name.cluster = c /\ yaml' = yaml
    BY <1>3, CreateContext DEF Launch, CreatePhases, stateVars
  <2>3. CASE UNCHANGED <<containers, volumes>>
    <3>1. HeldOf(c)' = HeldOf(c)
      BY <2>3, KeptTogether DEF BoxesOf, DisksOf
    <3> QED
      BY <2>2, <3>1, LedgerThings
  <2>4. CASE ~UNCHANGED <<containers, volumes>>
    <3> DEFINE x == [id |-> ThisNode(q), label |-> c, running |-> TRUE]
               names == nodeVolumeNames(ThisNode(q).name)
    <3>1. /\ containers' = containers \cup {x} /\ x.id = ThisNode(q) /\ x.label = c
          /\ volumes' = {IF v.name \in names THEN [v EXCEPT !.booted = TRUE] ELSE v :
                           v \in volumes}
      BY <2>1, <2>2, <2>4 DEF runNode
    <3>2. \A v \in volumes : /\ [v EXCEPT !.booted = TRUE].name = v.name
                             /\ [v EXCEPT !.booted = TRUE].label = v.label
      BY DEF IInv, RuntimeSound, RuntimeTypeOK, Volumes
    <3> HIDE DEF x, names
    <3>3. containersMatchingLabel(c)' = containersMatchingLabel(c) \cup {ThisNode(q)}
      BY <3>1, Listed
    <3>4. \A name : (\E w \in volumes' : w.name = name /\ w.label = c) <=>
                      \E v \in volumes : v.name = name /\ v.label = c
      <4>1. \A w \in volumes' : \E v \in volumes : w.name = v.name /\ w.label = v.label
        BY <3>1, <3>2
      <4>2. \A v \in volumes : \E w \in volumes' : w.name = v.name /\ w.label = v.label
        BY <3>1, <3>2
      <4> QED
        BY <4>1, <4>2
    <3>5. volumesMatchingLabel(c)' = volumesMatchingLabel(c)
      <4>1. \A name : name \in (volumesMatchingLabel(c))' <=> name \in volumesMatchingLabel(c)
        BY <3>4, Listed
      <4> QED
        BY <4>1 DEF volumesMatchingLabel
    <3>6. HeldOf(c)' = HeldOf(c) \cup {ThisNode(q)}
      BY <3>3, <3>5 DEF HeldOf
    <3> QED
      BY <2>2, <3>6, LedgerThings
  <2> QED
    BY <2>3, <2>4
<1>4. CASE Writes(q)
  <2>1. HeldOf(c)' = HeldOf(c)
    BY <1>4, KeptTogether DEF Writes, SaveOpen, SaveWrite, runtimeVars, BoxesOf, DisksOf
  <2>2. CASE yaml'[c] = yaml[c]
    BY <2>1, <2>2, LedgerThings
  <2>3. CASE yaml'[c] # yaml[c] /\ SaveOpen(q)
    <3>1. PICK r, err : OpenRecord(c, r, err)
      BY <2>3 DEF SaveOpen
    <3>2. yaml'[c] = TornRecord
      BY <1>1, <2>3, <3>1 DEF OpenRecord
    <3> QED
      BY <2>1, <3>2, LedgerRecord
  <2>4. CASE yaml'[c] # yaml[c] /\ SaveWrite(q)
    <3>1. PICK r, err : WriteRecord(c, me.work, r, err)
      BY <2>4 DEF SaveWrite
    <3>2. yaml[c].status # "absent" /\ yaml'[c].status = "saved"
      BY <1>1, <2>4, <3>1 DEF WriteRecord
    <3> QED
      BY <2>1, <3>2, LedgerRecord
  <2> QED
    BY <1>4, <2>2, <2>3, <2>4 DEF Writes
<1>5. CASE ~(CreateVolume(q) \/ Launch(q) \/ Writes(q))
  <2>1. UNCHANGED <<containers, volumes, yaml>>
    BY <1>5
       DEF CreateStep, Writes, ValidateClusterRequest, NewStateStat, StatDir,
           NewStateMkdir, MakeDir, EnsureNetwork, ensureNetwork, CheckDNSDomain,
           CheckVolume, volumeExists, WaitForIPv4, ReconcileConfigs,
           SaveTalosconfig, runtimeVars, stateVars
  <2>2. HeldOf(c)' = HeldOf(c)
    BY <2>1, KeptTogether DEF BoxesOf, DisksOf
  <2> QED
    BY <2>1, <2>2, LedgerThings
<1> QED
  BY <1>2, <1>3, <1>4, <1>5

(* Stopping a container takes nothing from what is held.                     *)
LEMMA StopHolds ==
  ASSUME IInv, NEW c, NEW id, NEW r, NEW err, stop(id, r, err)
  PROVE  HeldOf(c)' = HeldOf(c)
<1>1. volumes' = volumes
  BY DEF stop
<1>2. \A y \in containers' : \E x \in containers : y.id = x.id /\ y.label = x.label
  BY StopKeepsLabels
<1>3. \A x \in containers : \E y \in containers' : y.id = x.id /\ y.label = x.label
  <2>1. \A x \in containers : /\ [x EXCEPT !.running = FALSE].id = x.id
                              /\ [x EXCEPT !.running = FALSE].label = x.label
    BY DEF IInv, RuntimeSound, RuntimeTypeOK, Containers
  <2>2. \A x \in containers : x \in containers' \/ [x EXCEPT !.running = FALSE] \in containers'
    BY DEF stop
  <2> QED
    BY <2>1, <2>2
<1>4. \A x : x \in (containersMatchingLabel(c))' <=> x \in containersMatchingLabel(c)
  BY <1>2, <1>3, Listed
<1>5. (containersMatchingLabel(c))' = containersMatchingLabel(c)
  BY <1>4 DEF containersMatchingLabel
<1>6. (volumesMatchingLabel(c))' = volumesMatchingLabel(c)
  BY <1>1 DEF volumesMatchingLabel
<1> QED
  BY <1>5, <1>6 DEF HeldOf

(* A node is no volume.                                                      *)
LEMMA NodesAreNoVolumes == \A id \in NodeInfos : id \notin VolumeNames
<1> SUFFICES ASSUME NEW id \in NodeInfos, id \in VolumeNames
             PROVE  FALSE
  OBVIOUS
<1>1. DOMAIN id = {"name", "domain"}
  BY DEF NodeInfos
<1>2. DOMAIN id = {"owner", "role", "index", "kind"}
  BY DEF VolumeNames
<1> QED
  BY <1>1, <1>2

(* Removing a container takes at most that container from what is held.      *)
LEMMA RemoveHolds ==
  ASSUME IInv, NEW c, NEW id \in NodeInfos, NEW r, NEW err, remove(id, r, err)
  PROVE  HeldOf(c)' \in {HeldOf(c), HeldOf(c) \ {id}}
<1>1. volumes' = volumes /\ containers' \in {containers, {x \in containers : x.id # id}}
  BY DEF remove
<1>2. (volumesMatchingLabel(c))' = volumesMatchingLabel(c)
  BY <1>1 DEF volumesMatchingLabel
<1>3. id \notin volumesMatchingLabel(c)
  BY NodesAreNoVolumes, Listed DEF IInv, RuntimeSound, RuntimeTypeOK, Volumes
<1>4. CASE containers' = containers
  BY <1>2, <1>4 DEF HeldOf, containersMatchingLabel
<1>5. CASE containers' = {x \in containers : x.id # id}
  <2>1. \A y : y \in (containersMatchingLabel(c))' <=>
                 y \in containersMatchingLabel(c) /\ y # id
    BY <1>5, Listed
  <2>2. \A y : y \in HeldOf(c)' <=> y \in HeldOf(c) /\ y # id
    BY <1>2, <1>3, <2>1 DEF HeldOf
  <2> QED
    BY <2>2 DEF HeldOf
<1> QED
  BY <1>1, <1>4, <1>5

(* Deleting a volume takes at most that volume.                              *)
LEMMA DeleteHolds ==
  ASSUME IInv, NEW c, NEW name \in VolumeNames, NEW r, NEW err,
         volumeDelete(name, r, err), c \in Clusters
  PROVE  HeldOf(c)' \in {HeldOf(c), HeldOf(c) \ {name}}
<1>1. /\ containers' = containers
      /\ volumes' \in {volumes, {v \in volumes : v.name # name}}
  BY DEF volumeDelete
<1>2. (containersMatchingLabel(c))' = containersMatchingLabel(c)
  BY <1>1 DEF containersMatchingLabel
<1>3. name \notin containersMatchingLabel(c)
  <2>1. ASSUME NEW x \in containers, x.label = c
        PROVE  x.id \in NodeInfos
    BY <2>1, IdentityAssumption
       DEF IInv, RuntimeSound, ContainersOwned, ForeignContainer, NodeContainer
  <2> QED
    BY <2>1, NodesAreNoVolumes, Listed
<1>4. CASE volumes' = volumes
  BY <1>2, <1>4 DEF HeldOf, volumesMatchingLabel
<1>5. CASE volumes' = {v \in volumes : v.name # name}
  <2>1. \A y : y \in (volumesMatchingLabel(c))' <=>
                 y \in volumesMatchingLabel(c) /\ y # name
    BY <1>5, Listed
  <2>2. \A y : y \in HeldOf(c)' <=> y \in HeldOf(c) /\ y # name
    BY <1>2, <1>3, <2>1 DEF HeldOf
  <2> QED
    BY <2>2 DEF HeldOf
<1> QED
  BY <1>1, <1>4, <1>5

(* A destroy of the cluster takes a container or a volume from it, or        *)
(* forgets its record.                                                       *)
LEMMA Drains ==
  ASSUME IInv, NEW c \in Clusters, NEW q \in Procs, DestroyStep(q), proc[q].target = c
  PROVE  Of(c)!Same \/ Of(c)!Release \/ Of(c)!Erase
<1>1. proc[q].pc \in DestroyPhases
  BY DestroyKeeps
<1>2. /\ proc[q].todo \in SUBSET NodeInfos /\ proc[q].cur \in SUBSET NodeInfos
      /\ proc[q].vols \in SUBSET VolumeNames
      /\ proc[q].pc \in {"stop", "rm", "delVol"} =>
           ThisNode(q) \in NodeInfos /\ ThisVolume(q) \in VolumeNames
  BY <1>1, DestroyContext DEF LoopPhases
<1>3. ASSUME NEW x, HeldOf(c)' \in {HeldOf(c), HeldOf(c) \ {x}}, yaml' = yaml
      PROVE  Of(c)!Same \/ Of(c)!Release
  <2>1. CASE HeldOf(c)' = HeldOf(c)
    BY <1>3, <2>1, LedgerThings
  <2>2. CASE x \in HeldOf(c) /\ HeldOf(c)' = HeldOf(c) \ {x}
    BY <1>3, <2>2, LedgerThings
  <2>3. CASE x \notin HeldOf(c) /\ HeldOf(c)' = HeldOf(c) \ {x}
    <3>1. HeldOf(c)' = HeldOf(c)
      BY <2>3
    <3> QED
      BY <1>3, <3>1, LedgerThings
  <2> QED
    BY <1>3, <2>1, <2>2, <2>3
<1>4. CASE StopRecorded(q) \/ SweepStop(q)
  <2>1. PICK id : \E r, err : stop(id, r, err)
    BY <1>4 DEF StopRecorded, SweepStop
  <2>2. HeldOf(c)' = HeldOf(c)
    BY <2>1, StopHolds
  <2> QED
    <3>1. yaml' = yaml
      BY <1>4 DEF StopRecorded, SweepStop, stateVars
    <3> QED
      BY <2>2, <3>1, LedgerThings
<1>5. CASE RemoveRecorded(q) \/ SweepRemove(q)
  <2>1. PICK id \in NodeInfos : \E r, err : remove(id, r, err)
    BY <1>2, <1>5 DEF RemoveRecorded, SweepRemove
  <2>2. HeldOf(c)' \in {HeldOf(c), HeldOf(c) \ {id}}
    BY <2>1, RemoveHolds
  <2> QED
    <3>1. yaml' = yaml
      BY <1>5 DEF RemoveRecorded, SweepRemove, stateVars
    <3> QED
      BY <1>3, <2>2, <3>1
<1>6. CASE DeleteRecordedVolume(q) \/ SweepVolume(q)
  <2>1. PICK name \in VolumeNames : \E r, err : volumeDelete(name, r, err)
    BY <1>2, <1>6 DEF DeleteRecordedVolume, SweepVolume
  <2>2. HeldOf(c)' \in {HeldOf(c), HeldOf(c) \ {name}}
    BY <2>1, DeleteHolds
  <2> QED
    <3>1. yaml' = yaml
      BY <1>6 DEF DeleteRecordedVolume, SweepVolume, stateVars
    <3> QED
      BY <1>3, <2>2, <3>1
<1>7. CASE Reflect(q) \/ ListContainers(q) \/ ListVolumes(q) \/ DestroyNetwork(q)
  <2>1. UNCHANGED <<containers, volumes, yaml>>
    BY <1>7 DEF Reflect, ListContainers, ListVolumes, DestroyNetwork, destroyNetwork,
                runtimeVars, stateVars
  <2>2. HeldOf(c)' = HeldOf(c)
    BY <2>1, KeptTogether DEF BoxesOf, DisksOf
  <2> QED
    BY <1>3, <2>1, <2>2
<1>8. CASE RemoveStateFiles(q) \/ RemoveStateDir(q)
  <2>1. HeldOf(c)' = HeldOf(c)
    BY <1>8, KeptTogether
       DEF RemoveStateFiles, RemoveStateDir, runtimeVars, BoxesOf, DisksOf
  <2>2. yaml'[c] = yaml[c] \/ yaml'[c] = NoRecord
    BY <1>8 DEF RemoveStateFiles, RemoveStateDir, RemoveRecord, RemoveDir, stateVars
  <2> QED
    BY <2>1, <2>2, LedgerThings, LedgerRecord
<1> QED
  BY <1>4, <1>5, <1>6, <1>7, <1>8 DEF DestroyStep

(* A destroy without a name takes no container and no volume.                *)
LEMMA Forgets ==
  ASSUME SanitizedInjective, IInv, NEW c \in Clusters, NEW q \in Procs, DestroyStep(q),
         proc[q].target = EmptyName
  PROVE  Of(c)!Same \/ Of(c)!Erase
<1>1. Acts(q) /\ c # EmptyName
  BY IdentityAssumption DEF Acts
<1>2. HeldOf(c)' = HeldOf(c)
  BY <1>1, Elsewhere, KeptTogether
<1>3. yaml'[c] = yaml[c] \/ yaml'[c] = NoRecord
  <2>1. ~CreateStep(q)
    BY WhoActs
  <2> QED
    BY <1>1, <2>1, RecordElsewhere
<1> QED
  BY <1>2, <1>3, LedgerThings, LedgerRecord

-----------------------------------------------------------------------------
(* What a step is to its own cluster's ledger.                               *)

(* Who goes on keeps its promise, and who reports ends it.                   *)
LEMMA GoesOnOrReports ==
  ASSUME IInv, NEW c \in Clusters, NEW q \in Procs, CreateStep(q) \/ DestroyStep(q)
  PROVE  /\ StatusOn(q, c)' = StatusOn(q, c) /\ proc'[q].pc # "returned" => Of(c)!GoOn
         /\ \A word : StatusOn(q, c)' = word /\ proc'[q].pc = "returned" =>
              Of(c)!Report(q, word)
<1>1. Acts(q) /\ ~Starts(q) /\ Running(q)
  BY WhoActs DEF Acts, Starts, StartCreate, StartDestroy, Running
<1>2. Keeps(proc[q], proc'[q])
  BY CreateKeeps, DestroyKeeps
<1>3. Promising(c)' \ {q} = Promising(c) \ {q}
  BY <1>1, PromisingStep
<1>4. ASSUME StatusOn(q, c)' = StatusOn(q, c), proc'[q].pc # "returned"
      PROVE  Of(c)!GoOn
  <2>1. Statuses(c)' = Statuses(c)
    BY <1>1, <1>4, StatusStays
  <2>2. proc'[q].pc \in CreatePhases \cup DestroyPhases
    BY <1>4, CreateGoesOn, DestroyGoesOn
  <2>3. q \in Promising(c)' <=> q \in Promising(c)
    BY <1>1, <1>2, <2>2 DEF Promising, Keeps, Running, Alone, CreatePhases, DestroyPhases
  <2>4. Promising(c)' = Promising(c)
    BY <1>3, <2>3
  <2> QED
    BY <2>1, <2>4, LedgerWords
<1>5. ASSUME NEW word, StatusOn(q, c)' = word, proc'[q].pc = "returned"
      PROVE  Of(c)!Report(q, word)
  <2>1. Statuses(c)' = [Statuses(c) EXCEPT ![q] = word]
    BY <1>1, <1>5, StatusStep
  <2>2. q \notin Promising(c)'
    BY <1>5 DEF Promising, Running
  <2>3. Promising(c)' = Promising(c) \ {q}
    BY <1>3, <2>2
  <2> QED
    BY <2>1, <2>3, LedgerWords
<1> QED
  BY <1>4, <1>5

(* A create that has delivered finds all that the record lists.              *)
LEMMA Found ==
  ASSUME NEW c \in Clusters, NEW p \in Procs, Delivered(p)',
         proc'[p].op = "create", proc'[p].target = c, proc'[p].pc = "returned",
         proc'[p].bad = {}, 1 \in DOMAIN proc'[p].work
  PROVE  /\ yaml'[c].status = "saved" /\ RecordedOf(c)' # {}
         /\ RecordedOf(c)' \subseteq HeldOf(c)'
<1>1. yaml'[c].status = "saved" /\ yaml'[c].nodes = proc'[p].work
  BY DEF Delivered, Recorded
<1>2. \A i \in DOMAIN proc'[p].work : UpOn(proc[p].work[i], c)'
  BY DEF Delivered, AllUp, Launched, UpOn
<1>3. RecordedOf(c)' =
        UNION {{node} \cup nodeVolumeNames(node.name) :
                 node \in {proc'[p].work[i] : i \in DOMAIN proc'[p].work}}
  BY <1>1 DEF RecordedOf
<1>4. \A x : x \in RecordedOf(c)' <=>
        \E i \in DOMAIN proc'[p].work :
          x = proc'[p].work[i] \/ x \in nodeVolumeNames(proc'[p].work[i].name)
  BY <1>3
<1>5. RecordedOf(c)' # {}
  BY <1>4
<1>6. ASSUME NEW x \in RecordedOf(c)'
      PROVE  x \in HeldOf(c)'
  <2>1. PICK i \in DOMAIN proc'[p].work :
          x = proc'[p].work[i] \/ x \in nodeVolumeNames(proc'[p].work[i].name)
    BY <1>4
  <2>2. CASE x = proc'[p].work[i]
    <3>1. [id |-> x, label |-> c, running |-> TRUE] \in containers'
      BY <1>2, <2>2 DEF UpOn
    <3> QED
      BY <3>1 DEF HeldOf, containersMatchingLabel
  <2>3. CASE x \in nodeVolumeNames(proc'[p].work[i].name)
    <3>1. [name |-> x, label |-> c, booted |-> TRUE] \in volumes'
      BY <1>2, <2>3 DEF UpOn
    <3> QED
      BY <3>1 DEF HeldOf, volumesMatchingLabel
  <2> QED
    BY <2>1, <2>2, <2>3
<1> QED
  BY <1>1, <1>5, <1>6

(* A step of a create is one in its cluster's ledger.                        *)
LEMMA CreateInLedger ==
  ASSUME IInv, IInv', LockInv, LedgerInv', NEW c \in Clusters, NEW q \in Procs,
         CreateStep(q), proc[q].target = c
  PROVE  Of(c)!Create(q)
<1>1. Running(q) /\ proc[q].op = "create" /\ c # EmptyName
  BY WhoActs, IdentityAssumption
<1>2. proc'[q].op = "create" /\ proc'[q].target = c /\ proc'[q].rivals = proc[q].rivals
  BY <1>1, CreateKeeps DEF Keeps
<1>3. StatusOn(q, c) = "creating"
  BY <1>1, Standing DEF StandsOn, Busy, Running
<1>4. Of(c)!Same \/ Of(c)!Acquire \/ Of(c)!Write
  BY Fills
<1>5. CASE proc'[q].pc # "returned"
  <2>1. proc'[q].pc \in CreatePhases
    BY <1>5, CreateGoesOn
  <2>2. StatusOn(q, c)' = "creating"
    BY <1>2, <2>1, Standing DEF StandsOn, Busy, CreatePhases
  <2>3. Of(c)!GoOn
    BY <1>3, <1>5, <2>2, GoesOnOrReports
  <2> QED
    BY <1>3, <1>4, <2>3 DEF Of!Create
<1>6. CASE proc'[q].pc = "returned" /\ ~Faultless(proc'[q])
  <2>1. StatusOn(q, c)' = "failed"
    BY <1>2, <1>6, Standing DEF StandsOn, Busy
  <2>2. Of(c)!Report(q, "failed")
    BY <1>6, <2>1, GoesOnOrReports
  <2> QED
    BY <1>3, <1>4, <2>2 DEF Of!Create
<1>7. CASE proc'[q].pc = "returned" /\ Faultless(proc'[q])
  <2>1. StatusOn(q, c)' = "created"
    BY <1>2, <1>7, Standing DEF StandsOn, Busy
  <2>2. Of(c)!Report(q, "created")
    BY <1>7, <2>1, GoesOnOrReports
  <2>3. ASSUME q \in Promising(c)
        PROVE  /\ yaml'[c].status = "saved" /\ RecordedOf(c)' # {}
               /\ RecordedOf(c)' \subseteq HeldOf(c)'
    <3>1. Sole(proc'[q])
      BY <1>1, <1>2, <2>3 DEF Promising, Alone, Sole
    <3>2. Delivered(q)'
      BY <3>1 DEF LedgerInv
    <3>3. 1 \in DOMAIN proc'[q].work
      <4>1. proc[q].pc # "validate"
        <5>1. ASSUME proc[q].pc = "validate"
              PROVE  Fail(q, "request") \/ Goto(q, "stat")
          BY <5>1 DEF CreateStep, ValidateClusterRequest, NewStateStat, NewStateMkdir,
               EnsureNetwork, CheckDNSDomain, CheckVolume, CreateVolume, Launch,
               WaitForIPv4, ReconcileConfigs, SaveOpen, SaveWrite, SaveTalosconfig
        <5>2. Fail(q, "request") => proc'[q].bad # {}
          BY FailEffect
        <5>3. Goto(q, "stat") => proc'[q].pc # "returned"
          BY GotoEffect DEF At
        <5> QED
          BY <1>7, <5>1, <5>2, <5>3 DEF Faultless
      <4>2. proc'[q].work = proc[q].work
        BY WayToTheLock DEF LockInv
      <4>3. proc[q].pos \in Nat \ {0} /\ proc[q].pos <= Len(proc[q].work)
            /\ proc[q].work \in Seq(NodeInfos)
        BY <4>1, CreateKeeps DEF IInv, ProcSound, Sound, LoopPhases, Invocations
      <4> QED
        BY <4>2, <4>3
    <3>4. proc'[q].bad = {}
      BY <1>7 DEF Faultless
    <3> QED
      BY <1>2, <1>7, <3>2, <3>3, <3>4, Found
  <2> QED
    BY <1>3, <1>4, <2>2, <2>3 DEF Of!Create, Promising, HeldOf
<1> QED
  BY <1>5, <1>6, <1>7

(* A step of a destroy with a name is one in its cluster's ledger.           *)
LEMMA DestroyInLedger ==
  ASSUME IInv, SweepInv', NEW c \in Clusters, NEW q \in Procs,
         DestroyStep(q), proc[q].target = c
  PROVE  Of(c)!Destroy(q)
<1>1. Running(q) /\ proc[q].op = "destroy" /\ c # EmptyName
  BY WhoActs, IdentityAssumption
<1>2. proc'[q].op = "destroy" /\ proc'[q].target = c /\ proc'[q].rivals = proc[q].rivals
  BY <1>1, DestroyKeeps DEF Keeps
<1>3. StatusOn(q, c) = "destroying"
  BY <1>1, Standing DEF StandsOn, Busy, Running
<1>4. Of(c)!Same \/ Of(c)!Release \/ Of(c)!Erase
  BY Drains
<1>5. CASE proc'[q].pc # "returned"
  <2>1. proc'[q].pc \in DestroyPhases
    BY <1>5, DestroyGoesOn
  <2>2. StatusOn(q, c)' = "destroying"
    BY <1>1, <1>2, <2>1, Standing DEF StandsOn, Busy, DestroyPhases
  <2>3. Of(c)!GoOn
    BY <1>3, <1>5, <2>2, GoesOnOrReports
  <2> QED
    BY <1>3, <1>4, <2>3 DEF Of!Destroy
<1>6. CASE proc'[q].pc = "returned" /\ ~Faultless(proc'[q])
  <2>1. StatusOn(q, c)' = "failed"
    BY <1>2, <1>6, Standing DEF StandsOn, Busy
  <2>2. Of(c)!Report(q, "failed")
    BY <1>6, <2>1, GoesOnOrReports
  <2> QED
    BY <1>3, <1>4, <2>2 DEF Of!Destroy
<1>7. CASE proc'[q].pc = "returned" /\ Faultless(proc'[q])
  <2>1. StatusOn(q, c)' = "destroyed"
    BY <1>2, <1>7, Standing DEF StandsOn, Busy
  <2>2. Of(c)!Report(q, "destroyed")
    BY <1>7, <2>1, GoesOnOrReports
  <2>3. ASSUME q \in Promising(c)
        PROVE  HeldOf(c)' = {} /\ yaml'[c].status = "absent"
    <3>1. Undisputed(proc'[q])
      BY <1>1, <1>2, <2>3 DEF Promising, Alone, Undisputed
    <3>2. Leaves(proc[q], c)'
      BY <1>2, <3>1 DEF SweepInv
    <3> QED
      BY <1>7, <3>2 DEF Leaves, ContainersLeft, VolumesLeft, RecordLeft, NoListing,
                        NoSweep, Faultless, HeldOf
  <2> QED
    BY <1>3, <1>4, <2>2, <2>3 DEF Of!Destroy, Promising, HeldOf
<1> QED
  BY <1>5, <1>6, <1>7

(* A step of a destroy without one is in every cluster's.                    *)
LEMMA EraseInLedger ==
  ASSUME SanitizedInjective, IInv, NEW c \in Clusters, NEW q \in Procs,
         DestroyStep(q), proc[q].target = EmptyName
  PROVE  Of(c)!EraseAll(q)
<1>1. Running(q) /\ proc[q].op = "destroy"
  BY WhoActs
<1>2. proc'[q].op = "destroy" /\ proc'[q].target = EmptyName
  BY <1>1, DestroyKeeps DEF Keeps
<1>3. StatusOn(q, c) = "erasing"
  BY <1>1, Standing DEF StandsOn, Busy, Running
<1>4. Of(c)!Same \/ Of(c)!Erase
  BY Forgets
<1>5. CASE proc'[q].pc # "returned"
  <2>1. proc'[q].pc \in DestroyPhases
    BY <1>5, DestroyGoesOn
  <2>2. StatusOn(q, c)' = "erasing"
    BY <1>2, <2>1, Standing DEF StandsOn, Busy, DestroyPhases
  <2>3. Of(c)!GoOn
    BY <1>3, <1>5, <2>2, GoesOnOrReports
  <2> QED
    BY <1>3, <1>4, <2>3 DEF Of!EraseAll
<1>6. CASE proc'[q].pc = "returned"
  <2>1. StatusOn(q, c)' \in {"failed", "destroyed"}
    BY <1>2, <1>6, Standing DEF StandsOn, Busy
  <2>2. Of(c)!Report(q, "failed") \/ Of(c)!Report(q, "destroyed")
    BY <1>6, <2>1, GoesOnOrReports
  <2> QED
    BY <1>3, <1>4, <2>2 DEF Of!EraseAll
<1> QED
  BY <1>5, <1>6

-----------------------------------------------------------------------------
(* The refinement.                                                           *)

(* Every step of an invocation is a step of every cluster's ledger or none.  *)
LEMMA StepInLedger ==
  ASSUME SanitizedInjective, IInv, IInv', LockInv, LedgerInv, LedgerInv', SweepInv',
         NEW c \in Clusters, [Next]_vars
  PROVE  [Of(c)!LedgerNext]_(Of(c)!ledgerVars)
<1>1. CASE UNCHANGED vars
  <2>1. \A p \in Procs : StatusOn(p, c)' = StatusOn(p, c)
    BY <1>1, Standing DEF vars
  <2>2. Statuses(c)' = Statuses(c)
    BY <2>1 DEF Statuses
  <2>3. Promising(c)' = Promising(c)
    BY <1>1 DEF vars, Promising, Running, Alone
  <2>4. HeldOf(c)' = HeldOf(c) /\ yaml'[c] = yaml[c]
    BY <1>1, KeptTogether DEF vars, BoxesOf, DisksOf
  <2> QED
    BY <2>2, <2>3, <2>4, Stutters
<1>2. CASE Next
  <2>1. PICK q \in Procs : Acts(q)
    BY <1>2 DEF Next, Acts
  <2>2. CASE Starts(q)
    BY <2>2, StartsInLedger DEF LedgerInv, Of!LedgerNext
  <2>3. CASE Exit(q) \/ Crash(q)
    BY <2>3, EndsInLedger DEF Of!LedgerNext
  <2>4. CASE CreateStep(q) /\ proc[q].target = c
    BY <2>4, CreateInLedger DEF Of!LedgerNext
  <2>5. CASE DestroyStep(q) /\ proc[q].target = c
    BY <2>5, DestroyInLedger DEF Of!LedgerNext
  <2>6. CASE DestroyStep(q) /\ proc[q].target = EmptyName
    BY <2>6, EraseInLedger DEF Of!LedgerNext
  <2>7. CASE /\ CreateStep(q) \/ DestroyStep(q)
             /\ proc[q].target \notin {c, EmptyName}
    BY <2>7, ElsewhereInLedger
  <2>8. CreateStep(q) => proc[q].target # EmptyName
    BY WhoActs, IdentityAssumption
  <2> QED
    BY <2>1, <2>2, <2>3, <2>4, <2>5, <2>6, <2>7, <2>8 DEF Acts, Starts
<1> QED
  BY <1>1, <1>2

(* An untouched host is an empty ledger.                                     *)
LEMMA LedgersInitially ==
  ASSUME Init, NEW c \in Clusters
  PROVE  Of(c)!LedgerInit
<1>1. \A p \in Procs : proc[p] = Idle
  BY DEF Init
<1>2. Idle.op = "none" /\ Idle.pc = "idle"
  BY DEF Idle
<1>3. \A p \in Procs : StatusOn(p, c) = "away"
  BY <1>1, <1>2, Standing DEF StandsOn
<1>4. Statuses(c) = [p \in Procs |-> "away"]
  BY <1>3 DEF Statuses
<1>5. Promising(c) = {}
  BY <1>1, <1>2 DEF Promising, Running
<1>6. HeldOf(c) = {}
  BY IdentityAssumption
     DEF Init, RuntimeInit, HeldOf, containersMatchingLabel, volumesMatchingLabel
<1>7. yaml[c] = NoRecord
  BY DEF Init, StateInit
<1>8. yaml[c].status = "absent" /\ RecordedOf(c) = {}
  BY <1>7 DEF NoRecord, RecordedOf
<1> QED
  BY <1>4, <1>5, <1>6, <1>8 DEF Of!LedgerInit, Statuses, Promising, HeldOf

(* Create and Destroy implement the ledger of every cluster at once: however *)
(* many invocations overlap, fail and are killed, what one of them reports   *)
(* is what the ledger lets it report, and what a cluster has changes only by *)
(* its own operations (create.go:41-122, destroy.go:17-146).                 *)
THEOREM LedgerImplemented ==
  ASSUME SanitizedInjective
  PROVE  Spec => ImplementsLedger
<1>1. Init => \A c \in Clusters : Of(c)!LedgerInit
  BY LedgersInitially
<1>2. /\ IInv /\ IInv' /\ LockInv /\ LedgerInv /\ LedgerInv' /\ SweepInv' /\ [Next]_vars
      => [\A c \in Clusters : [Of(c)!LedgerNext]_(Of(c)!ledgerVars)]_vars
  BY StepInLedger
<1> QED
  BY <1>1, <1>2, Ownership, LockHeld, CountedOn, Accounted, PTL DEF Spec, ImplementsLedger

-----------------------------------------------------------------------------
(* One create at a time, beside any number of destroys: Recreate.cfg shows   *)
(* what two creates and a destroy can do.                                    *)

(* At most one slot ever creates, one create after another.                  *)
OneCreator == \A p, q \in Creators : p = q

(* Then no create meets another.                                             *)
CreatesUnmet ==
  \A p \in Procs : proc[p].op = "create" => p \in Creators /\ "create" \notin proc[p].rivals

(* Nobody else creates, so nobody enters it in a create's history.           *)
LEMMA UnmetInductive ==
  ASSUME OneCreator
  PROVE  IInv /\ CreatesUnmet /\ [Next]_vars => CreatesUnmet'
<1> SUFFICES ASSUME IInv, CreatesUnmet, [Next]_vars
             PROVE  CreatesUnmet'
  OBVIOUS
<1>1. CASE UNCHANGED vars
  BY <1>1 DEF vars, CreatesUnmet
<1>2. ASSUME NEW q \in Procs, CreateStep(q) \/ DestroyStep(q) \/ Exit(q) \/ Crash(q)
      PROVE  CreatesUnmet'
  <2>1. Acts(q) /\ ~Starts(q)
    BY <1>2, WhoActs DEF Acts, Starts, StartCreate, StartDestroy, Running, Exit, Crash
  <2>2. \A p \in Procs \ {q} : proc'[p] = proc[p]
    BY <2>1, OthersUntouched
  <2>3. Keeps(proc[q], proc'[q]) \/ proc'[q] = Idle
    BY <1>2, CreateKeeps, DestroyKeeps DEF Exit, Crash, Become, IInv, ProcSound
  <2> QED
    BY <2>2, <2>3 DEF CreatesUnmet, Keeps, Idle
<1>3. ASSUME NEW q \in Procs, Starts(q)
      PROVE  CreatesUnmet'
  <2>1. PICK me \in Invocations :
          /\ Begin(q, me)
          /\ StartCreate(q) => BeginsCreate(me)
          /\ ~StartCreate(q) => BeginsDestroy(me)
    BY <1>3, Beginning
  <2>2. /\ proc'[q].op = me.op /\ proc'[q].rivals = Met(q, me)
        /\ me.op = "create" => StartCreate(q)
        /\ me.op # "create" => me.op = "destroy"
    BY <2>1, BeginEffect DEF BeginsCreate, BeginsDestroy
  <2>3. ASSUME NEW p \in Procs \ {q}
        PROVE  proc'[p].op = proc[p].op /\ proc'[p].rivals \subseteq proc[p].rivals \cup {me.op}
    <3>1. Acts(q)
      BY <1>3 DEF Acts, Starts
    <3> QED
      BY <2>1, <3>1, OthersSame, BeginEffect, ZenonT(60) DEF Same
  <2>4. CASE me.op = "destroy"
    BY <2>2, <2>3, <2>4 DEF CreatesUnmet
  <2>5. CASE me.op = "create"
    <3>1. q \in Creators
      BY <2>2, <2>5 DEF StartCreate
    <3>2. \A p \in Procs \ {q} : proc[p].op # "create"
      BY <3>1 DEF CreatesUnmet, OneCreator
    <3>3. "create" \notin Met(q, me)
      BY <3>2 DEF Met
    <3> QED
      BY <2>2, <2>3, <3>1, <3>2, <3>3 DEF CreatesUnmet
  <2> QED
    BY <2>2, <2>4, <2>5
<1> QED
  BY <1>1, <1>2, <1>3 DEF Next, Starts

(* So a single creator never meets another create.                           *)
LEMMA UnmetAlways ==
  ASSUME OneCreator
  PROVE  Spec => []CreatesUnmet
<1>1. Init => CreatesUnmet
  BY DEF Init, Idle, CreatesUnmet
<1> QED
  BY <1>1, UnmetInductive, Ownership, PTL DEF Spec

(* A destroy adds no container.                                              *)
LEMMA DestroyLaunchesNothing ==
  ASSUME IInv, NEW q \in Procs, DestroyStep(q), NEW x \in containers'
  PROVE  x.id \in ContainerIDs
<1>1. \/ containers' = containers
      \/ \E id, r, err : stop(id, r, err) \/ remove(id, r, err)
  BY DEF DestroyStep, Reflect, StopRecorded, RemoveRecorded, DeleteRecordedVolume,
         volumeDelete, ListContainers, SweepStop, SweepRemove, ListVolumes,
         SweepVolume, DestroyNetwork, destroyNetwork, RemoveStateFiles,
         RemoveStateDir, runtimeVars
<1>2. (\E id, r, err : stop(id, r, err)) => \E y \in containers : x.id = y.id
  BY StopKeepsLabels
<1>3. (\E id, r, err : remove(id, r, err)) => containers' \subseteq containers
  BY DEF remove
<1> QED
  BY <1>1, <1>2, <1>3 DEF ContainerIDs

(* A node boots only on volumes of its own cluster that no node has run on   *)
(* (create.go:153), whatever destroys run beside the one create there is.    *)
THEOREM FreshVolumesOfOne ==
  ASSUME SanitizedInjective, OneCreator
  PROVE  Spec => FreshBoot
<1>1. IInv /\ LedgerInv /\ CreatesUnmet /\ [Next]_vars =>
        [\A x \in containers' :
           x.id \notin ContainerIDs =>
             \A v \in volumes :
               v.name \in Mounts(x) => ~v.booted /\ v.label = x.label]_vars
  <2> SUFFICES ASSUME IInv, LedgerInv, CreatesUnmet, Next,
                      NEW x \in containers', x.id \notin ContainerIDs,
                      NEW v \in volumes, v.name \in Mounts(x)
               PROVE  ~v.booted /\ v.label = x.label
    OBVIOUS
  <2>1. PICK q \in Procs : Acts(q)
    BY DEF Next, Acts
  <2>2. ~DestroyStep(q)
    BY DestroyLaunchesNothing
  <2>3. CASE CreateStep(q)
    <3>1. Uncontested(proc[q])
      BY <2>3, WhoActs DEF CreatesUnmet, Uncontested
    <3> QED
      BY <2>1, <2>2, <3>1, LaunchIsFresh DEF LedgerInv
  <2>4. CASE Starts(q) \/ Exit(q) \/ Crash(q)
    BY <2>4 DEF Starts, StartCreate, StartDestroy, Exit, Crash, runtimeVars, ContainerIDs
  <2> QED
    BY <2>1, <2>2, <2>3, <2>4 DEF Acts, Starts
<1> QED
  BY <1>1, CountedOn, UnmetAlways, Ownership, PTL DEF Spec, FreshBoot

(* No create overwrites a record that was saved; it goes with a destroy that *)
(* covers it (create.go:181, destroy.go:66).                                 *)
THEOREM RecordKeptOfOne ==
  ASSUME SanitizedInjective, OneCreator
  PROVE  Spec => RecordSurvivesCreates
<1>1. IInv /\ LedgerInv /\ CreatesUnmet /\ [Next]_vars =>
        [\A c \in Clusters : yaml[c].status = "saved" /\ yaml'[c] # yaml[c] =>
           \E p \in Procs : proc[p].op = "destroy" /\ c \in clusterStatePath(proc[p].target)]_vars
  <2> SUFFICES ASSUME IInv, LedgerInv, CreatesUnmet, Next, NEW c \in Clusters,
                      yaml[c].status = "saved", yaml'[c] # yaml[c]
               PROVE  \E p \in Procs : /\ proc[p].op = "destroy"
                                       /\ c \in clusterStatePath(proc[p].target)
    OBVIOUS
  <2>1. PICK q \in Procs : Acts(q)
    BY DEF Next, Acts
  <2>2. CASE DestroyStep(q) /\ c \in clusterStatePath(proc[q].target)
    BY <2>2, WhoActs
  <2>3. CASE CreateStep(q) /\ Writes(q) /\ proc[q].target = c
    <3>1. OwnRecord(proc[q])
      BY <2>3, WhoActs DEF CreatesUnmet, Uncontested, LedgerInv
    <3>2. proc[q].pc \in {"saveOpen", "saveWrite"}
      BY <2>3 DEF Writes, SaveOpen, SaveWrite
    <3> QED
      BY <2>3, <3>1, <3>2 DEF OwnRecord, Unrecorded
  <2> QED
    BY <2>1, <2>2, <2>3, RecordElsewhere
<1> QED
  BY <1>1, CountedOn, UnmetAlways, Ownership, PTL DEF Spec, RecordSurvivesCreates

(* A create that reports success, with no destroy beside it, is up and has a *)
(* record from which a later destroy finds every node (create.go:41-122).    *)
THEOREM CreateUpOfOne ==
  ASSUME SanitizedInjective, OneCreator
  PROVE  Spec => []CreateNilMeansUp
<1>1. IInv /\ LedgerInv /\ CreatesUnmet => CreateNilMeansUp
  <2> SUFFICES ASSUME IInv, LedgerInv, CreatesUnmet,
                      NEW p \in Procs, Succeeded(p, "create"),
                      "destroy" \notin proc[p].rivals
               PROVE  LET me == proc[p]
                          record == yaml[me.target]
                      IN /\ record.status = "saved" /\ record.nodes = me.work
                         /\ record.network = NetworkOf[me.target]
                         /\ record.nodes[1].name.role = "controlplane"
                         /\ \A i \in DOMAIN me.work : UpOn(me.work[i], me.target)
    BY DEF CreateNilMeansUp, UpOn
  <2>1. proc[p].pc = "returned" /\ proc[p].op = "create" /\ proc[p].bad = {}
    BY DEF Succeeded, Returned
  <2>2. Sole(proc[p])
    BY <2>1 DEF CreatesUnmet, Sole, IInv, ProcSound, Invocations
  <2>3. AllUp(proc[p]) /\ Recorded(proc[p])
    BY <2>2 DEF LedgerInv, Delivered
  <2>4. \A i \in DOMAIN proc[p].work : UpOn(proc[p].work[i], proc[p].target)
    BY <2>1, <2>3 DEF AllUp, Launched
  <2> QED
    BY <2>1, <2>3, <2>4 DEF Recorded, FirstNode
<1> QED
  BY <1>1, CountedOn, UnmetAlways, Ownership, PTL
=============================================================================
