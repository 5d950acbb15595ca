---------------------------- MODULE OrphansProofs ----------------------------
(* After trouble: commands that outlive the aegis that waited for them, and  *)
(* the destroys by which an operator reclaims what is left.                  *)
EXTENDS Orphans, LedgerProofs, FiniteSetTheorems

-----------------------------------------------------------------------------
(* Once calm, the operator's invocations take the steps they always took.    *)

(* What a command does does not depend on what may happen to it.             *)
LEMMA QuietCommands ==
  /\ \A id, r, err : Quiet!stop(id, r, err) <=> stop(id, r, err)
  /\ \A id, r, err : Quiet!remove(id, r, err) <=> remove(id, r, err)
  /\ \A name, r, err : Quiet!volumeDelete(name, r, err) <=> volumeDelete(name, r, err)
  /\ \A net, r, err : Quiet!destroyNetwork(net, r, err) <=> destroyNetwork(net, r, err)
  /\ \A net, r, err : Quiet!ensureNetwork(net, r, err) <=> ensureNetwork(net, r, err)
  /\ \A id, r, err : Quiet!runNode(id, r, err) <=> runNode(id, r, err)
  /\ \A name, c, r, err : Quiet!volumeCreate(name, c, r, err) <=> volumeCreate(name, c, r, err)
  /\ \A name, r, answer : Quiet!volumeExists(name, r, answer) <=> volumeExists(name, r, answer)
<1>1. \A id, r, err : Quiet!stop(id, r, err) <=> stop(id, r, err)
  BY DEF Quiet!stop, stop, Quiet!ContainerIDs, ContainerIDs, Quiet!NotIgnored,
         NotIgnored, Quiet!Reply, Reply, Quiet!Performed, Performed
<1>2. \A id, r, err : Quiet!remove(id, r, err) <=> remove(id, r, err)
  BY DEF Quiet!remove, remove, Quiet!ContainerIDs, ContainerIDs,
         Quiet!IsRunning, IsRunning, Quiet!NotIgnored, NotIgnored, Quiet!Reply,
         Reply, Quiet!Performed, Performed
<1>3. \A name, r, err : Quiet!volumeDelete(name, r, err) <=> volumeDelete(name, r, err)
  BY DEF Quiet!volumeDelete, volumeDelete, Quiet!VolumesNamed, VolumesNamed,
         Quiet!Mounted, Mounted, Quiet!Mounts, Mounts, Quiet!nodeVolumeNames,
         nodeVolumeNames, Quiet!nodeVolumeName, nodeVolumeName, Quiet!Kinds,
         Kinds, Quiet!NotIgnored, NotIgnored, Quiet!Reply, Reply,
         Quiet!Performed, Performed
<1>4. \A net, r, err : Quiet!destroyNetwork(net, r, err) <=> destroyNetwork(net, r, err)
  BY DEF Quiet!destroyNetwork, destroyNetwork, Quiet!IsBuiltIn, IsBuiltIn,
         Quiet!runtimeVars, runtimeVars, Quiet!Attached, Attached,
         Quiet!NotIgnored, NotIgnored, Quiet!Reply, Reply, Quiet!Performed,
         Performed
<1>5. \A net, r, err : Quiet!ensureNetwork(net, r, err) <=> ensureNetwork(net, r, err)
  BY DEF Quiet!ensureNetwork, ensureNetwork, Quiet!IsBuiltIn, IsBuiltIn,
         Quiet!runtimeVars, runtimeVars, Quiet!Reply, Reply, Quiet!Performed,
         Performed
<1>6. \A id, r, err : Quiet!runNode(id, r, err) <=> runNode(id, r, err)
  BY DEF Quiet!runNode, runNode, Quiet!ContainerIDs, ContainerIDs,
         Quiet!VolumesNamed, VolumesNamed, Quiet!IsBuiltIn, IsBuiltIn,
         Quiet!nodeVolumeNames, nodeVolumeNames, Quiet!nodeVolumeName,
         nodeVolumeName, Quiet!Kinds, Kinds, Quiet!Reply, Reply,
         Quiet!Performed, Performed
<1>7. \A name, c, r, err : Quiet!volumeCreate(name, c, r, err) <=> volumeCreate(name, c, r, err)
  BY DEF Quiet!volumeCreate, volumeCreate, Quiet!VolumesNamed, VolumesNamed,
         Quiet!Reply, Reply, Quiet!Performed, Performed
<1>8. \A name, r, answer : Quiet!volumeExists(name, r, answer) <=> volumeExists(name, r, answer)
  BY DEF Quiet!volumeExists, volumeExists, Quiet!VolumesNamed, VolumesNamed,
         Quiet!runtimeVars, runtimeVars, Quiet!Reply, Reply
<1> QED
  BY <1>1, <1>2, <1>3, <1>4, <1>5, <1>6, <1>7, <1>8

(* They run or fail in no new way.                                           *)
LEMMA QuietOutcomes ==
  ASSUME NEW p \in Procs
  PROVE  /\ Quiet!Execs(p) \subseteq Execs(p) /\ Quiet!FileOps \subseteq FileOps
         /\ \A me : Quiet!Become(p, me) <=> Become(p, me)
         /\ Quiet!ThisNode(p) = ThisNode(p) /\ Quiet!ThisVolume(p) = ThisVolume(p)
BY DEF Quiet!Execs, Execs, Quiet!FileOps, FileOps, Quiet!Become, Become, Quiet!ThisNode,
       ThisNode, Quiet!ThisVolume, ThisVolume, Quiet!nodeVolumeName, nodeVolumeName

LEMMA QuietDestroys ==
  ASSUME NEW p \in Procs, Quiet!DestroyStep(p)
  PROVE  DestroyStep(p)
<1>1. Quiet!Reflect(p) => Reflect(p)
  BY QuietCommands, QuietOutcomes DEF Quiet!Reflect, Reflect, Quiet!ReadState,
         ReadState, Quiet!Sweep, Sweep, Quiet!Fail, Fail, Quiet!Become, Become,
         Quiet!NoRecord, NoRecord, Quiet!stateVars, stateVars,
         Quiet!runtimeVars, runtimeVars
<1>2. Quiet!StopRecorded(p) => StopRecorded(p)
  BY QuietCommands, QuietOutcomes DEF Quiet!StopRecorded, StopRecorded,
         Quiet!Note, Note, Quiet!stateVars, stateVars, Quiet!runtimeVars,
         runtimeVars
<1>3. Quiet!RemoveRecorded(p) => RemoveRecorded(p)
  BY QuietCommands, QuietOutcomes DEF Quiet!RemoveRecorded, RemoveRecorded,
         Quiet!Note, Note, Quiet!stateVars, stateVars, Quiet!runtimeVars,
         runtimeVars
<1>4. ASSUME Quiet!DeleteRecordedVolume(p)
      PROVE  DeleteRecordedVolume(p)
  <2>1. PICK r \in Execs(p), err \in BOOLEAN :
          /\ volumeDelete(ThisVolume(p), r, err)
          /\ Become(p, Quiet!NextVolume([proc[p] EXCEPT !.badV = Quiet!Note(err, @, ThisVolume(p))],
                               "delVol", "stop", Quiet!Sweep(proc[p].target)))
    BY <1>4, QuietCommands, QuietOutcomes DEF Quiet!DeleteRecordedVolume
  <2>2. Become(p, NextVolume([proc[p] EXCEPT !.badV = Note(err, @, ThisVolume(p))],
                             "delVol", "stop", Sweep(proc[p].target)))
    BY <2>1 DEF Quiet!NextVolume, NextVolume, Quiet!NextNode, NextNode, Quiet!Note, Note,
                Quiet!Sweep, Sweep
  <2> QED
    BY <1>4, <2>1, <2>2 DEF Quiet!DeleteRecordedVolume, DeleteRecordedVolume, Quiet!stateVars, stateVars
<1>5. Quiet!ListContainers(p) => ListContainers(p)
  BY QuietCommands, QuietOutcomes DEF Quiet!ListContainers, ListContainers,
         Quiet!ListFails, ListFails, Quiet!Reply, Reply,
         Quiet!containersMatchingLabel, containersMatchingLabel,
         Quiet!stateVars, stateVars, Quiet!runtimeVars, runtimeVars
<1>6. Quiet!SweepStop(p) => SweepStop(p)
  BY QuietCommands, QuietOutcomes DEF Quiet!SweepStop, SweepStop, Quiet!Note,
         Note, Quiet!stateVars, stateVars, Quiet!runtimeVars, runtimeVars
<1>7. ASSUME Quiet!SweepRemove(p)
      PROVE  SweepRemove(p)
  <2>1. PICK id \in proc[p].cur, r \in Execs(p), err \in BOOLEAN :
          /\ remove(id, r, err)
          /\ Become(p, [proc[p] EXCEPT
               !.pc = IF proc[p].todo = {id} THEN "listV" ELSE "sweepStop",
               !.cur = {}, !.todo = @ \ {id}, !.badC = Note(err, @, id)])
    BY <1>7, QuietCommands, QuietOutcomes DEF Quiet!SweepRemove, Quiet!Note, Note
  <2> QED
    BY <1>7, <2>1 DEF Quiet!SweepRemove, SweepRemove, Quiet!stateVars, stateVars
<1>8. Quiet!ListVolumes(p) => ListVolumes(p)
  BY QuietCommands, QuietOutcomes DEF Quiet!ListVolumes, ListVolumes,
         Quiet!ListFails, ListFails, Quiet!Reply, Reply,
         Quiet!volumesMatchingLabel, volumesMatchingLabel, Quiet!stateVars,
         stateVars, Quiet!runtimeVars, runtimeVars
<1>9. ASSUME Quiet!SweepVolume(p)
      PROVE  SweepVolume(p)
  <2>1. PICK name \in proc[p].vols, r \in Execs(p), err \in BOOLEAN :
          /\ volumeDelete(name, r, err)
          /\ Become(p, [proc[p] EXCEPT
               !.pc = IF proc[p].vols = {name} THEN "delNet" ELSE "sweepVol",
               !.vols = @ \ {name}, !.badV = Note(err, @, name)])
    BY <1>9, QuietCommands, QuietOutcomes DEF Quiet!SweepVolume, Quiet!Note, Note
  <2> QED
    BY <1>9, <2>1 DEF Quiet!SweepVolume, SweepVolume, Quiet!stateVars, stateVars
<1>10. Quiet!DestroyNetwork(p) => DestroyNetwork(p)
  BY QuietCommands, QuietOutcomes DEF Quiet!DestroyNetwork, DestroyNetwork,
         Quiet!Note, Note, Quiet!stateVars, stateVars, Quiet!runtimeVars,
         runtimeVars
<1>11. Quiet!RemoveStateFiles(p) => RemoveStateFiles(p)
  BY QuietCommands, QuietOutcomes DEF Quiet!RemoveStateFiles, RemoveStateFiles,
         Quiet!RemoveRecord, RemoveRecord, Quiet!Note, Note,
         Quiet!clusterStatePath, clusterStatePath, Quiet!NoRecord, NoRecord,
         Quiet!stateVars, stateVars, Quiet!runtimeVars, runtimeVars
<1>12. Quiet!RemoveStateDir(p) => RemoveStateDir(p)
  BY QuietCommands, QuietOutcomes DEF Quiet!RemoveStateDir, RemoveStateDir,
         Quiet!RemoveDir, RemoveDir, Quiet!Note, Note, Quiet!clusterStatePath,
         clusterStatePath, Quiet!NoRecord, NoRecord, Quiet!stateVars, stateVars,
         Quiet!runtimeVars, runtimeVars
<1> QED
  BY <1>1, <1>2, <1>3, <1>4, <1>5, <1>6, <1>7, <1>8, <1>9, <1>10, <1>11, <1>12 DEF Quiet!DestroyStep, DestroyStep

LEMMA QuietCreates ==
  ASSUME NEW p \in Procs, Quiet!CreateStep(p)
  PROVE  CreateStep(p)
<1>1. Quiet!ValidateClusterRequest(p) => ValidateClusterRequest(p)
  BY QuietCommands, QuietOutcomes DEF Quiet!ValidateClusterRequest,
         ValidateClusterRequest, Quiet!Goto, Goto, Quiet!Fail, Fail,
         Quiet!Become, Become, Quiet!stateVars, stateVars, Quiet!runtimeVars,
         runtimeVars
<1>2. Quiet!NewStateStat(p) => NewStateStat(p)
  BY QuietCommands, QuietOutcomes DEF Quiet!NewStateStat, NewStateStat,
         Quiet!StatDir, StatDir, Quiet!Goto, Goto, Quiet!Fail, Fail,
         Quiet!Become, Become, Quiet!stateVars, stateVars, Quiet!runtimeVars,
         runtimeVars
<1>3. Quiet!NewStateMkdir(p) => NewStateMkdir(p)
  BY QuietCommands, QuietOutcomes DEF Quiet!NewStateMkdir, NewStateMkdir,
         Quiet!MakeDir, MakeDir, Quiet!Goto, Goto, Quiet!Fail, Fail,
         Quiet!Become, Become, Quiet!stateVars, stateVars, Quiet!runtimeVars,
         runtimeVars
<1>4. Quiet!EnsureNetwork(p) => EnsureNetwork(p)
  BY QuietCommands, QuietOutcomes DEF Quiet!EnsureNetwork, EnsureNetwork,
         Quiet!Goto, Goto, Quiet!Fail, Fail, Quiet!Become, Become,
         Quiet!stateVars, stateVars, Quiet!runtimeVars, runtimeVars
<1>5. Quiet!CheckDNSDomain(p) => CheckDNSDomain(p)
  BY QuietCommands, QuietOutcomes DEF Quiet!CheckDNSDomain, CheckDNSDomain,
         Quiet!Goto, Goto, Quiet!Fail, Fail, Quiet!Become, Become,
         Quiet!stateVars, stateVars, Quiet!runtimeVars, runtimeVars
<1>6. Quiet!CheckVolume(p) => CheckVolume(p)
  BY QuietCommands, QuietOutcomes, ZenonT(60) DEF Quiet!CheckVolume, CheckVolume,
         Quiet!Goto, Goto, Quiet!Fail, Fail, Quiet!Become, Become,
         Quiet!stateVars, stateVars, Quiet!runtimeVars, runtimeVars
<1>7. Quiet!CreateVolume(p) => CreateVolume(p)
  BY QuietCommands, QuietOutcomes DEF Quiet!CreateVolume, CreateVolume,
         Quiet!Fail, Fail, Quiet!NextVolume, NextVolume, Quiet!NextNode,
         NextNode, Quiet!Become, Become, Quiet!stateVars, stateVars,
         Quiet!runtimeVars, runtimeVars
<1>8. Quiet!Launch(p) => Launch(p)
  BY QuietCommands, QuietOutcomes DEF Quiet!Launch, Launch, Quiet!Goto, Goto,
         Quiet!Fail, Fail, Quiet!Become, Become, Quiet!stateVars, stateVars,
         Quiet!runtimeVars, runtimeVars
<1>9. Quiet!WaitForIPv4(p) => WaitForIPv4(p)
  BY QuietCommands, QuietOutcomes DEF Quiet!WaitForIPv4, WaitForIPv4,
         Quiet!IsRunning, IsRunning, Quiet!NextNode, NextNode, Quiet!Fail, Fail,
         Quiet!Become, Become, Quiet!stateVars, stateVars, Quiet!runtimeVars,
         runtimeVars
<1>10. Quiet!ReconcileConfigs(p) => ReconcileConfigs(p)
  BY QuietCommands, QuietOutcomes DEF Quiet!ReconcileConfigs, ReconcileConfigs,
         Quiet!IsRunning, IsRunning, Quiet!NextNode, NextNode, Quiet!Fail, Fail,
         Quiet!Become, Become, Quiet!stateVars, stateVars, Quiet!runtimeVars,
         runtimeVars
<1>11. Quiet!SaveOpen(p) => SaveOpen(p)
  BY QuietCommands, QuietOutcomes DEF Quiet!SaveOpen, SaveOpen,
         Quiet!OpenRecord, OpenRecord, Quiet!NoRecord, NoRecord,
         Quiet!TornRecord, TornRecord, Quiet!Goto, Goto, Quiet!Fail, Fail,
         Quiet!Become, Become, Quiet!stateVars, stateVars, Quiet!runtimeVars,
         runtimeVars
<1>12. Quiet!SaveWrite(p) => SaveWrite(p)
  BY QuietCommands, QuietOutcomes DEF Quiet!SaveWrite, SaveWrite,
         Quiet!WriteRecord, WriteRecord, Quiet!Goto, Goto, Quiet!Fail, Fail,
         Quiet!Become, Become, Quiet!stateVars, stateVars, Quiet!runtimeVars,
         runtimeVars
<1>13. Quiet!SaveTalosconfig(p) => SaveTalosconfig(p)
  BY QuietCommands, QuietOutcomes DEF Quiet!SaveTalosconfig, SaveTalosconfig,
         Quiet!MakeDir, MakeDir, Quiet!Goto, Goto, Quiet!Fail, Fail,
         Quiet!Become, Become, Quiet!stateVars, stateVars, Quiet!runtimeVars,
         runtimeVars
<1> QED
  BY <1>1, <1>2, <1>3, <1>4, <1>5, <1>6, <1>7, <1>8, <1>9, <1>10, <1>11, <1>12, <1>13 DEF Quiet!CreateStep, CreateStep

(* A destroy starts as it always could.                                      *)
LEMMA QuietStarts ==
  ASSUME TRUE \in CliPresent, NEW p \in Procs, Quiet!StartDestroy(p)
  PROVE  /\ StartDestroy(p)
         /\ \E c \in DestroyTargets :
              Begin(p, [Idle EXCEPT !.op = "destroy", !.target = c, !.cli = TRUE,
                                    !.pc = "reflect"])
<1>1. \A me : Quiet!Begin(p, me) <=> Begin(p, me)
  BY DEF Quiet!Begin, Begin, Quiet!Running, Running, Quiet!Meets, Meets
<1>2. Quiet!Idle = Idle
  BY DEF Quiet!Idle, Idle
<1>3. PICK c \in DestroyTargets :
        Begin(p, [Idle EXCEPT !.op = "destroy", !.target = c, !.cli = TRUE,
                              !.pc = "reflect"])
  BY <1>1, <1>2 DEF Quiet!StartDestroy
<1>4. UNCHANGED <<runtimeVars, stateVars>> /\ p \in Destroyers /\ proc[p].pc = "idle"
  BY DEF Quiet!StartDestroy, Quiet!stateVars, stateVars, Quiet!runtimeVars, runtimeVars
<1> QED
  BY <1>3, <1>4 DEF StartDestroy

(* All that is left to happen once calm.                                     *)
LEMMA QuietActs ==
  ASSUME TRUE \in CliPresent, Quiet!Next
  PROVE  \E p \in Procs :
           \/ StartDestroy(p) \/ CreateStep(p) \/ Exit(p)
           \/ DestroyStep(p) /\ Quiet!DestroyStep(p)
<1>1. PICK p \in Procs :
        \/ Quiet!StartCreate(p) \/ Quiet!StartDestroy(p)
        \/ Quiet!CreateStep(p) \/ Quiet!DestroyStep(p)
        \/ Quiet!Exit(p) \/ Quiet!Crash(p)
  BY DEF Quiet!Next
<1>2. ~Quiet!StartCreate(p) /\ ~Quiet!Crash(p)
  BY DEF Quiet!StartCreate, Quiet!Crash
<1>3. Quiet!Exit(p) => Exit(p)
  BY DEF Quiet!Exit, Exit, Quiet!Become, Become, Quiet!Idle, Idle,
         Quiet!stateVars, stateVars, Quiet!runtimeVars, runtimeVars
<1> QED
  BY <1>1, <1>2, <1>3, QuietStarts, QuietCreates, QuietDestroys

LEMMA QuietSteps ==
  ASSUME TRUE \in CliPresent, Quiet!Next
  PROVE  Next
BY QuietActs DEF Next

-----------------------------------------------------------------------------
(* The inductive invariant: what a landing command can add to a teardown.    *)

(* What the volume sweep has still before it, and the volumes of its cluster *)
(* that it will not come to any more.                                        *)
Ahead(me) == IF me.pc = "sweepVol" THEN me.vols ELSE {}
Missed(me, c) == volumesMatchingLabel(c) \ Ahead(me)

(* Commands that bring something into cluster c, and what a launch needs.    *)
Makes(o, c) == o.target = c /\ o.pc = "volCreate"
Launches(o, c) == o.target = c /\ o.pc = "launch"
Needs(o) == nodeVolumeNames(o.work[o.pos].name)

(* The sweep has missed only volumes that landed after its listing.  Every   *)
(* container that is left, and every one that may still land, mounts one it  *)
(* comes to yet, and cannot delete.                                          *)
Pinned(me, c) ==
  /\ me.pc = "sweepVol" => me.cli
  /\ Missed(me, c) \subseteq strays
  /\ \A id \in containersMatchingLabel(c) : nodeVolumeNames(id.name) \cap Ahead(me) # {}
  /\ \A o \in orphans : Launches(o, c) =>
       /\ ~(Needs(o) \subseteq Missed(me, c))
       /\ \A q \in orphans : Makes(q, c) => Needs(o) \cap Missed(me, c) = {}

(* A destroy that has listed the volumes and has no error to report yet.     *)
Hopeful(me) ==
  /\ Undisputed(me) /\ me.pc \in {"sweepVol", "delNet", "rmRecord", "rmDir", "returned"}
  /\ me.badC = {} /\ me.badV = {} /\ me.bad = {}

(* The runtime deletes no volume that a container mounts.                    *)
MountsThere == \A x \in containers : Mounts(x) \subseteq VolumesNamed

(* The commands are those of sound invocations, and at most two.             *)
OrphansSound == \A o \in orphans : Sound(o) /\ o.pc \in Waiting
Few == IsFiniteSet(orphans) /\ \A a, b, c \in orphans : a = b \/ b = c \/ a = c

OrphansInv ==
  /\ OrphansSound /\ Few /\ MountsThere
  /\ \A p \in Procs : Hopeful(proc[p]) => Pinned(proc[p], proc[p].target)

-----------------------------------------------------------------------------
(* What a container mounts stays.                                            *)

LEMMA MountsStay ==
  ASSUME MountsThere, \A y \in containers' : \E x \in containers : y.id = x.id,
         \A x \in containers : \A n \in Mounts(x) : n \in VolumesNamed => n \in VolumesNamed'
  PROVE  MountsThere'
<1> SUFFICES ASSUME NEW y \in containers', NEW n \in Mounts(y)
             PROVE  n \in VolumesNamed'
  BY DEF MountsThere, Mounts
<1>1. PICK x \in containers : y.id = x.id
  OBVIOUS
<1>2. n \in Mounts(x)
  BY <1>1 DEF Mounts
<1> QED
  BY <1>2 DEF MountsThere

(* A launch adds its node, if the node's volumes are there.                  *)
LEMMA RunAdds ==
  ASSUME NEW id, NEW r, NEW err, runNode(id, r, err)
  PROVE  \A y \in containers' :
           \/ y \in containers
           \/ /\ y.id = id /\ y.label = id.name.cluster
              /\ nodeVolumeNames(id.name) \subseteq VolumesNamed
BY DEF runNode, Performed

(* A launch needs its volumes, and keeps all names.                          *)
LEMMA RunMounts ==
  ASSUME IInv, MountsThere, NEW id, NEW r, NEW err, runNode(id, r, err)
  PROVE  /\ MountsThere' /\ VolumesNamed' = VolumesNamed
<1>1. \A v \in volumes : [v EXCEPT !.booted = TRUE].name = v.name
  BY DEF IInv, RuntimeSound, RuntimeTypeOK, Volumes
<1>2. \/ volumes' = volumes
      \/ volumes' = {IF v.name \in nodeVolumeNames(id.name)
                       THEN [v EXCEPT !.booted = TRUE] ELSE v : v \in volumes}
  BY DEF runNode
<1>3. VolumesNamed' = VolumesNamed
  <2>1. \A w \in volumes' : \E v \in volumes : w.name = v.name
    <3>1. \A w \in volumes' : \E v \in volumes : w = v \/ w = [v EXCEPT !.booted = TRUE]
      BY <1>2
    <3> QED
      BY <1>1, <3>1
  <2>2. \A v \in volumes : \E w \in volumes' : w.name = v.name
    <3> SUFFICES ASSUME NEW v \in volumes, volumes' # volumes
                 PROVE  \E w \in volumes' : w.name = v.name
      OBVIOUS
    <3> DEFINE w == IF v.name \in nodeVolumeNames(id.name)
                      THEN [v EXCEPT !.booted = TRUE] ELSE v
    <3>1. w \in volumes' /\ w.name = v.name
      BY <1>1, <1>2
    <3> QED
      BY <3>1
  <2> QED
    BY <2>1, <2>2 DEF VolumesNamed
<1>4. MountsThere'
  <2> SUFFICES ASSUME NEW y \in containers'
               PROVE  Mounts(y) \subseteq VolumesNamed'
    BY DEF MountsThere, Mounts
  <2>1. CASE y \in containers
    BY <1>3, <2>1 DEF MountsThere
  <2>2. CASE y \notin containers
    <3>1. y.id = id /\ nodeVolumeNames(id.name) \subseteq VolumesNamed
      BY <2>2, RunAdds
    <3> QED
      BY <1>3, <3>1 DEF Mounts
  <2> QED
    BY <2>1, <2>2
<1> QED
  BY <1>3, <1>4

(* All other commands leave what is mounted.                                 *)
LEMMA OtherMounts ==
  ASSUME IInv, MountsThere, NEW id, NEW c, NEW r, NEW err,
         \/ stop(id, r, err) \/ remove(id, r, err) \/ volumeCreate(id, c, r, err)
         \/ volumeDelete(id, r, err) \/ ensureNetwork(id, r, err)
         \/ destroyNetwork(id, r, err) \/ UNCHANGED <<containers, volumes>>
  PROVE  MountsThere'
<1>1. CASE UNCHANGED <<containers, volumes>>
  BY <1>1, MountsStay DEF VolumesNamed
<1>2. CASE ensureNetwork(id, r, err) \/ destroyNetwork(id, r, err)
  BY <1>1, <1>2 DEF ensureNetwork, destroyNetwork, runtimeVars
<1>3. CASE stop(id, r, err)
  <2>1. volumes' = volumes
    BY <1>3 DEF stop
  <2> QED
    BY <1>3, <2>1, StopKeepsLabels, MountsStay DEF VolumesNamed
<1>4. CASE remove(id, r, err)
  <2>1. volumes' = volumes /\ containers' \subseteq containers
    BY <1>4 DEF remove
  <2> QED
    BY <2>1, MountsStay DEF VolumesNamed
<1>5. CASE volumeCreate(id, c, r, err)
  <2>1. volumes \subseteq volumes' /\ containers' = containers
    BY <1>5 DEF volumeCreate
  <2> QED
    BY <2>1, MountsStay DEF VolumesNamed
<1>6. CASE volumeDelete(id, r, err)
  <2>1. /\ containers' = containers
        /\ \/ volumes' = volumes
           \/ id \notin Mounted /\ volumes' = {v \in volumes : v.name # id}
    BY <1>6 DEF volumeDelete, Performed
  <2>2. \A x \in containers : \A n \in Mounts(x) : n \in VolumesNamed => n \in VolumesNamed'
    <3> SUFFICES ASSUME NEW x \in containers, NEW n \in Mounts(x), n \in VolumesNamed
                 PROVE  n \in VolumesNamed'
      OBVIOUS
    <3>1. n \in Mounted
      BY DEF Mounted
    <3>2. PICK v \in volumes : v.name = n
      BY DEF VolumesNamed
    <3>3. v \in volumes'
      BY <2>1, <3>1, <3>2
    <3> QED
      BY <3>2, <3>3 DEF VolumesNamed
  <2> QED
    BY <2>1, <2>2, MountsStay
<1> QED
  BY <1>1, <1>2, <1>3, <1>4, <1>5, <1>6

(* Every step is one command, or none.                                       *)
LEMMA StepKeepsMounts ==
  ASSUME IInv, MountsThere, NEW q \in Procs, Acts(q)
  PROVE  MountsThere'
<1>1. CASE Launch(q)
  BY <1>1, RunMounts DEF Launch
<1>2. CASE EnsureNetwork(q) \/ DestroyNetwork(q)
  BY <1>2, OtherMounts DEF EnsureNetwork, DestroyNetwork
<1>3. CASE CreateVolume(q)
  BY <1>3, OtherMounts DEF CreateVolume
<1>4. CASE StopRecorded(q) \/ SweepStop(q)
  BY <1>4, OtherMounts DEF StopRecorded, SweepStop
<1>5. CASE RemoveRecorded(q) \/ SweepRemove(q)
  BY <1>5, OtherMounts DEF RemoveRecorded, SweepRemove
<1>6. CASE DeleteRecordedVolume(q) \/ SweepVolume(q)
  BY <1>6, OtherMounts DEF DeleteRecordedVolume, SweepVolume
<1>7. CASE UNCHANGED <<containers, volumes>>
  BY <1>7, OtherMounts
<1>8. CASE \/ StartCreate(q) \/ StartDestroy(q) \/ Exit(q) \/ Crash(q)
           \/ ValidateClusterRequest(q) \/ NewStateStat(q) \/ NewStateMkdir(q)
           \/ CheckDNSDomain(q) \/ WaitForIPv4(q) \/ ReconcileConfigs(q)
           \/ SaveOpen(q) \/ SaveWrite(q) \/ SaveTalosconfig(q)
           \/ Reflect(q) \/ ListContainers(q) \/ ListVolumes(q)
           \/ RemoveStateFiles(q) \/ RemoveStateDir(q)
  BY <1>7, <1>8 DEF StartCreate, StartDestroy, Exit, Crash, ValidateClusterRequest,
     NewStateStat, NewStateMkdir, CheckDNSDomain, WaitForIPv4, ReconcileConfigs,
     SaveOpen, SaveWrite, SaveTalosconfig, Reflect, ListContainers, ListVolumes,
     RemoveStateFiles, RemoveStateDir, runtimeVars
<1>9. CASE CheckVolume(q)
  BY <1>7, <1>9 DEF CheckVolume, volumeExists, runtimeVars
<1> QED
  BY <1>1, <1>2, <1>3, <1>4, <1>5, <1>6, <1>8, <1>9 DEF Acts, CreateStep, DestroyStep

-----------------------------------------------------------------------------
(* What the steps of the invocations leave pinned.                           *)

(* Labels and names say the same of containers and volumes.                  *)
LEMMA NamesTell ==
  ASSUME SanitizedInjective, IInv, NEW c \in Clusters
  PROVE  /\ \A x \in containers : x.label = c =>
              x.id \in NodeInfos /\ x.id.name.cluster = c /\ Mounts(x) = nodeVolumeNames(x.id.name)
         /\ \A v \in volumes : v.label = c <=> v.name.owner = Sanitized[c]
<1>1. \A x \in containers : x.label = c =>
        x.id \in NodeInfos /\ x.id.name.cluster = c /\ x.id \notin Foreign
  BY IdentityAssumption, ProvisionerAssumption
     DEF IInv, RuntimeSound, ContainersOwned, ForeignContainer, NodeContainer
<1>2. \A v \in volumes : v.label \in Clusters /\ v.name.owner = Sanitized[v.label]
  BY DEF IInv, RuntimeSound, RuntimeTypeOK, Volumes, VolumesOwned
<1> QED
  BY <1>1, <1>2 DEF SanitizedInjective, Mounts

(* The same after a step.                                                    *)
LEMMA NamesTellNext ==
  ASSUME SanitizedInjective, IInv', NEW c \in Clusters
  PROVE  \A x \in containers' : x.label = c =>
           x.id \in NodeInfos /\ x.id.name.cluster = c /\ Mounts(x) = nodeVolumeNames(x.id.name)
<1>1. \A x \in containers' : x.label = c =>
        x.id \in NodeInfos /\ x.id.name.cluster = c /\ x.id \notin Foreign
  BY IdentityAssumption, ProvisionerAssumption
     DEF IInv, RuntimeSound, ContainersOwned, ForeignContainer, NodeContainer
<1> QED
  BY <1>1 DEF Mounts

(* If nothing is added, and what the sweep is done with is gone, whatever it *)
(* was pinned by is there still: no command deletes a mounted volume.        *)
LEMMA PinnedStays ==
  ASSUME SanitizedInjective, IInv', MountsThere', NEW c \in Clusters, NEW p \in Procs,
         Pinned(proc[p], c),
         proc'[p].pc = "sweepVol" => proc'[p].cli,
         \A n \in Ahead(proc[p]) : n \in Ahead(proc[p])' \/ n \notin VolumesNamed',
         (containersMatchingLabel(c))' \subseteq containersMatchingLabel(c),
         (volumesMatchingLabel(c))' \subseteq volumesMatchingLabel(c),
         strays \cap VolumesNamed' \subseteq strays',
         \A o \in orphans' : Launches(o, c) \/ Makes(o, c) => o \in orphans
  PROVE  Pinned(proc[p], c)'
<1>1. (volumesMatchingLabel(c))' \subseteq VolumesNamed'
  BY DEF volumesMatchingLabel, VolumesNamed
<1>2. Missed(proc[p], c)' \subseteq Missed(proc[p], c) \cap VolumesNamed'
  BY <1>1 DEF Missed
<1>3. Missed(proc[p], c)' \subseteq strays'
  BY <1>2 DEF Pinned
<1>4. ASSUME NEW id \in (containersMatchingLabel(c))'
      PROVE  nodeVolumeNames(id.name) \cap Ahead(proc[p])' # {}
  <2>1. PICK n \in nodeVolumeNames(id.name) : n \in Ahead(proc[p])
    BY <1>4 DEF Pinned
  <2>2. PICK x \in containers' : x.id = id /\ x.label = c
    BY <1>4, Listed
  <2>3. n \in VolumesNamed'
    BY <2>1, <2>2, NamesTellNext DEF MountsThere, Mounts
  <2> QED
    BY <2>1, <2>3
<1>5. ASSUME NEW o \in orphans', Launches(o, c)
      PROVE  /\ ~(Needs(o) \subseteq Missed(proc[p], c)')
             /\ \A q \in orphans' : Makes(q, c) => Needs(o) \cap Missed(proc[p], c)' = {}
  <2>1. o \in orphans
    BY <1>5
  <2>2. ~(Needs(o) \subseteq Missed(proc[p], c))
    BY <1>5, <2>1 DEF Pinned
  <2>3. \A q \in orphans' : Makes(q, c) => Needs(o) \cap Missed(proc[p], c) = {}
    BY <1>5, <2>1 DEF Pinned
  <2> QED
    BY <1>2, <2>2, <2>3
<1>6. \A o : Launches(o, c)' <=> Launches(o, c)
  BY DEF Launches
<1> QED
  BY <1>3, <1>4, <1>5 DEF Pinned, Launches, Makes, Needs

(* An undisputed destroy runs beside no create of its cluster.               *)
LEMMA NoCreateBeside ==
  ASSUME IInv, Witnesses, NEW q \in Procs, NEW p \in Procs, Undisputed(proc[p]),
         proc[p].pc # "idle", proc[q].target = proc[p].target
  PROVE  proc[q].pc \notin CreatePhases
<1> SUFFICES ASSUME proc[q].pc \in CreatePhases
             PROVE  FALSE
  OBVIOUS
<1>1. proc[q].op = "create" /\ Running(q)
  BY DEF IInv, ProcSound, Sound, Running, CreatePhases
<1>2. p # q /\ Witnessed(p, q)
  BY <1>1 DEF Witnesses, Undisputed
<1> QED
  BY <1>1, <1>2 DEF Witnessed, Meets, Undisputed

(* What the step of an invocation may do to the commands: nothing, or add    *)
(* its own by being killed.                                                  *)
Kept(q) ==
  /\ \A o \in orphans' : o \in orphans \/ o = proc[q]
  /\ strays \cap VolumesNamed' \subseteq strays'

(* Then an undisputed destroy sees no new command that brings something.     *)
LEMMA NothingNew ==
  ASSUME IInv, Witnesses, NEW q \in Procs, NEW p \in Procs, Undisputed(proc[p]),
         proc[p].pc # "idle", NEW c \in Clusters, proc[p].target = c, Kept(q)
  PROVE  \A o \in orphans' : Launches(o, c) \/ Makes(o, c) => o \in orphans
<1>1. ~(Launches(proc[q], c) \/ Makes(proc[q], c))
  BY NoCreateBeside DEF Launches, Makes, CreatePhases
<1> QED
  BY <1>1 DEF Kept

(* The steps of others leave a destroy what it had.                          *)
LEMMA OthersLeavePinned ==
  ASSUME SanitizedInjective, IInv, IInv', Witnesses, MountsThere', NEW q \in Procs,
         NEW p \in Procs \ {q}, Acts(q), Kept(q), Hopeful(proc'[p]),
         NEW c \in Clusters, proc[p].target = c,
         Hopeful(proc[p]) => Pinned(proc[p], c)
  PROVE  Pinned(proc[p], c)'
<1>1. SameSweep(proc[p], proc'[p])
  BY OthersSameSweep
<1>2. Hopeful(proc[p])
  BY <1>1 DEF SameSweep, Hopeful, Undisputed
<1>3. proc[p].pc # "idle" /\ Undisputed(proc[p])
  BY <1>2 DEF Hopeful
<1>4. ~(CreateStep(q) /\ proc[q].target = c)
  BY <1>3, NoCreateBeside, CreateKeeps
<1>5. Shrinks(c)
  BY <1>4, StepShrinks
<1>6. \A o \in orphans' : Launches(o, c) \/ Makes(o, c) => o \in orphans
  BY <1>3, NothingNew
<1>7. /\ proc'[p].pc = "sweepVol" => proc'[p].cli
      /\ Ahead(proc[p])' = Ahead(proc[p])
  BY <1>1, <1>2 DEF SameSweep, Pinned, Ahead
<1> QED
  BY <1>2, <1>5, <1>6, <1>7, PinnedStays DEF Shrinks, Kept

(* The listing: nothing is missed, and every container of the cluster mounts *)
(* volumes that are on the list.                                             *)
LEMMA ListingPins ==
  ASSUME SanitizedInjective, IInv, OrphansInv, NEW p \in Procs, NEW c \in Clusters,
         proc[p].target = c, ListVolumes(p), proc'[p].bad = {},
         \A o \in orphans' : Launches(o, c) \/ Makes(o, c) => o \in orphans
  PROVE  Pinned(proc[p], c)'
<1> DEFINE me == proc[p]
           names == volumesMatchingLabel(c)
<1>1. /\ me \in Invocations
      /\ (containersMatchingLabel(c))' = containersMatchingLabel(c)
      /\ (volumesMatchingLabel(c))' = names
  BY DEF IInv, ProcSound, ListVolumes, runtimeVars, containersMatchingLabel,
         volumesMatchingLabel
<1>2. PICK r \in Execs(p) :
        IF ListFails(r)
          THEN Become(p, [me EXCEPT !.pc = "delNet", !.bad = @ \cup {"listV"}])
          ELSE Become(p, [me EXCEPT !.vols = names,
                            !.pc = IF names = {} THEN "delNet" ELSE "sweepVol"])
  BY DEF ListVolumes
<1>3. ~ListFails(r)
  <2> SUFFICES ASSUME ListFails(r)
               PROVE  FALSE
    OBVIOUS
  <2>1. proc'[p] = [me EXCEPT !.pc = "delNet", !.bad = me.bad \cup {"listV"}]
    BY <1>2 DEF Become, IInv, ProcSound
  <2>2. proc'[p].bad = me.bad \cup {"listV"}
    BY <1>1, <2>1 DEF Invocations
  <2> QED
    BY <2>2
<1> DEFINE phase == IF names = {} THEN "delNet" ELSE "sweepVol"
<1>4. proc'[p] = [me EXCEPT !.vols = names, !.pc = phase]
  BY <1>2, <1>3 DEF Become, IInv, ProcSound
<1>5. me.cli
  BY <1>2, <1>3 DEF Execs, ListFails, Reply
<1> HIDE DEF names, phase
<1>6. proc'[p].pc = phase /\ proc'[p].vols = names /\ proc'[p].cli = me.cli
  BY <1>1, <1>4 DEF Invocations
<1>7. Ahead(proc[p])' = names
  BY <1>6 DEF Ahead, phase
<1>8. Missed(proc[p], c)' = {}
  BY <1>1, <1>7 DEF Missed, names
<1>9. \A id \in (containersMatchingLabel(c))' : nodeVolumeNames(id.name) \cap names # {}
  <2> SUFFICES ASSUME NEW id \in containersMatchingLabel(c)
               PROVE  nodeVolumeNames(id.name) \cap names # {}
    BY <1>1
  <2>1. PICK x \in containers : x.id = id /\ x.label = c
    BY Listed
  <2>2. id \in NodeInfos /\ id.name.cluster = c /\ Mounts(x) = nodeVolumeNames(id.name)
    BY <2>1, NamesTell
  <2> DEFINE n == nodeVolumeName(id.name, "var")
  <2>3. n \in nodeVolumeNames(id.name) /\ n.owner = Sanitized[c]
    BY <2>2 DEF nodeVolumeNames, nodeVolumeName, Kinds
  <2>4. PICK v \in volumes : v.name = n
    BY <2>1, <2>2, <2>3 DEF OrphansInv, MountsThere, VolumesNamed
  <2>5. v.label = c
    BY <2>3, <2>4, NamesTell
  <2> QED
    BY <2>3, <2>4, <2>5, Listed DEF names
<1>10. \A o : Needs(o) # {}
  BY DEF Needs, nodeVolumeNames, Kinds
<1> QED
  BY <1>5, <1>6, <1>7, <1>8, <1>9, <1>10 DEF Pinned, Needs

(* The sweep deletes the next volume of its list or notes that it did not.   *)
LEMMA SweepStaysPinned ==
  ASSUME SanitizedInjective, IInv, IInv', MountsThere', NEW p \in Procs,
         NEW c \in Clusters, proc[p].target = c, SweepVolume(p),
         proc[p].badV = {} => Pinned(proc[p], c), proc'[p].badV = {},
         strays \cap VolumesNamed' \subseteq strays',
         \A o \in orphans' : Launches(o, c) \/ Makes(o, c) => o \in orphans
  PROVE  Pinned(proc[p], c)'
<1> DEFINE me == proc[p]
<1>1. me \in Invocations /\ me.pc = "sweepVol"
  BY DEF IInv, ProcSound, SweepVolume
<1>2. PICK name \in me.vols, r \in Execs(p), err \in BOOLEAN :
        /\ volumeDelete(name, r, err)
        /\ Become(p, [me EXCEPT
             !.pc = IF me.vols = {name} THEN "delNet" ELSE "sweepVol",
             !.vols = @ \ {name}, !.badV = Note(err, @, name)])
  BY DEF SweepVolume
<1> DEFINE noted == Note(err, me.badV, name)
           phase == IF me.vols = {name} THEN "delNet" ELSE "sweepVol"
           left == me.vols \ {name}
<1>3. proc'[p] = [me EXCEPT !.pc = phase, !.vols = left, !.badV = noted]
  BY <1>2 DEF Become, IInv, ProcSound
<1>4. phase = "sweepVol" \/ (phase = "delNet" /\ left = {})
  OBVIOUS
<1>5. me.badV \subseteq noted /\ (err => name \in noted)
  BY DEF Note
<1> HIDE DEF noted, phase
<1>6. /\ proc'[p].pc = phase /\ proc'[p].cli = me.cli
      /\ proc'[p].vols = left /\ proc'[p].badV = noted
  BY <1>1, <1>3 DEF Invocations
<1>7. me.badV = {} /\ ~err
  BY <1>5, <1>6
<1>8. Pinned(proc[p], c) /\ me.cli
  BY <1>1, <1>7 DEF Pinned
<1>9. volumes' \subseteq volumes /\ name \notin VolumesNamed'
  BY <1>2, <1>7, <1>8, DeletedOrNoted DEF VolumesNamed
<1>10. /\ (containersMatchingLabel(c))' = containersMatchingLabel(c)
       /\ (volumesMatchingLabel(c))' \subseteq volumesMatchingLabel(c)
  <2>1. containers' = containers
    BY <1>2 DEF volumeDelete
  <2> QED
    BY <1>9, <2>1, Listed DEF containersMatchingLabel
<1>11. Ahead(proc[p])' = left /\ Ahead(proc[p]) = me.vols
  BY <1>1, <1>4, <1>6 DEF Ahead
<1> QED
  BY <1>6, <1>8, <1>9, <1>10, <1>11, PinnedStays

(* The rest of a destroy touches neither containers nor volumes.             *)
LEMMA EndStaysPinned ==
  ASSUME SanitizedInjective, IInv, IInv', MountsThere', NEW p \in Procs,
         NEW c \in Clusters, proc[p].target = c,
         DestroyNetwork(p) \/ RemoveStateFiles(p) \/ RemoveStateDir(p),
         proc[p].bad = {} /\ proc[p].badC = {} /\ proc[p].badV = {} => Pinned(proc[p], c),
         Hopeful(proc'[p]), strays \cap VolumesNamed' \subseteq strays',
         \A o \in orphans' : Launches(o, c) \/ Makes(o, c) => o \in orphans
  PROVE  Pinned(proc[p], c)'
<1> DEFINE me == proc[p]
<1>1. /\ me \in Invocations /\ me.pc \in {"delNet", "rmRecord", "rmDir"}
      /\ (containersMatchingLabel(c))' = containersMatchingLabel(c)
      /\ (volumesMatchingLabel(c))' = volumesMatchingLabel(c)
  BY DEF IInv, ProcSound, DestroyNetwork, destroyNetwork, RemoveStateFiles,
         RemoveStateDir, runtimeVars, containersMatchingLabel, volumesMatchingLabel
<1>2. PICK phase, what, err :
        /\ proc'[p] = [me EXCEPT !.pc = phase, !.bad = Note(err, me.bad, what)]
        /\ phase \in {"rmRecord", "rmDir", "returned"}
  <2>1. CASE DestroyNetwork(p)
    BY <2>1 DEF DestroyNetwork, Become, IInv, ProcSound
  <2>2. CASE RemoveStateFiles(p)
    BY <2>2 DEF RemoveStateFiles, Become, IInv, ProcSound
  <2>3. CASE RemoveStateDir(p)
    BY <2>3 DEF RemoveStateDir, Become, IInv, ProcSound
  <2> QED
    BY <2>1, <2>2, <2>3
<1> DEFINE noted == Note(err, me.bad, what)
<1>3. me.bad \subseteq noted
  BY DEF Note
<1>4. proc'[p] = [me EXCEPT !.pc = phase, !.bad = noted]
  BY <1>2
<1> HIDE DEF noted
<1>5. /\ proc'[p].pc = phase /\ proc'[p].bad = noted
      /\ proc'[p].badC = me.badC /\ proc'[p].badV = me.badV
  BY <1>1, <1>4 DEF Invocations
<1>6. Pinned(proc[p], c)
  BY <1>3, <1>5 DEF Hopeful
<1>7. Ahead(proc[p]) = {} /\ proc'[p].pc # "sweepVol"
  BY <1>1, <1>2, <1>5 DEF Ahead
<1> QED
  BY <1>1, <1>6, <1>7, PinnedStays

(* The container sweep goes on to the volumes' listing.                      *)
LEMMA SweepingOn ==
  ASSUME IInv, NEW p \in Procs, ListContainers(p) \/ SweepStop(p) \/ SweepRemove(p)
  PROVE  proc'[p].pc \in {"listV", "sweepStop", "sweepRm"}
<1> DEFINE me == proc[p]
<1>1. me \in Invocations
  BY DEF IInv, ProcSound
<1>2. CASE ListContainers(p)
  <2>1. \/ proc'[p] = [me EXCEPT !.pc = "listV", !.bad = me.bad \cup {"listC"}]
        \/ \E phase \in {"listV", "sweepStop"} : \E ids :
             proc'[p] = [me EXCEPT !.todo = ids, !.pc = phase]
    BY <1>2 DEF ListContainers, Become, IInv, ProcSound
  <2> QED
    BY <1>1, <2>1, ZenonT(60) DEF Invocations
<1>3. CASE SweepStop(p)
  <2>1. \E ids, noted : proc'[p] = [me EXCEPT !.pc = "sweepRm", !.cur = ids, !.badC = noted]
    BY <1>3, ZenonT(60) DEF SweepStop, Become, IInv, ProcSound
  <2> QED
    BY <1>1, <2>1 DEF Invocations
<1>4. CASE SweepRemove(p)
  <2>1. PICK id \in me.cur, err \in BOOLEAN :
          proc'[p] = [me EXCEPT
            !.pc = IF me.todo = {id} THEN "listV" ELSE "sweepStop",
            !.cur = {}, !.todo = @ \ {id}, !.badC = Note(err, @, id)]
    BY <1>4 DEF SweepRemove, Become, IInv, ProcSound
  <2> DEFINE phase == IF me.todo = {id} THEN "listV" ELSE "sweepStop"
             left == me.todo \ {id}
             noted == Note(err, me.badC, id)
  <2>2. proc'[p] = [me EXCEPT !.pc = phase, !.cur = {}, !.todo = left, !.badC = noted]
    BY <2>1
  <2>3. phase \in {"listV", "sweepStop"}
    OBVIOUS
  <2> HIDE DEF phase, left, noted
  <2> QED
    BY <1>1, <2>2, <2>3 DEF Invocations
<1> QED
  BY <1>2, <1>3, <1>4

(* So a destroy keeps its own promise.                                       *)
LEMMA OwnStaysPinned ==
  ASSUME SanitizedInjective, IInv, IInv', Witnesses, OrphansInv, MountsThere',
         NEW p \in Procs, Acts(p), Kept(p), Hopeful(proc'[p])
  PROVE  /\ proc'[p].target \in Clusters /\ proc[p].target = proc'[p].target
         /\ \A c \in Clusters : c = proc[p].target => Pinned(proc[p], c)'
<1>1. DestroyStep(p)
  <2>1. ~Starts(p)
    BY Begun DEF Starts, Hopeful, Undisputed
  <2>2. ~(Exit(p) \/ Crash(p))
    <3> SUFFICES ASSUME Exit(p) \/ Crash(p)
                 PROVE  FALSE
      OBVIOUS
    <3>1. proc'[p] = Idle
      BY DEF Exit, Crash, Become, IInv, ProcSound
    <3> QED
      BY <3>1 DEF Idle, Hopeful
  <2>3. ~CreateStep(p)
    <3> SUFFICES ASSUME CreateStep(p)
                 PROVE  FALSE
      OBVIOUS
    <3>1. proc[p].op = "create" /\ proc'[p].op = proc[p].op
      BY CreateKeeps DEF Keeps, IInv, ProcSound, Sound
    <3> QED
      BY <3>1 DEF Hopeful, Undisputed
  <2> QED
    BY <2>1, <2>2, <2>3 DEF Acts, Starts
<1>2. Keeps(proc[p], proc'[p]) /\ proc[p].pc \in DestroyPhases
  BY <1>1, DestroyKeeps
<1>3. /\ proc'[p].target \in Clusters /\ proc[p].target = proc'[p].target
      /\ Undisputed(proc[p]) /\ proc[p].pc # "idle"
  BY <1>2 DEF Keeps, Hopeful, Undisputed, DestroyPhases
<1>4. ASSUME NEW c \in Clusters, c = proc[p].target
      PROVE  Pinned(proc[p], c)'
  <2>1. /\ \A o \in orphans' : Launches(o, c) \/ Makes(o, c) => o \in orphans
        /\ strays \cap VolumesNamed' \subseteq strays'
    BY <1>3, <1>4, NothingNew DEF Kept
  <2>2. Hopeful(proc[p]) => Pinned(proc[p], c)
    BY <1>4 DEF OrphansInv
  <2>3. ~(Reflect(p) \/ StopRecorded(p) \/ RemoveRecorded(p) \/ DeleteRecordedVolume(p))
    BY <1>4, RecordedPhase DEF Hopeful
  <2>4. CASE ListVolumes(p)
    BY <1>4, <2>1, <2>4, ListingPins DEF Hopeful
  <2>5. CASE SweepVolume(p)
    <3>1. /\ proc[p].pc = "sweepVol"
          /\ proc'[p].bad = proc[p].bad /\ proc'[p].badC = proc[p].badC
      <4>1. PICK name \in proc[p].vols, err \in BOOLEAN :
              proc'[p] = [proc[p] EXCEPT
                !.pc = IF proc[p].vols = {name} THEN "delNet" ELSE "sweepVol",
                !.vols = @ \ {name}, !.badV = Note(err, @, name)]
        BY <2>5 DEF SweepVolume, Become, IInv, ProcSound
      <4> DEFINE phase == IF proc[p].vols = {name} THEN "delNet" ELSE "sweepVol"
                 left == proc[p].vols \ {name}
                 noted == Note(err, proc[p].badV, name)
      <4>2. proc'[p] = [proc[p] EXCEPT !.pc = phase, !.vols = left, !.badV = noted]
        BY <4>1
      <4>3. proc[p] \in Invocations /\ proc[p].pc = "sweepVol"
        BY <2>5 DEF SweepVolume, IInv, ProcSound
      <4> HIDE DEF phase, left, noted
      <4> QED
        BY <4>2, <4>3 DEF Invocations
    <3>2. proc[p].badV = {} => Hopeful(proc[p])
      BY <1>3, <3>1 DEF Hopeful
    <3> QED
      BY <1>4, <2>1, <2>2, <2>5, <3>2, SweepStaysPinned DEF Hopeful
  <2>6. CASE DestroyNetwork(p) \/ RemoveStateFiles(p) \/ RemoveStateDir(p)
    <3>1. proc[p].bad = {} /\ proc[p].badC = {} /\ proc[p].badV = {} => Hopeful(proc[p])
      BY <1>3, <2>6 DEF Hopeful, DestroyNetwork, RemoveStateFiles, RemoveStateDir
    <3> QED
      BY <1>4, <2>1, <2>2, <2>6, <3>1, EndStaysPinned
  <2>7. CASE ListContainers(p) \/ SweepStop(p) \/ SweepRemove(p)
    <3>1. proc'[p].pc \in {"listV", "sweepStop", "sweepRm"}
      BY <1>4, <2>7, SweepingOn
    <3> QED
      BY <3>1 DEF Hopeful
  <2> QED
    BY <1>1, <2>3, <2>4, <2>5, <2>6, <2>7 DEF DestroyStep
<1> QED
  BY <1>3, <1>4

-----------------------------------------------------------------------------
(* What a command that lands leaves pinned.                                  *)

(* The node and volume of a command are those of its invocation's target.    *)
LEMMA CommandContext ==
  ASSUME NEW o, Sound(o), o.pc \in Waiting
  PROVE  /\ o.target \in Clusters \cup {EmptyName}
         /\ o.net \in {NetworkOf[c] : c \in Clusters} \cup {NoNetwork}
         /\ o.pc \in {"volCreate", "launch"} => o.op = "create"
         /\ o.pc \in Waiting \ {"volCreate", "launch", "network"} => o.op = "destroy"
         /\ o.pc \in {"volCreate", "launch", "stop", "rm", "delVol"} =>
              /\ o.target \in Clusters
              /\ o.work[o.pos] \in NodeInfos /\ o.work[o.pos].name.cluster = o.target
              /\ nodeVolumeName(o.work[o.pos].name, o.kind) \in VolumeNames
              /\ nodeVolumeName(o.work[o.pos].name, o.kind).owner = Sanitized[o.target]
<1>1. o \in Invocations
  BY DEF Sound
<1>2. ASSUME o.pc \in {"volCreate", "launch", "stop", "rm", "delVol"}
      PROVE  /\ o.target \in Clusters
             /\ o.work[o.pos] \in NodeInfos /\ o.work[o.pos].name.cluster = o.target
             /\ nodeVolumeName(o.work[o.pos].name, o.kind) \in VolumeNames
             /\ nodeVolumeName(o.work[o.pos].name, o.kind).owner = Sanitized[o.target]
  <2>1. o.pos <= Len(o.work) /\ NodesOf(o.work, o.target)
    BY <1>2 DEF Sound, LoopPhases, CreatePhases
  <2>2. o.work \in Seq(NodeInfos) /\ o.pos \in Nat \ {0} /\ o.kind \in Kinds
    BY <1>1 DEF Invocations
  <2>3. o.pos \in DOMAIN o.work /\ o.work[o.pos] \in NodeInfos
    BY <2>1, <2>2
  <2> DEFINE node == o.work[o.pos]
  <2>4. node \in NodeInfos /\ node.name.cluster = o.target
    BY <2>1, <2>3 DEF NodesOf
  <2> HIDE DEF node
  <2>9. o.target \in Clusters
    BY <2>4 DEF NodeInfos, Nodes
  <2>5. node.name \in Nodes
    BY <2>4 DEF NodeInfos
  <2>6. node.name.role \in Roles /\ node.name.index \in Nat \ {0}
    BY <2>5 DEF Nodes
  <2>7. nodeVolumeName(node.name, o.kind) =
          [owner |-> Sanitized[o.target], role |-> node.name.role,
           index |-> node.name.index, kind |-> o.kind]
    BY <2>4 DEF nodeVolumeName
  <2>8. /\ nodeVolumeName(node.name, o.kind) \in VolumeNames
        /\ nodeVolumeName(node.name, o.kind).owner = Sanitized[o.target]
    BY <2>2, <2>6, <2>7, <2>9 DEF VolumeNames
  <2> QED
    BY <2>4, <2>8, <2>9 DEF node
<1>3. /\ o.pc \in {"volCreate", "launch"} => o.op = "create"
      /\ o.pc \in Waiting \ {"volCreate", "launch", "network"} => o.op = "destroy"
  BY DEF Sound, Waiting, CreatePhases, DestroyPhases
<1> QED
  BY <1>1, <1>2, <1>3 DEF Invocations

(* A command that adds nothing.                                              *)
Tidies(o, err) ==
  \E id, r :
    \/ stop(id, r, err) \/ remove(id, r, err) \/ volumeDelete(id, r, err)
    \/ destroyNetwork(id, r, err)
    \/ id \in {NetworkOf[c] : c \in Clusters} \cup {NoNetwork} /\ ensureNetwork(id, r, err)

(* Every command tidies, makes one volume or launches one node.              *)
LEMMA CommandIs ==
  ASSUME NEW o, Sound(o), o.pc \in Waiting, NEW err, Command(o, err)
  PROVE  \/ Tidies(o, err)
         \/ /\ o.pc = "volCreate"
            /\ volumeCreate(nodeVolumeName(o.work[o.pos].name, o.kind), o.target, "done", err)
         \/ o.pc = "launch" /\ runNode(o.work[o.pos], "done", err)
BY CommandContext DEF Command, Tidies

(* A command keeps ownership, whose it ever was.                             *)
LEMMA LandsSound ==
  ASSUME IInv, OrphansSound, MountsThere, Lands
  PROVE  IInv' /\ MountsThere'
<1>1. PICK o \in orphans, err \in BOOLEAN : Command(o, err)
  BY DEF Lands
<1>2. Sound(o) /\ o.pc \in Waiting
  BY DEF OrphansSound
<1>3. UNCHANGED stateVars /\ proc' = proc
  BY DEF Lands
<1>4. RuntimeSound' => IInv'
  BY <1>3, StateUntouched DEF IInv, ProcSound
<1>5. CASE Tidies(o, err)
  <2>1. PICK id, r :
          \/ stop(id, r, err) \/ remove(id, r, err) \/ volumeDelete(id, r, err)
          \/ destroyNetwork(id, r, err)
          \/ id \in {NetworkOf[c] : c \in Clusters} \cup {NoNetwork} /\ ensureNetwork(id, r, err)
    BY <1>5 DEF Tidies
  <2>2. RuntimeSound'
    BY <2>1, StopSound, RemoveSound, VolumeDeleteSound, DestroyNetworkSound,
       EnsureNetworkSound DEF IInv
  <2>3. MountsThere'
    BY <2>1, OtherMounts
  <2> QED
    BY <1>4, <2>2, <2>3
<1>6. CASE /\ o.pc = "volCreate"
           /\ volumeCreate(nodeVolumeName(o.work[o.pos].name, o.kind), o.target, "done", err)
  <2>1. RuntimeSound'
    BY <1>2, <1>6, CommandContext, VolumeCreateSound DEF IInv
  <2> QED
    BY <1>4, <1>6, <2>1, OtherMounts
<1>7. CASE o.pc = "launch" /\ runNode(o.work[o.pos], "done", err)
  <2>1. RuntimeSound'
    BY <1>2, <1>7, CommandContext, RunNodeSound DEF IInv
  <2> QED
    BY <1>4, <1>7, <2>1, RunMounts
<1> QED
  BY <1>1, <1>2, <1>5, <1>6, <1>7, CommandIs

(* A launch changes no volume's name or label.                               *)
LEMMA RunKeepsVolumes ==
  ASSUME IInv, NEW id, NEW r, NEW err, runNode(id, r, err)
  PROVE  \A w \in volumes' : \E v \in volumes : w.name = v.name /\ w.label = v.label
<1>1. \A v \in volumes : /\ [v EXCEPT !.booted = TRUE].name = v.name
                         /\ [v EXCEPT !.booted = TRUE].label = v.label
  BY DEF IInv, RuntimeSound, RuntimeTypeOK, Volumes
<1>2. \A w \in volumes' : \E v \in volumes : w = v \/ w = [v EXCEPT !.booted = TRUE]
  BY DEF runNode
<1> QED
  BY <1>1, <1>2

(* What lands elsewhere, or tidies, adds nothing to a cluster.               *)
LEMMA LandsElsewhere ==
  ASSUME IInv, NEW c \in Clusters, NEW o, Sound(o), o.pc \in Waiting, UNCHANGED stateVars,
         NEW err, Command(o, err), ~Makes(o, c), ~Launches(o, c)
  PROVE  /\ (containersMatchingLabel(c))' \subseteq containersMatchingLabel(c)
         /\ (volumesMatchingLabel(c))' \subseteq volumesMatchingLabel(c)
<1>1. CASE Tidies(o, err)
  BY <1>1, CommandShrinks DEF Tidies, Shrinks
<1>2. CASE /\ o.pc = "volCreate"
           /\ volumeCreate(nodeVolumeName(o.work[o.pos].name, o.kind), o.target, "done", err)
  <2>1. /\ containers' = containers
        /\ \A w \in volumes' : w \in volumes \/ w.label = o.target
    BY <1>2 DEF volumeCreate
  <2>2. o.target # c
    BY <1>2 DEF Makes
  <2> QED
    BY <2>1, <2>2, Listed
<1>3. CASE o.pc = "launch" /\ runNode(o.work[o.pos], "done", err)
  <2>1. o.work[o.pos].name.cluster # c
    BY <1>3, CommandContext DEF Launches
  <2>2. \A y \in containers' : y \in containers \/ y.label # c
    BY <1>3, <2>1, RunAdds
  <2>3. \A w \in volumes' : \E v \in volumes : w.name = v.name /\ w.label = v.label
    BY <1>3, RunKeepsVolumes
  <2> QED
    BY <2>2, <2>3, Listed
<1> QED
  BY <1>1, <1>2, <1>3, CommandIs

(* The volume that lands is a stray one, and no launch misses both of its    *)
(* volumes for it.                                                           *)
LEMMA VolumeLandsPinned ==
  ASSUME IInv, Few, NEW c \in Clusters, NEW p \in Procs, Pinned(proc[p], c), proc' = proc,
         NEW o \in orphans, Makes(o, c), orphans' = orphans \ {o}, NEW volume, NEW err,
         volumeCreate(volume, c, "done", err),
         strays' = (strays \cap VolumesNamed') \cup (VolumesNamed' \ VolumesNamed)
  PROVE  Pinned(proc[p], c)'
<1>1. /\ containers' = containers
      /\ \/ volumes' = volumes
         \/ /\ volume \notin VolumesNamed
            /\ volumes' = volumes \cup {[name |-> volume, label |-> c, booted |-> FALSE]}
  BY DEF volumeCreate, Performed
<1>2. /\ (containersMatchingLabel(c))' = containersMatchingLabel(c)
      /\ Ahead(proc[p])' = Ahead(proc[p])
  BY <1>1 DEF containersMatchingLabel, Ahead
<1>3. \A name \in (volumesMatchingLabel(c))' :
        \/ name \in volumesMatchingLabel(c)
        \/ name = volume /\ volume \notin VolumesNamed
  BY <1>1, Listed
<1>4. (volumesMatchingLabel(c))' \subseteq VolumesNamed'
  BY DEF volumesMatchingLabel, VolumesNamed
<1>5. \A name \in Missed(proc[p], c)' :
        \/ name \in Missed(proc[p], c)
        \/ name = volume /\ volume \notin VolumesNamed
  BY <1>2, <1>3 DEF Missed
<1>6. Missed(proc[p], c)' \subseteq strays'
  BY <1>4, <1>5 DEF Missed, Pinned
<1>7. ASSUME NEW l \in orphans', Launches(l, c)
      PROVE  /\ ~(Needs(l) \subseteq Missed(proc[p], c)')
             /\ \A q \in orphans' : ~Makes(q, c)
  <2>1. l \in orphans /\ l # o
    BY <1>7
  <2>2. Needs(l) \cap Missed(proc[p], c) = {}
    BY <1>7, <2>1 DEF Pinned
  <2> DEFINE var == nodeVolumeName(l.work[l.pos].name, "var")
             state == nodeVolumeName(l.work[l.pos].name, "system-state")
  <2>3. var \in Needs(l) /\ state \in Needs(l) /\ var # state
    BY DEF Needs, nodeVolumeNames, nodeVolumeName, Kinds
  <2>4. ~(Needs(l) \subseteq Missed(proc[p], c)')
    BY <1>5, <2>2, <2>3
  <2>5. \A q \in orphans' : ~Makes(q, c)
    BY <1>7, <2>1 DEF Few, Makes, Launches
  <2> QED
    BY <2>4, <2>5
<1> QED
  BY <1>2, <1>6, <1>7 DEF Pinned, Launches, Makes

(* A node that lands mounts a volume that the sweep comes to.                *)
LEMMA LaunchLandsPinned ==
  ASSUME SanitizedInjective, IInv, MountsThere, NEW c \in Clusters, NEW p \in Procs,
         Pinned(proc[p], c), proc' = proc, NEW o \in orphans, Launches(o, c),
         o.work[o.pos].name.cluster = c,
         orphans' = orphans \ {o}, NEW err, runNode(o.work[o.pos], "done", err),
         strays' = (strays \cap VolumesNamed') \cup (VolumesNamed' \ VolumesNamed)
  PROVE  Pinned(proc[p], c)'
<1> DEFINE node == o.work[o.pos]
<1>1. (volumesMatchingLabel(c))' \subseteq volumesMatchingLabel(c)
  BY RunKeepsVolumes, Listed
<1>2. VolumesNamed' = VolumesNamed
  BY RunMounts
<1>3. Ahead(proc[p])' = Ahead(proc[p])
  BY DEF Ahead
<1>4. Missed(proc[p], c)' \subseteq Missed(proc[p], c) \cap VolumesNamed'
  BY <1>1, <1>2, <1>3 DEF Missed, volumesMatchingLabel, VolumesNamed
<1>5. ASSUME NEW id \in (containersMatchingLabel(c))'
      PROVE  nodeVolumeNames(id.name) \cap Ahead(proc[p]) # {}
  <2>1. PICK x \in containers' : x.id = id /\ x.label = c
    BY <1>5, Listed
  <2>2. CASE x \in containers
    BY <2>1, <2>2, Listed DEF Pinned
  <2>3. CASE x \notin containers
    <3>1. id = node /\ nodeVolumeNames(node.name) \subseteq VolumesNamed
      BY <2>1, <2>3, RunAdds
    <3>2. PICK n \in Needs(o) : n \notin Missed(proc[p], c)
      BY DEF Pinned
    <3>3. n \in nodeVolumeNames(node.name) /\ n.owner = Sanitized[c]
      BY <3>2 DEF Needs, nodeVolumeNames, nodeVolumeName
    <3>4. n \in volumesMatchingLabel(c)
      <4>1. PICK v \in volumes : v.name = n
        BY <3>1, <3>3 DEF VolumesNamed
      <4> QED
        BY <3>3, <4>1, NamesTell, Listed
    <3> QED
      BY <3>1, <3>2, <3>3, <3>4 DEF Missed
  <2> QED
    BY <2>2, <2>3
<1> QED
  BY <1>3, <1>4, <1>5 DEF Pinned, Launches, Makes

(* Whatever lands, a hopeful destroy stays so.                               *)
LEMMA LandsPinned ==
  ASSUME SanitizedInjective, IInv, IInv', OrphansInv, MountsThere', Lands,
         NEW p \in Procs, Hopeful(proc[p]), NEW c \in Clusters, proc[p].target = c
  PROVE  Pinned(proc[p], c)'
<1>1. PICK o \in orphans : orphans' = orphans \ {o} /\ \E err \in BOOLEAN : Command(o, err)
  BY DEF Lands
<1>2. PICK err \in BOOLEAN : Command(o, err)
  BY <1>1
<1>3. /\ Sound(o) /\ o.pc \in Waiting /\ MountsThere /\ Few
      /\ Pinned(proc[p], c)
  BY DEF OrphansInv, OrphansSound
<1>4. /\ proc' = proc /\ UNCHANGED stateVars
      /\ strays' = (strays \cap VolumesNamed') \cup (VolumesNamed' \ VolumesNamed)
  BY DEF Lands
<1>5. CASE Makes(o, c)
  <2>1. volumeCreate(nodeVolumeName(o.work[o.pos].name, o.kind), c, "done", err)
    BY <1>2, <1>5 DEF Makes, Command
  <2> QED
    BY <1>1, <1>3, <1>4, <1>5, <2>1, VolumeLandsPinned
<1>6. CASE Launches(o, c)
  <2>1. runNode(o.work[o.pos], "done", err) /\ o.work[o.pos].name.cluster = c
    BY <1>2, <1>3, <1>6, CommandContext DEF Launches, Command
  <2> QED
    BY <1>1, <1>3, <1>4, <1>6, <2>1, LaunchLandsPinned
<1>7. CASE ~Makes(o, c) /\ ~Launches(o, c)
  <2>1. /\ (containersMatchingLabel(c))' \subseteq containersMatchingLabel(c)
        /\ (volumesMatchingLabel(c))' \subseteq volumesMatchingLabel(c)
    BY <1>2, <1>3, <1>4, <1>7, LandsElsewhere
  <2>2. Ahead(proc[p])' = Ahead(proc[p])
    BY <1>4 DEF Ahead
  <2>3. proc'[p].pc = "sweepVol" => proc'[p].cli
    BY <1>3, <1>4 DEF Pinned
  <2> QED
    BY <1>1, <1>3, <1>4, <2>1, <2>2, <2>3, PinnedStays
<1> QED
  BY <1>5, <1>6, <1>7

-----------------------------------------------------------------------------
(* The whole next-state relation.                                            *)

(* A set of less than two has nothing to tell apart.                         *)
LEMMA LessThanTwo ==
  ASSUME NEW S, IsFiniteSet(S), Cardinality(S) < 2, NEW a \in S, NEW b \in S
  PROVE  a = b
<1>1. Cardinality(S) \in Nat
  BY FS_CardinalityType
<1>2. Cardinality(S) = 0 \/ Cardinality(S) = 1
  BY <1>1
<1> QED
  BY <1>2, FS_EmptySet, FS_Singleton

(* An invocation that is killed leaves its command; the host sees a crash.   *)
LEMMA KillIsCrash ==
  ASSUME NEW q \in Procs, Kill(q)
  PROVE  Acts(q) /\ Kept(q)
<1>1. proc[q].pc \notin {"idle", "returned"}
  BY DEF Kill, Waiting
<1> QED
  BY <1>1 DEF Kill, Acts, Crash, Running, Kept

(* The other steps leave the commands, and what they made, alone.            *)
LEMMA RecoveryActs ==
  ASSUME TRUE \in CliPresent, RecoveryNext, Keep
  PROVE  \/ \E q \in Procs : Acts(q) /\ Kept(q)
         \/ UNCHANGED vars
<1>1. Next \/ UNCHANGED vars
  BY QuietSteps DEF RecoveryNext, CalmsDown
<1>2. \A q \in Procs : Kept(q)
  BY DEF Keep, Kept
<1> QED
  BY <1>1, <1>2 DEF Next, Acts

(* A killed invocation's command is as sound as it was.                      *)
LEMMA CommandsSound ==
  ASSUME IInv, OrphansSound, Keep \/ Lands \/ \E q \in Procs : Kill(q)
  PROVE  OrphansSound'
<1>1. CASE Keep \/ Lands
  BY <1>1 DEF Keep, Lands, OrphansSound
<1>2. ASSUME NEW q \in Procs, Kill(q)
      PROVE  OrphansSound'
  BY <1>2 DEF Kill, IInv, ProcSound, OrphansSound
<1> QED
  BY <1>1, <1>2

(* It is the second one at most.                                             *)
LEMMA FewKept ==
  ASSUME MaxOrphans <= 2, Few, Keep \/ Lands \/ \E q \in Procs : Kill(q)
  PROVE  Few'
<1>1. CASE Keep
  BY <1>1 DEF Keep, Few
<1>2. CASE Lands
  <2>1. PICK o \in orphans : orphans' = orphans \ {o}
    BY <1>2 DEF Lands
  <2>2. IsFiniteSet(orphans')
    BY <2>1, FS_RemoveElement DEF Few
  <2> QED
    BY <2>1, <2>2 DEF Few
<1>3. ASSUME NEW q \in Procs, Kill(q)
      PROVE  Few'
  <2>1. orphans' = orphans \cup {proc[q]}
    BY <1>3 DEF Kill
  <2>2. Cardinality(orphans) < 2
    <3>1. Cardinality(orphans) \in Nat /\ Cardinality(orphans) < MaxOrphans
      BY <1>3, FS_CardinalityType DEF Few, Kill
    <3> QED
      BY <3>1, OrphansAssumption
  <2>3. \A a, b \in orphans : a = b
    BY <2>2, LessThanTwo DEF Few
  <2>4. IsFiniteSet(orphans')
    BY <2>1, FS_AddElement DEF Few
  <2> QED
    BY <2>1, <2>3, <2>4 DEF Few
<1> QED
  BY <1>1, <1>2, <1>3

(* Whatever else lands, the host stays owned: this needs no bound on how     *)
(* many commands there are.                                                  *)
LEMMA BesideInitially == OrphansInit => IInv /\ OrphansSound /\ MountsThere
<1> SUFFICES ASSUME OrphansInit
             PROVE  IInv /\ OrphansSound /\ MountsThere
  OBVIOUS
<1>1. Init /\ orphans = {}
  BY DEF OrphansInit, RecoveryInit
<1>2. \A x \in containers : Mounts(x) = {}
  BY <1>1 DEF Init, RuntimeInit, Mounts, ForeignContainer
<1> QED
  BY <1>1, <1>2, Initially DEF OrphansSound, MountsThere

LEMMA BesideInductive ==
  ASSUME TRUE \in CliPresent
  PROVE  IInv /\ OrphansSound /\ MountsThere /\ [OrphansNext]_orphanVars
         => IInv' /\ OrphansSound' /\ MountsThere'
<1> SUFFICES ASSUME IInv, OrphansSound, MountsThere, [OrphansNext]_orphanVars
             PROVE  IInv' /\ OrphansSound' /\ MountsThere'
  OBVIOUS
<1>1. ASSUME UNCHANGED vars
      PROVE  IInv' /\ MountsThere'
  <2>1. IInv'
    BY <1>1, Inductive
  <2> QED
    BY <1>1, <2>1 DEF vars, runtimeVars, MountsThere, VolumesNamed
<1>2. ASSUME NEW q \in Procs, Acts(q), Kept(q)
      PROVE  IInv' /\ MountsThere'
  <2>1. IInv'
    BY <1>2, Inductive DEF Acts, Next
  <2> QED
    BY <1>2, <2>1, StepKeepsMounts
<1>3. CASE RecoveryNext /\ Keep
  BY <1>1, <1>2, <1>3, CommandsSound, RecoveryActs
<1>4. ASSUME NEW q \in Procs, Kill(q)
      PROVE  IInv' /\ OrphansSound' /\ MountsThere'
  BY <1>2, <1>4, CommandsSound, KillIsCrash
<1>5. CASE Lands
  BY <1>5, CommandsSound, LandsSound
<1>6. CASE UNCHANGED orphanVars
  BY <1>1, <1>6 DEF orphanVars, recoveryVars, OrphansSound
<1> QED
  BY <1>3, <1>4, <1>5, <1>6 DEF OrphansNext

(* What is lost in a step is a destroy's of the cluster it belonged to: of   *)
(* one that runs, or of one that was killed with its command under way.      *)
Agents == {proc[p] : p \in Procs} \cup orphans
OwnLost ==
  /\ \A x \in containers : x.id \notin {y.id : y \in containers'} =>
       \E me \in Agents : me.op = "destroy" /\ me.target = x.label
  /\ \A v \in volumes : v.name \notin {w.name : w \in volumes'} =>
       \E me \in Agents : me.op = "destroy" /\ me.target = v.label
  /\ \A x \in containers : x.id \in Foreign => x \in containers'

(* What a command takes away is its own invocation's, as it was before the   *)
(* kill.                                                                     *)
LEMMA LandsRemovesOwn ==
  ASSUME SanitizedInjective, IInv, NEW o, Sound(o), o.pc \in Waiting,
         NEW err, Command(o, err)
  PROVE  RemovesOwn(o)
<1> DEFINE node == o.work[o.pos]
           volume == nodeVolumeName(node.name, o.kind)
<1>1. CASE o.pc \in {"stop", "rm"}
  <2>1. stop(node, "done", err) \/ remove(node, "done", err)
    BY <1>1 DEF Command
  <2>2. o.op = "destroy" /\ node \in NodeInfos /\ node.name.cluster = o.target
    BY <1>1, CommandContext DEF Waiting
  <2> QED
    BY <2>1, <2>2, RemoveOwn
<1>2. CASE o.pc \in {"sweepStop", "sweepRm"}
  <2>1. PICK id \in o.todo \cup o.cur : stop(id, "done", err) \/ remove(id, "done", err)
    BY <1>2 DEF Command
  <2>2. o.op = "destroy" /\ id \in NodeInfos /\ id.name.cluster = o.target
    BY <1>2, CommandContext DEF Waiting, Sound, OwnContainers
  <2> QED
    BY <2>1, <2>2, RemoveOwn
<1>3. CASE o.pc = "delVol"
  <2>1. volumeDelete(volume, "done", err)
    BY <1>3 DEF Command
  <2>2. /\ o.op = "destroy" /\ o.target \in Clusters
        /\ volume.owner = Sanitized[o.target]
    BY <1>3, CommandContext DEF Waiting
  <2> QED
    BY <2>1, <2>2, DeleteOwn
<1>4. CASE o.pc = "sweepVol"
  <2>1. PICK name \in o.vols : volumeDelete(name, "done", err)
    BY <1>4 DEF Command
  <2>2. /\ o.op = "destroy" /\ o.target \in Clusters
        /\ name.owner = Sanitized[o.target]
    BY <1>4, CommandContext DEF Waiting, Sound, SweepPhases, OwnVolumes
  <2> QED
    BY <2>1, <2>2, DeleteOwn
<1>5. CASE o.pc \in {"network", "delNet"}
  <2>1. UNCHANGED <<containers, volumes>>
    BY <1>5 DEF Command, ensureNetwork, destroyNetwork, runtimeVars
  <2> QED
    BY <2>1, UntouchedKeepsAll
<1>6. CASE o.pc = "volCreate"
  <2>1. volumeCreate(volume, o.target, "done", err)
    BY <1>6 DEF Command
  <2>2. containers' = containers /\ volumes \subseteq volumes'
    BY <2>1 DEF volumeCreate
  <2> QED
    BY <2>2, KeepsAll
<1>7. CASE o.pc = "launch"
  <2>1. runNode(node, "done", err)
    BY <1>7 DEF Command
  <2>4. \A v : [v EXCEPT !.booted = TRUE].name = v.name
    OBVIOUS
  <2>5. \/ volumes' = volumes
        \/ volumes' = {IF v.name \in nodeVolumeNames(node.name)
                         THEN [v EXCEPT !.booted = TRUE] ELSE v : v \in volumes}
    BY <2>1 DEF runNode
  <2>2. \A v \in volumes : \E w \in volumes' : w.name = v.name
    BY <2>4, <2>5
  <2>3. \A x \in containers : x \in containers'
    BY <2>1 DEF runNode
  <2> QED
    BY <2>2, <2>3, KeepsAll
<1> QED
  BY <1>1, <1>2, <1>3, <1>4, <1>5, <1>6, <1>7 DEF Waiting

LEMMA OrphansInitially == OrphansInit => IInv /\ Witnesses /\ OrphansInv
<1> SUFFICES ASSUME OrphansInit
             PROVE  IInv /\ Witnesses /\ OrphansInv
  OBVIOUS
<1>1. Init /\ orphans = {}
  BY DEF OrphansInit, RecoveryInit
<1>2. IInv /\ Witnesses
  BY <1>1, Initially, SweepInitially
<1>3. \A x \in containers : Mounts(x) = {}
  BY <1>1 DEF Init, RuntimeInit, Mounts, ForeignContainer
<1>4. \A p \in Procs : ~Hopeful(proc[p])
  BY <1>1 DEF Init, Idle, Hopeful
<1> QED
  BY <1>1, <1>2, <1>3, <1>4, FS_EmptySet DEF OrphansInv, OrphansSound, Few, MountsThere

(* The step of an invocation.                                                *)
LEMMA ActsKeep ==
  ASSUME SanitizedInjective, IInv, Witnesses, OrphansInv, OrphansSound', Few',
         NEW q \in Procs, Acts(q), Kept(q)
  PROVE  IInv' /\ Witnesses' /\ OrphansInv'
<1>1. IInv'
  BY Inductive DEF Acts, Next
<1>2. Witnesses'
  BY WitnessedKept DEF Witnesses
<1>3. MountsThere'
  BY StepKeepsMounts DEF OrphansInv
<1>4. ASSUME NEW p \in Procs, Hopeful(proc'[p])
      PROVE  Pinned(proc[p], proc[p].target)'
  <2>1. CASE p = q
    BY <1>1, <1>3, <1>4, <2>1, OwnStaysPinned
  <2>2. CASE p # q
    <3>1. SameSweep(proc[p], proc'[p])
      BY <2>2, OthersSameSweep
    <3>2. /\ proc'[p].target = proc[p].target /\ proc[p].target \in Clusters
          /\ Hopeful(proc[p]) => Pinned(proc[p], proc[p].target)
      BY <1>4, <3>1 DEF SameSweep, Hopeful, Undisputed, OrphansInv
    <3>3. ASSUME NEW c \in Clusters, c = proc[p].target
          PROVE  Pinned(proc[p], c)'
      BY <1>1, <1>3, <1>4, <2>2, <3>2, <3>3, OthersLeavePinned
    <3> QED
      BY <3>2, <3>3
  <2> QED
    BY <2>1, <2>2
<1> QED
  BY <1>1, <1>2, <1>3, <1>4 DEF OrphansInv

(* The landing of a command.                                                 *)
LEMMA LandsKeep ==
  ASSUME SanitizedInjective, IInv, Witnesses, OrphansInv, OrphansSound', Few', Lands
  PROVE  IInv' /\ Witnesses' /\ OrphansInv'
<1>1. IInv' /\ MountsThere'
  BY LandsSound DEF OrphansInv
<1>2. proc' = proc
  BY DEF Lands
<1>3. Witnesses'
  BY <1>2 DEF Witnesses, Witnessed, Running
<1>4. ASSUME NEW p \in Procs, Hopeful(proc'[p])
      PROVE  Pinned(proc[p], proc[p].target)'
  <2>1. Hopeful(proc[p]) /\ proc[p].target \in Clusters
    BY <1>2, <1>4 DEF Hopeful, Undisputed
  <2>2. ASSUME NEW c \in Clusters, c = proc[p].target
        PROVE  Pinned(proc[p], c)'
    BY <1>1, <2>1, <2>2, LandsPinned
  <2> QED
    BY <1>2, <2>1, <2>2
<1> QED
  BY <1>1, <1>3, <1>4 DEF OrphansInv

LEMMA OrphansInductive ==
  ASSUME SanitizedInjective, TRUE \in CliPresent, MaxOrphans <= 2
  PROVE  IInv /\ Witnesses /\ OrphansInv /\ [OrphansNext]_orphanVars
         => IInv' /\ Witnesses' /\ OrphansInv'
<1> SUFFICES ASSUME IInv, Witnesses, OrphansInv, [OrphansNext]_orphanVars
             PROVE  IInv' /\ Witnesses' /\ OrphansInv'
  OBVIOUS
<1>1. OrphansSound /\ Few
  BY DEF OrphansInv
<1>2. ASSUME UNCHANGED vars, orphans' = orphans, strays \cap VolumesNamed \subseteq strays'
      PROVE  IInv' /\ Witnesses' /\ OrphansInv'
  <2>1. IInv'
    BY <1>2, Inductive
  <2>2. /\ Witnesses' /\ OrphansSound' /\ Few' /\ MountsThere'
    BY <1>1, <1>2 DEF vars, runtimeVars, Witnesses, Witnessed, Running, OrphansInv,
       OrphansSound, Few, MountsThere, VolumesNamed
  <2>3. ASSUME NEW p \in Procs, NEW c, Pinned(proc[p], c)
        PROVE  Pinned(proc[p], c)'
    <3>1. /\ containers' = containers /\ volumes' = volumes /\ proc' = proc
      BY <1>2 DEF vars, runtimeVars
    <3>2. /\ (containersMatchingLabel(c))' = containersMatchingLabel(c)
          /\ (volumesMatchingLabel(c))' = volumesMatchingLabel(c)
          /\ Ahead(proc[p])' = Ahead(proc[p])
      BY <3>1 DEF containersMatchingLabel, volumesMatchingLabel, Ahead
    <3>3. Missed(proc[p], c)' = Missed(proc[p], c)
      BY <3>2 DEF Missed
    <3>4. Missed(proc[p], c) \subseteq VolumesNamed
      BY DEF Missed, volumesMatchingLabel, VolumesNamed
    <3> QED
      BY <1>2, <2>3, <3>1, <3>2, <3>3, <3>4 DEF Pinned, Launches, Makes
  <2>4. \A p \in Procs : proc'[p] = proc[p]
    BY <1>2 DEF vars
  <2> QED
    BY <2>1, <2>2, <2>3, <2>4 DEF OrphansInv
<1>3. CASE RecoveryNext /\ Keep
  <2>1. OrphansSound' /\ Few'
    BY <1>1, <1>3, CommandsSound, FewKept
  <2>2. CASE UNCHANGED vars
    <3>1. VolumesNamed' = VolumesNamed
      BY <2>2 DEF vars, runtimeVars, VolumesNamed
    <3> QED
      BY <1>2, <1>3, <2>2, <3>1 DEF Keep
  <2> QED
    BY <1>3, <2>1, <2>2, RecoveryActs, ActsKeep
<1>4. ASSUME NEW q \in Procs, Kill(q)
      PROVE  IInv' /\ Witnesses' /\ OrphansInv'
  BY <1>1, <1>4, CommandsSound, FewKept, KillIsCrash, ActsKeep
<1>5. CASE Lands
  BY <1>1, <1>5, CommandsSound, FewKept, LandsKeep
<1>6. CASE UNCHANGED orphanVars
  BY <1>2, <1>6 DEF orphanVars, recoveryVars
<1> QED
  BY <1>3, <1>4, <1>5, <1>6 DEF OrphansNext

(* The host keeps its types, and everything on it its owner, though any      *)
(* number of commands of killed invocations come into the work of any        *)
(* number of others, at any moment (node.go:78, :115).                       *)
THEOREM TypeCorrectBeside ==
  ASSUME TRUE \in CliPresent
  PROVE  OrphansSpec => []TypeOK /\ []IInv /\ []MountsThere
<1>1. IInv => TypeOK
  BY DEF IInv, RuntimeSound, StateSound, ProcSound, TypeOK
<1>2. OrphansSpec => [](IInv /\ OrphansSound /\ MountsThere)
  BY BesideInitially, BesideInductive, PTL DEF OrphansSpec
<1> QED
  BY <1>1, <1>2, PTL

(* A container or volume goes only by a destroy of the cluster it is         *)
(* labelled with, one that runs or one that was killed and whose command is  *)
(* still under way; a container the provisioner did not create never goes    *)
(* (node.go:87, destroy.go:107-112).                                         *)
THEOREM IsolationBeside ==
  ASSUME SanitizedInjective, TRUE \in CliPresent
  PROVE  OrphansSpec => [][OwnLost]_orphanVars
<1>1. IInv /\ OrphansSound /\ [OrphansNext]_orphanVars => OwnLost
  <2> SUFFICES ASSUME IInv, OrphansSound, [OrphansNext]_orphanVars
               PROVE  OwnLost
    OBVIOUS
  <2>1. ASSUME NEW me \in Agents, RemovesOwn(me)
        PROVE  OwnLost
    BY <2>1 DEF RemovesOwn, OwnLost
  <2>2. ASSUME NEW q \in Procs, Acts(q)
        PROVE  OwnLost
    BY <2>1, <2>2, StepRemovesOwn DEF Acts, Agents
  <2>3. CASE UNCHANGED <<containers, volumes>>
    BY <2>3 DEF OwnLost
  <2>4. CASE RecoveryNext /\ Keep
    BY <2>2, <2>3, <2>4, RecoveryActs DEF vars
  <2>5. ASSUME NEW q \in Procs, Kill(q)
        PROVE  OwnLost
    BY <2>2, <2>5, KillIsCrash
  <2>6. CASE Lands
    <3>1. PICK o \in orphans, err \in BOOLEAN : Command(o, err)
      BY <2>6 DEF Lands
    <3>2. RemovesOwn(o)
      BY <3>1, LandsRemovesOwn DEF OrphansSound
    <3> QED
      BY <2>1, <3>2 DEF Agents
  <2>7. CASE UNCHANGED orphanVars
    BY <2>3, <2>7 DEF orphanVars, recoveryVars, vars
  <2> QED
    BY <2>4, <2>5, <2>6, <2>7 DEF OrphansNext
<1>2. OrphansSpec => [](IInv /\ OrphansSound)
  BY BesideInitially, BesideInductive, PTL DEF OrphansSpec
<1> QED
  BY <1>1, <1>2, PTL DEF OrphansSpec

(* What the commands of killed invocations can add to a teardown, for any    *)
(* clusters and invocations: a destroy that has listed the volumes and has   *)
(* no error yet misses only volumes that landed since, and has still ahead   *)
(* of it a volume of every container there is (destroy.go:107-146).          *)
THEOREM LandingsHeld ==
  ASSUME SanitizedInjective, TRUE \in CliPresent, MaxOrphans <= 2
  PROVE  OrphansSpec => []OrphansInv
BY OrphansInitially, OrphansInductive, PTL DEF OrphansSpec

(* A destroy that reports success beside no create leaves no container       *)
(* (destroy.go:19), and of volumes only what landed after its listing, on    *)
(* any number of clusters and invocations, though up to two commands of      *)
(* killed ones come into it at any moment.  With three it is false: a launch *)
(* and both its volumes can land after the listing.                          *)
THEOREM NoContainerLeft ==
  ASSUME SanitizedInjective, TRUE \in CliPresent, MaxOrphans <= 2
  PROVE  OrphansSpec => []NilMeansNoContainer
<1>1. OrphansInv => NilMeansNoContainer
  <2> SUFFICES ASSUME OrphansInv, NEW p \in Procs, Succeeded(p, "destroy"),
                      proc[p].target \in Clusters, "create" \notin proc[p].rivals
               PROVE  /\ containersMatchingLabel(proc[p].target) = {}
                      /\ volumesMatchingLabel(proc[p].target) \subseteq strays
    BY DEF NilMeansNoContainer
  <2>1. Pinned(proc[p], proc[p].target) /\ Ahead(proc[p]) = {}
    BY DEF OrphansInv, Hopeful, Undisputed, Succeeded, Returned, Ahead
  <2> QED
    BY <2>1 DEF Pinned, Missed
<1> QED
  BY <1>1, LandingsHeld, PTL

(* Calming down is no new behaviour: an operator who only retries destroy on *)
(* a host where nothing fails any more takes the steps that the provisioner  *)
(* always could (destroy.go:17), so all that is proved of those holds there. *)
THEOREM Calming ==
  ASSUME TRUE \in CliPresent
  PROVE  RecoverySpec => Spec
<1>1. RecoveryInit => Init
  BY DEF RecoveryInit
<1>2. [RecoveryNext]_recoveryVars => [Next]_vars
  BY QuietSteps DEF RecoveryNext, CalmsDown, recoveryVars
<1> QED
  BY <1>1, <1>2, PTL DEF RecoverySpec, Spec

(* What a destroy promises it promises there: when it returns nil all is     *)
(* clean, and when it fails it names what it left (destroy.go:17-36, :80).   *)
THEOREM PromisesInRecovery ==
  ASSUME TRUE \in CliPresent
  PROVE  RecoverySpec => []TypeOK /\ []NilMeansClean /\ []FailuresAreNamed
BY Calming, TypeCorrect, CleanTeardown, NamedFailures, PTL

(* A cluster's life there, failures, kills and retries included, is one that *)
(* the ledger allows (VERIFICATION.md:387).                                  *)
THEOREM LedgerInRecovery ==
  ASSUME SanitizedInjective, TRUE \in CliPresent
  PROVE  RecoverySpec => ImplementsLedger
BY Calming, LedgerImplemented, PTL

(* And to the one creator of a cluster a nil create is up, on fresh volumes  *)
(* (create.go:153).                                                          *)
THEOREM UpInRecovery ==
  ASSUME SanitizedInjective, OneCreator, TRUE \in CliPresent
  PROVE  RecoverySpec => FreshBoot /\ []CreateNilMeansUp
BY Calming, CreateUpOfOne, FreshVolumesOfOne, PTL

-----------------------------------------------------------------------------
(* The retried destroy: what of "everything is reclaimed" needs no fairness. *)

CreatesOver(c) == \A q \in Procs : proc[q].target = c => proc[q].pc \notin CreatePhases

(* A destroy of c with nothing but the network on its conscience: what is    *)
(* left of c is what its sweep has still before it, and a container that it  *)
(* is about to remove is down.                                               *)
Thorough(me, c) ==
  /\ me.target = c /\ Undisputed(me) /\ me.cli /\ me.bad \subseteq {"network"}
  /\ me.pc # "idle"
  /\ me.pc \in {"sweepStop", "sweepRm"} => containersMatchingLabel(c) \subseteq me.todo
  /\ me.pc = "sweepRm" => \A id \in me.cur : ~IsRunning(id)
  /\ me.pc \in NoListing => containersMatchingLabel(c) = {}
  /\ me.pc = "sweepVol" => volumesMatchingLabel(c) \subseteq me.vols
  /\ me.pc \in NoSweep => volumesMatchingLabel(c) = {}
  /\ me.pc = "returned" => c \notin dirs /\ yaml[c].status = "absent"

(* Once the creates of c have ended they have ended, and a clean c is clean; *)
(* a destroy started then is thorough, and so it goes on until it returns    *)
(* and c is clean, if it does not return at once for a record that is torn.  *)
Reclaims(c) ==
  /\ CreatesOver(c) => CreatesOver(c)'
  /\ CreatesOver(c) /\ Clean(c) => Clean(c)'
  /\ \A p \in Procs :
       CreatesOver(c) /\ Retries(p) /\ proc'[p].target = c => Thorough(proc[p], c)'
  /\ \A p \in Procs : Thorough(proc[p], c) =>
       \/ Thorough(proc[p], c)'
       \/ proc[p].pc = "returned" /\ Clean(c)
       \/ proc[p].pc = "reflect" /\ yaml[c].status = "torn"
(* Nobody but a create of its cluster brings a stopped node up again.        *)
LEMMA StaysDown ==
  ASSUME IInv, NEW c \in Clusters, NEW q \in Procs, Acts(q),
         ~(CreateStep(q) /\ proc[q].target = c),
         NEW id \in NodeInfos, id.name.cluster = c, ~IsRunning(id)
  PROVE  ~IsRunning(id)'
<1>1. SUFFICES \A y \in containers' :
                 \/ \E x \in containers : y.id = x.id /\ (y.running => x.running)
                 \/ y.id # id
  BY DEF IsRunning
<1>2. CASE containers' \subseteq containers
  BY <1>2
<1>3. ASSUME NEW d, NEW r, NEW err, stop(d, r, err)
      PROVE  \A y \in containers' :
               \E x \in containers : y.id = x.id /\ (y.running => x.running)
  <2>1. \A x \in containers : /\ [x EXCEPT !.running = FALSE].id = x.id
                              /\ ~[x EXCEPT !.running = FALSE].running
    BY DEF IInv, RuntimeSound, RuntimeTypeOK, Containers
  <2>2. \A y \in containers' : \E x \in containers :
          y = x \/ y = [x EXCEPT !.running = FALSE]
    BY <1>3 DEF stop
  <2> QED
    BY <2>1, <2>2
<1>4. CASE Launch(q)
  <2>1. ThisNode(q).name.cluster = proc[q].target /\ proc[q].target # c
    BY <1>4, InTheLoop DEF CreateStep, Launch, LoopPhases, CreatePhases, IInv
  <2>2. PICK r \in Execs(q), err \in BOOLEAN : runNode(ThisNode(q), r, err)
    BY <1>4 DEF Launch
  <2>3. \A y \in containers' : y \in containers \/ y.id = ThisNode(q)
    BY <2>2, RunAdds
  <2> QED
    BY <2>1, <2>3
<1>5. CASE StopRecorded(q) \/ SweepStop(q)
  BY <1>3, <1>5 DEF StopRecorded, SweepStop
<1>6. CASE RemoveRecorded(q) \/ SweepRemove(q)
  BY <1>2, <1>6 DEF RemoveRecorded, SweepRemove, remove
<1>7. CASE DeleteRecordedVolume(q) \/ SweepVolume(q) \/ DestroyNetwork(q)
  BY <1>2, <1>7 DEF DeleteRecordedVolume, SweepVolume, DestroyNetwork, volumeDelete,
     destroyNetwork, runtimeVars
<1>8. CASE EnsureNetwork(q) \/ CreateVolume(q)
  BY <1>2, <1>8 DEF EnsureNetwork, ensureNetwork, CreateVolume, volumeCreate, runtimeVars
<1>9. CASE UNCHANGED runtimeVars
  BY <1>2, <1>9 DEF runtimeVars
<1> QED
  BY <1>4, <1>5, <1>6, <1>7, <1>8, <1>9
     DEF Acts, StartCreate, StartDestroy, Exit, Crash, CreateStep, DestroyStep,
         ValidateClusterRequest, NewStateStat, NewStateMkdir, CheckDNSDomain, CheckVolume,
         volumeExists, WaitForIPv4, ReconcileConfigs, SaveOpen, SaveWrite,
         SaveTalosconfig, Reflect, ListContainers, ListVolumes, RemoveStateFiles,
         RemoveStateDir

(* The steps of others, once calm.                                           *)
LEMMA OthersLeaveThorough ==
  ASSUME IInv, Witnesses, NEW q \in Procs, NEW p \in Procs \ {q},
         StartDestroy(q) \/ CreateStep(q) \/ DestroyStep(q) \/ Exit(q),
         NEW c \in Clusters, Thorough(proc[p], c)
  PROVE  Thorough(proc[p], c)'
<1>1. proc[p] \in Invocations /\ OwnContainers(proc[p].cur, c)
  BY DEF IInv, ProcSound, Sound, Thorough
<1>2. \/ proc'[p] = proc[p]
      \/ proc'[p] = [proc[p] EXCEPT !.rivals = proc[p].rivals \cup {"destroy"}]
  <2>1. CASE StartDestroy(q)
    <3>1. PICK d, cli : Begin(q, [Idle EXCEPT !.op = "destroy", !.target = d, !.cli = cli,
                                              !.pc = "reflect"])
      BY <2>1 DEF StartDestroy
    <3> DEFINE me == [Idle EXCEPT !.op = "destroy", !.target = d, !.cli = cli,
                                  !.pc = "reflect"]
    <3>2. me.op = "destroy"
      BY DEF Idle
    <3>3. Begin(q, me)
      BY <3>1
    <3> HIDE DEF me
    <3> QED
      BY <3>2, <3>3 DEF Begin
  <2>2. CASE CreateStep(q) \/ DestroyStep(q) \/ Exit(q)
    <3>1. proc[q].pc # "idle"
      BY <2>2, CreateKeeps, DestroyKeeps DEF CreatePhases, DestroyPhases, Exit
    <3> QED
      BY <2>2, <3>1, OthersUntouched DEF Acts, Starts, StartCreate, StartDestroy
  <2> QED
    BY <2>1, <2>2
<1>3. /\ proc'[p].op = proc[p].op /\ proc'[p].target = proc[p].target
      /\ proc'[p].pc = proc[p].pc /\ proc'[p].cli = proc[p].cli
      /\ proc'[p].todo = proc[p].todo /\ proc'[p].cur = proc[p].cur
      /\ proc'[p].vols = proc[p].vols /\ proc'[p].bad = proc[p].bad
      /\ proc'[p].rivals \subseteq proc[p].rivals \cup {"destroy"}
  BY <1>1, <1>2 DEF Invocations
<1>4. Undisputed(proc'[p]) /\ Undisputed(proc[p]) /\ proc[p].target = c
  BY <1>3 DEF Thorough, Undisputed
<1>5. Acts(q)
  BY DEF Acts
<1>6. ~(CreateStep(q) /\ proc[q].target = c)
  BY <1>4, NoCreateBeside, CreateKeeps DEF Thorough
<1>7. Shrinks(c)
  BY <1>5, <1>6, StepShrinks
<1>8. ASSUME NEW id \in proc[p].cur, ~IsRunning(id)
      PROVE  ~IsRunning(id)'
  BY <1>1, <1>5, <1>6, <1>8, StaysDown DEF OwnContainers
<1> QED
  BY <1>3, <1>4, <1>7, <1>8 DEF Thorough, Shrinks

(* Up to the sweep a destroy has nothing to keep but its record clear.       *)
LEMMA ThoroughSoFar ==
  ASSUME NEW p \in Procs, NEW c \in Clusters,
         proc'[p].target = c, Undisputed(proc'[p]), proc'[p].cli,
         proc'[p].bad \subseteq {"network"},
         proc'[p].pc \in {"stop", "rm", "delVol", "listC"}
  PROVE  Thorough(proc[p], c)'
BY DEF Thorough, NoListing, NoSweep, DestroyPhases

(* The recorded pass puts no other error than badC and badV on record, save  *)
(* for a record that is torn.                                                *)
LEMMA RecordedStaysThorough ==
  ASSUME IInv, NEW p \in Procs, NEW c \in Clusters, Thorough(proc[p], c), DestroyStep(p),
         \/ Reflect(p) \/ StopRecorded(p) \/ RemoveRecorded(p)
         \/ DeleteRecordedVolume(p)
  PROVE  \/ Thorough(proc[p], c)'
         \/ proc[p].pc = "reflect" /\ yaml[c].status = "torn"
<1> DEFINE me == proc[p]
<1>1. /\ me \in Invocations /\ me.target = c /\ me.cli /\ me.bad \subseteq {"network"}
      /\ proc'[p].target = c /\ Undisputed(proc'[p])
  BY DestroyKeeps DEF Thorough, Keeps, Undisputed, IInv, ProcSound
<1>2. SUFFICES ASSUME ~(me.pc = "reflect" /\ yaml[c].status = "torn")
               PROVE  proc'[p].cli /\ proc'[p].bad = me.bad
  <2>1. \/ proc'[p].pc \in {"stop", "rm", "delVol", "listC"}
        \/ "reflect" \in proc'[p].bad
    BY <1>1, RecordedPhase
  <2> QED
    BY <1>1, <1>2, <2>1, ThoroughSoFar
<1>3. CASE Reflect(p)
  <2>1. ReadState(c).status # "torn"
    BY <1>2, <1>3, IdentityAssumption DEF Reflect, ReadState
  <2>2. \E work, net, phase :
          proc'[p] = [me EXCEPT !.work = work, !.net = net, !.pc = phase]
    BY <1>1, <1>3, <2>1, ZenonT(60) DEF Reflect, Become, IInv, ProcSound
  <2> QED
    BY <1>1, <2>2 DEF Invocations
<1>4. CASE StopRecorded(p) \/ RemoveRecorded(p)
  <2>1. \E phase, noted : proc'[p] = [me EXCEPT !.pc = phase, !.badC = noted]
    BY <1>4, ZenonT(60) DEF StopRecorded, RemoveRecorded, Become, IInv, ProcSound
  <2> QED
    BY <1>1, <2>1 DEF Invocations
<1>5. CASE DeleteRecordedVolume(p)
  <2>1. PICK err \in BOOLEAN :
          Become(p, NextVolume([me EXCEPT !.badV = Note(err, @, ThisVolume(p))],
                               "delVol", "stop", Sweep(c)))
    BY <1>1, <1>5 DEF DeleteRecordedVolume
  <2> DEFINE noted == Note(err, me.badV, ThisVolume(p))
             mid == [me EXCEPT !.badV = noted]
             far == [mid EXCEPT !.kind = "var"]
             after == Sweep(c)
  <2>2. proc'[p] = NextVolume(mid, "delVol", "stop", after)
    BY <2>1 DEF Become, IInv, ProcSound
  <2> HIDE DEF after
  <2>3. ThisVolume(p) \in VolumeNames
    <3>1. me.pc \in LoopPhases /\ me.pc \in DestroyPhases
      BY <1>5 DEF DeleteRecordedVolume, LoopPhases, DestroyPhases
    <3> QED
      BY <3>1, DestroyContext
  <2>4. noted \in SUBSET VolumeNames
    BY <1>1, <2>3 DEF Note, Invocations
  <2> HIDE DEF noted
  <2>5. mid \in Invocations /\ mid.cli = me.cli /\ mid.bad = me.bad
    BY <1>1, <2>4 DEF Invocations
  <2> HIDE DEF mid
  <2>6. far \in Invocations /\ far.cli = mid.cli /\ far.bad = mid.bad
    BY <2>5 DEF Invocations, Kinds
  <2>7. \/ proc'[p] = [mid EXCEPT !.pc = "delVol", !.kind = "system-state"]
        \/ proc'[p] = [far EXCEPT !.pc = "stop", !.pos = far.pos + 1]
        \/ proc'[p] = [far EXCEPT !.pc = after, !.pos = 1]
    BY <2>2 DEF NextVolume, NextNode
  <2> HIDE DEF far
  <2>8. CASE proc'[p] = [mid EXCEPT !.pc = "delVol", !.kind = "system-state"]
    BY <1>1, <2>5, <2>8, ZenonT(60) DEF Invocations
  <2>9. CASE proc'[p] = [far EXCEPT !.pc = "stop", !.pos = far.pos + 1]
    BY <1>1, <2>5, <2>6, <2>9 DEF Invocations
  <2>10. CASE proc'[p] = [far EXCEPT !.pc = after, !.pos = 1]
    BY <1>1, <2>5, <2>6, <2>10 DEF Invocations
  <2> QED
    BY <2>7, <2>8, <2>9, <2>10
<1> QED
  BY <1>3, <1>4, <1>5

(* A quiet listing comes, and is complete.                                   *)
LEMMA QuietListing ==
  ASSUME IInv, NEW p \in Procs, NEW c \in Clusters, Thorough(proc[p], c), DestroyStep(p),
         Quiet!ListContainers(p)
  PROVE  Thorough(proc[p], c)'
<1> DEFINE me == proc[p]
           ids == containersMatchingLabel(c)
           phase == IF ids = {} THEN "listV" ELSE "sweepStop"
<1>1. /\ me \in Invocations /\ me.target = c /\ me.cli /\ me.bad \subseteq {"network"}
      /\ me.pc = "listC"
      /\ proc'[p].target = c /\ Undisputed(proc'[p])
  BY DestroyKeeps DEF Thorough, Keeps, Undisputed, IInv, ProcSound, Quiet!ListContainers
<1>2. PICK r \in Quiet!Execs(p) :
        IF ListFails(r)
          THEN Become(p, [me EXCEPT !.pc = "listV", !.bad = @ \cup {"listC"}])
          ELSE Become(p, [me EXCEPT !.todo = ids, !.pc = phase])
  BY <1>1, QuietOutcomes, ZenonT(60) DEF Quiet!ListContainers, Quiet!ListFails, ListFails,
     Quiet!Reply, Reply, Quiet!containersMatchingLabel, containersMatchingLabel
<1>3. ~ListFails(r)
  BY <1>1, <1>2 DEF Quiet!Execs, ListFails, Reply
<1>4. (containersMatchingLabel(c))' = ids
  BY DEF Quiet!ListContainers, Quiet!runtimeVars, containersMatchingLabel
<1>5. proc'[p] = [me EXCEPT !.todo = ids, !.pc = phase]
  BY <1>2, <1>3 DEF Become, IInv, ProcSound
<1>6. phase = "sweepStop" \/ (phase = "listV" /\ ids = {})
  OBVIOUS
<1> HIDE DEF ids, phase
<1>7. /\ proc'[p].pc = phase /\ proc'[p].todo = ids /\ proc'[p].cli = me.cli
      /\ proc'[p].bad = me.bad
  BY <1>1, <1>5, ZenonT(60) DEF Invocations
<1> HIDE DEF me
<1> QED
  BY <1>1, <1>4, <1>6, <1>7 DEF Thorough, NoListing, NoSweep

(* A quiet stop brings the container down.                                   *)
LEMMA QuietStopping ==
  ASSUME IInv, NEW p \in Procs, NEW c \in Clusters, Thorough(proc[p], c), DestroyStep(p),
         Quiet!SweepStop(p)
  PROVE  Thorough(proc[p], c)'
<1> DEFINE me == proc[p]
<1>1. /\ me \in Invocations /\ me.target = c /\ me.cli /\ me.bad \subseteq {"network"}
      /\ me.pc = "sweepStop" /\ containersMatchingLabel(c) \subseteq me.todo
      /\ proc'[p].target = c /\ Undisputed(proc'[p])
  BY DestroyKeeps DEF Thorough, Keeps, Undisputed, IInv, ProcSound, Quiet!SweepStop
<1>2. PICK id \in me.todo, r \in Quiet!Execs(p), err \in BOOLEAN :
        /\ stop(id, r, err)
        /\ Become(p, [me EXCEPT !.pc = "sweepRm", !.cur = {id},
                                !.badC = Note(err, @, id)])
  BY QuietCommands, QuietOutcomes DEF Quiet!SweepStop, Quiet!Note, Note
<1>3. r = "done"
  BY <1>1, <1>2 DEF Quiet!Execs
<1>4. (containersMatchingLabel(c))' \subseteq containersMatchingLabel(c)
  BY <1>2, StopKeepsLabels, Listed
<1>5. ~IsRunning(id)'
  <2>1. \A x \in containers : /\ [x EXCEPT !.running = FALSE].id = x.id
                              /\ ~[x EXCEPT !.running = FALSE].running
    BY DEF IInv, RuntimeSound, RuntimeTypeOK, Containers
  <2>2. CASE id \in ContainerIDs
    <3>1. containers' = {IF x.id = id THEN [x EXCEPT !.running = FALSE] ELSE x :
                           x \in containers}
      BY <1>2, <1>3, <2>2 DEF stop, Performed
    <3>2. \A y \in containers' : \E x \in containers :
            y = [x EXCEPT !.running = FALSE] \/ (y = x /\ x.id # id)
      BY <3>1
    <3> QED
      BY <2>1, <3>2 DEF IsRunning
  <2>3. CASE id \notin ContainerIDs
    <3>1. containers' = containers
      BY <1>2, <1>3, <2>3 DEF stop, Performed
    <3> QED
      BY <2>3, <3>1 DEF IsRunning, ContainerIDs
  <2> QED
    BY <2>2, <2>3
<1> DEFINE noted == Note(err, me.badC, id)
<1>6. proc'[p] = [me EXCEPT !.pc = "sweepRm", !.cur = {id}, !.badC = noted]
  BY <1>2 DEF Become, IInv, ProcSound
<1> HIDE DEF noted
<1>7. /\ proc'[p].pc = "sweepRm" /\ proc'[p].cli = me.cli /\ proc'[p].cur = {id}
      /\ proc'[p].todo = me.todo /\ proc'[p].bad = me.bad
  BY <1>1, <1>6, ZenonT(60) DEF Invocations
<1> HIDE DEF me
<1> QED
  BY <1>1, <1>4, <1>5, <1>7 DEF Thorough, NoListing, NoSweep

(* A quiet rm of a container that is down removes it.                        *)
LEMMA QuietRemoving ==
  ASSUME IInv, NEW p \in Procs, NEW c \in Clusters, Thorough(proc[p], c), DestroyStep(p),
         Quiet!SweepRemove(p)
  PROVE  Thorough(proc[p], c)'
<1> DEFINE me == proc[p]
           ids == containersMatchingLabel(c)
<1>1. /\ me \in Invocations /\ me.target = c /\ me.cli /\ me.bad \subseteq {"network"}
      /\ me.pc = "sweepRm" /\ ids \subseteq me.todo /\ \A id \in me.cur : ~IsRunning(id)
      /\ proc'[p].target = c /\ Undisputed(proc'[p])
  BY DestroyKeeps DEF Thorough, Keeps, Undisputed, IInv, ProcSound, Quiet!SweepRemove
<1>2. PICK id \in me.cur, r \in Quiet!Execs(p), err \in BOOLEAN :
        /\ remove(id, r, err)
        /\ Become(p, [me EXCEPT
             !.pc = IF me.todo = {id} THEN "listV" ELSE "sweepStop",
             !.cur = {}, !.todo = @ \ {id}, !.badC = Note(err, @, id)])
  BY QuietCommands, QuietOutcomes DEF Quiet!SweepRemove, Quiet!Note, Note
<1>3. r = "done" /\ ~IsRunning(id)
  BY <1>1, <1>2 DEF Quiet!Execs
<1>4. containers' \subseteq {x \in containers : x.id # id}
  BY <1>2, <1>3 DEF remove, Performed, ContainerIDs
<1>5. (containersMatchingLabel(c))' \subseteq ids \ {id}
  BY <1>4, Listed
<1> DEFINE noted == Note(err, me.badC, id)
           phase == IF me.todo = {id} THEN "listV" ELSE "sweepStop"
           left == me.todo \ {id}
<1>6. proc'[p] = [me EXCEPT !.pc = phase, !.cur = {}, !.todo = left, !.badC = noted]
  BY <1>2 DEF Become, IInv, ProcSound
<1>7. phase = "sweepStop" \/ (phase = "listV" /\ left = {})
  OBVIOUS
<1>8. (containersMatchingLabel(c))' \subseteq left
  BY <1>1, <1>5
<1> HIDE DEF noted, phase, left
<1>9. /\ proc'[p].pc = phase /\ proc'[p].cli = me.cli /\ proc'[p].cur = {}
      /\ proc'[p].todo = left /\ proc'[p].bad = me.bad
  BY <1>1, <1>6, ZenonT(60) DEF Invocations
<1> HIDE DEF me
<1> QED
  BY <1>1, <1>7, <1>8, <1>9 DEF Thorough, NoListing, NoSweep

(* The volumes' listing comes as well.                                       *)
LEMMA QuietListingVolumes ==
  ASSUME IInv, NEW p \in Procs, NEW c \in Clusters, Thorough(proc[p], c), DestroyStep(p),
         Quiet!ListVolumes(p)
  PROVE  Thorough(proc[p], c)'
<1> DEFINE me == proc[p]
           names == volumesMatchingLabel(c)
           phase == IF names = {} THEN "delNet" ELSE "sweepVol"
<1>1. /\ me \in Invocations /\ me.target = c /\ me.cli /\ me.bad \subseteq {"network"}
      /\ me.pc = "listV"
      /\ proc'[p].target = c /\ Undisputed(proc'[p])
  BY DestroyKeeps DEF Thorough, Keeps, Undisputed, IInv, ProcSound, Quiet!ListVolumes
<1>2. PICK r \in Quiet!Execs(p) :
        IF ListFails(r)
          THEN Become(p, [me EXCEPT !.pc = "delNet", !.bad = @ \cup {"listV"}])
          ELSE Become(p, [me EXCEPT !.vols = names, !.pc = phase])
  BY <1>1, QuietOutcomes, ZenonT(60) DEF Quiet!ListVolumes, Quiet!ListFails, ListFails,
     Quiet!Reply, Reply, Quiet!volumesMatchingLabel, volumesMatchingLabel
<1>3. ~ListFails(r)
  BY <1>1, <1>2 DEF Quiet!Execs, ListFails, Reply
<1>4. /\ (volumesMatchingLabel(c))' = names
      /\ (containersMatchingLabel(c))' = containersMatchingLabel(c)
  BY DEF Quiet!ListVolumes, Quiet!runtimeVars, volumesMatchingLabel,
         containersMatchingLabel
<1>5. proc'[p] = [me EXCEPT !.vols = names, !.pc = phase]
  BY <1>2, <1>3 DEF Become, IInv, ProcSound
<1>6. phase = "sweepVol" \/ (phase = "delNet" /\ names = {})
  OBVIOUS
<1>7. containersMatchingLabel(c) = {}
  BY <1>1 DEF Thorough, NoListing
<1> HIDE DEF names, phase
<1>8. /\ proc'[p].pc = phase /\ proc'[p].vols = names /\ proc'[p].cli = me.cli
      /\ proc'[p].bad = me.bad
  BY <1>1, <1>5, ZenonT(60) DEF Invocations
<1> HIDE DEF me
<1> QED
  BY <1>1, <1>4, <1>6, <1>7, <1>8 DEF Thorough, NoSweep

(* A volume is mounted by nodes of its own cluster only.                     *)
LEMMA MountedByOwn ==
  ASSUME SanitizedInjective, IInv, NEW c \in Clusters, NEW name,
         name.owner = Sanitized[c], NEW x \in containers, name \in Mounts(x)
  PROVE  x.label = c
<1>1. NodeContainer(x) /\ name \in nodeVolumeNames(x.id.name)
  BY DEF Mounts, IInv, RuntimeSound, ContainersOwned, ForeignContainer
<1>2. name.owner = Sanitized[x.id.name.cluster]
  BY <1>1 DEF nodeVolumeNames, nodeVolumeName
<1>3. x.id \in NodeInfos /\ x.id.name.cluster \in Clusters /\ x.label = x.id.name.cluster
  BY <1>1 DEF NodeContainer, NodeInfos, Nodes
<1> QED
  BY <1>2, <1>3 DEF SanitizedInjective

(* With the containers gone, nothing mounts the volumes.                     *)
LEMMA QuietSweeping ==
  ASSUME SanitizedInjective, IInv, NEW p \in Procs, NEW c \in Clusters,
         Thorough(proc[p], c), DestroyStep(p), Quiet!SweepVolume(p)
  PROVE  Thorough(proc[p], c)'
<1> DEFINE me == proc[p]
           names == volumesMatchingLabel(c)
<1>1. /\ me \in Invocations /\ me.target = c /\ me.cli /\ me.bad \subseteq {"network"}
      /\ me.pc = "sweepVol" /\ names \subseteq me.vols /\ OwnVolumes(me.vols, c)
      /\ containersMatchingLabel(c) = {}
      /\ proc'[p].target = c /\ Undisputed(proc'[p])
  BY DestroyKeeps DEF Thorough, Keeps, Undisputed, NoListing, IInv, ProcSound, Sound,
     Quiet!SweepVolume
<1>2. PICK name \in me.vols, r \in Quiet!Execs(p), err \in BOOLEAN :
        /\ volumeDelete(name, r, err)
        /\ Become(p, [me EXCEPT
             !.pc = IF me.vols = {name} THEN "delNet" ELSE "sweepVol",
             !.vols = @ \ {name}, !.badV = Note(err, @, name)])
  BY QuietCommands, QuietOutcomes DEF Quiet!SweepVolume, Quiet!Note, Note
<1>3. r = "done" /\ name.owner = Sanitized[c]
  BY <1>1, <1>2 DEF Quiet!Execs, OwnVolumes
<1>4. name \notin Mounted
  <2> SUFFICES ASSUME NEW x \in containers, name \in Mounts(x)
               PROVE  FALSE
    BY DEF Mounted
  <2>1. x.label = c
    BY <1>3, MountedByOwn
  <2> QED
    BY <1>1, <2>1, Listed
<1>5. volumes' \subseteq {v \in volumes : v.name # name} /\ containers' = containers
  BY <1>2, <1>3, <1>4 DEF volumeDelete, Performed, VolumesNamed
<1>6. /\ (volumesMatchingLabel(c))' \subseteq names \ {name}
      /\ (containersMatchingLabel(c))' = containersMatchingLabel(c)
  BY <1>5, Listed DEF containersMatchingLabel
<1> DEFINE noted == Note(err, me.badV, name)
           phase == IF me.vols = {name} THEN "delNet" ELSE "sweepVol"
           left == me.vols \ {name}
<1>7. proc'[p] = [me EXCEPT !.pc = phase, !.vols = left, !.badV = noted]
  BY <1>2 DEF Become, IInv, ProcSound
<1>8. phase = "sweepVol" \/ (phase = "delNet" /\ left = {})
  OBVIOUS
<1>9. (volumesMatchingLabel(c))' \subseteq left
  BY <1>1, <1>6
<1> HIDE DEF noted, phase, left
<1>10. /\ proc'[p].pc = phase /\ proc'[p].cli = me.cli /\ proc'[p].vols = left
       /\ proc'[p].bad = me.bad
  BY <1>1, <1>7, ZenonT(60) DEF Invocations
<1> HIDE DEF me
<1> QED
  BY <1>1, <1>6, <1>8, <1>9, <1>10 DEF Thorough, NoSweep

(* The rest of a quiet destroy can fail in the network only.                 *)
LEMMA QuietEnd ==
  ASSUME IInv, NEW p \in Procs, NEW c \in Clusters, Thorough(proc[p], c), DestroyStep(p),
         Quiet!DestroyNetwork(p) \/ Quiet!RemoveStateFiles(p) \/ Quiet!RemoveStateDir(p)
  PROVE  Thorough(proc[p], c)'
<1> DEFINE me == proc[p]
<1>1. /\ me \in Invocations /\ me.target = c /\ me.cli /\ me.bad \subseteq {"network"}
      /\ me.pc \in {"delNet", "rmRecord", "rmDir"}
      /\ containersMatchingLabel(c) = {} /\ volumesMatchingLabel(c) = {}
      /\ proc'[p].target = c /\ Undisputed(proc'[p])
  BY DestroyKeeps DEF Thorough, Keeps, Undisputed, NoListing, NoSweep, IInv, ProcSound,
     Quiet!DestroyNetwork, Quiet!RemoveStateFiles, Quiet!RemoveStateDir
<1>2. /\ (containersMatchingLabel(c))' = {} /\ (volumesMatchingLabel(c))' = {}
  <2>1. UNCHANGED <<containers, volumes>>
    BY QuietCommands DEF Quiet!DestroyNetwork, destroyNetwork, runtimeVars,
       Quiet!RemoveStateFiles, Quiet!RemoveStateDir, Quiet!runtimeVars
  <2> QED
    BY <1>1, <2>1 DEF containersMatchingLabel, volumesMatchingLabel
<1>3. PICK phase, noted :
        /\ proc'[p] = [me EXCEPT !.pc = phase, !.bad = noted]
        /\ noted \subseteq {"network"}
        /\ \/ phase \in {"rmRecord", "rmDir"}
           \/ phase = "returned" /\ c \notin dirs' /\ yaml'[c].status = "absent"
  <2>1. CASE Quiet!DestroyNetwork(p)
    <3>1. PICK err \in BOOLEAN :
            Become(p, [me EXCEPT !.pc = "rmRecord", !.bad = Note(err, @, "network")])
      BY <2>1, QuietOutcomes DEF Quiet!DestroyNetwork, Quiet!Note, Note
    <3>2. Note(err, me.bad, "network") \subseteq {"network"}
      BY <1>1 DEF Note
    <3>3. proc'[p] = [me EXCEPT !.pc = "rmRecord", !.bad = Note(err, me.bad, "network")]
      BY <3>1 DEF Become, IInv, ProcSound
    <3> QED
      BY <3>2, <3>3
  <2>2. CASE Quiet!RemoveStateFiles(p)
    <3>1. Become(p, [me EXCEPT !.pc = "rmDir", !.bad = me.bad])
      BY <2>2, QuietOutcomes DEF Quiet!RemoveStateFiles, Quiet!RemoveRecord, Quiet!Note,
         Quiet!FileOps
    <3>2. proc'[p] = [me EXCEPT !.pc = "rmDir", !.bad = me.bad]
      BY <3>1 DEF Become, IInv, ProcSound
    <3> QED
      BY <1>1, <3>2
  <2>3. CASE Quiet!RemoveStateDir(p)
    <3>1. Become(p, [me EXCEPT !.pc = "returned", !.bad = me.bad])
      BY <2>3, QuietOutcomes DEF Quiet!RemoveStateDir, Quiet!RemoveDir, Quiet!Note,
         Quiet!FileOps
    <3>2. proc'[p] = [me EXCEPT !.pc = "returned", !.bad = me.bad]
      BY <3>1 DEF Become, IInv, ProcSound
    <3>3. c \notin dirs' /\ yaml'[c].status = "absent"
      <4>1. PICK r \in Quiet!FileOps, err \in BOOLEAN : Quiet!RemoveDir(c, r, err)
        BY <1>1, <2>3 DEF Quiet!RemoveStateDir
      <4>2. RemoveDir(c, "done", FALSE)
        BY <4>1 DEF Quiet!RemoveDir, RemoveDir, Quiet!FileOps, Quiet!clusterStatePath,
           clusterStatePath, Quiet!NoRecord, NoRecord, Quiet!stateVars, stateVars
      <4> QED
        BY <4>2, IdentityAssumption DEF RemoveDir, clusterStatePath, NoRecord
    <3> QED
      BY <1>1, <3>2, <3>3
  <2> QED
    BY <2>1, <2>2, <2>3
<1>4. proc'[p].pc = phase /\ proc'[p].bad = noted /\ proc'[p].cli = me.cli
  <2>1. proc'[p] = [me EXCEPT !.pc = phase, !.bad = noted] /\ me \in Invocations
    BY <1>1, <1>3
  <2> QED
    BY <2>1 DEF Invocations
<1> HIDE DEF me
<1> QED
  BY <1>1, <1>2, <1>3, <1>4 DEF Thorough

(* A destroy that starts when the creates of its cluster are over.           *)
LEMMA RetryStarts ==
  ASSUME IInv, TRUE \in CliPresent, NEW p \in Procs, Quiet!StartDestroy(p),
         NEW c \in Clusters, CreatesOver(c), proc'[p].target = c
  PROVE  Thorough(proc[p], c)'
<1>1. PICK d : Begin(p, [Idle EXCEPT !.op = "destroy", !.target = d, !.cli = TRUE,
                                     !.pc = "reflect"])
  BY QuietStarts
<1> DEFINE me == [Idle EXCEPT !.op = "destroy", !.target = d, !.cli = TRUE,
                              !.pc = "reflect"]
           beside == {proc[o].op : o \in {s \in Procs \ {p} :
                        Running(s) /\ Meets(proc[s].target, d)}}
<1>2. \A set : LET you == [me EXCEPT !.rivals = set]
               IN /\ you.op = "destroy" /\ you.target = d /\ you.cli = TRUE
                  /\ you.pc = "reflect" /\ you.bad = {} /\ you.rivals = set
  BY DEF Idle
<1>3. me.target = d
  BY DEF Idle
<1>4. Begin(p, me)
  BY <1>1
<1> HIDE DEF me
<1>5. proc'[p] = [me EXCEPT !.rivals = beside]
  BY <1>3, <1>4 DEF Begin
<1> HIDE DEF beside
<1>6. /\ proc'[p].op = "destroy" /\ proc'[p].cli = TRUE /\ proc'[p].pc = "reflect"
      /\ proc'[p].bad = {} /\ proc'[p].rivals = beside /\ d = c
  BY <1>2, <1>5
<1>7. "create" \notin beside
  <2> SUFFICES ASSUME NEW s \in Procs, Running(s), Meets(proc[s].target, c),
                      proc[s].op = "create"
               PROVE  FALSE
    BY <1>6 DEF beside
  <2>1. Sound(proc[s]) /\ proc[s].pc \in CreatePhases \cup DestroyPhases
    BY DEF IInv, ProcSound, Running, Invocations
  <2>2. proc[s].pc \in CreatePhases /\ proc[s].target \in Clusters
    BY <2>1 DEF Sound
  <2>3. proc[s].target = c
    BY <2>2, IdentityAssumption DEF Meets
  <2> QED
    BY <2>2, <2>3 DEF CreatesOver
<1> QED
  BY <1>6, <1>7 DEF Thorough, Undisputed, NoListing, NoSweep

(* Once calm, creates only end, and nothing comes after them.                *)
LEMMA CreatesStayOver ==
  ASSUME IInv, IInv', NEW q \in Procs,
         StartDestroy(q) \/ CreateStep(q) \/ DestroyStep(q) \/ Exit(q),
         NEW c \in Clusters, CreatesOver(c)
  PROVE  CreatesOver(c)' /\ (Clean(c) => Clean(c)')
<1>1. Acts(q)
  BY DEF Acts
<1>2. ~(CreateStep(q) /\ proc[q].target = c)
  BY CreateKeeps DEF CreatesOver
<1>3. Clean(c) => Clean(c)'
  <2>1. Shrinks(c)
    BY <1>1, <1>2, StepShrinks
  <2> QED
    BY <2>1 DEF Shrinks, Clean
<1>4. ASSUME NEW p \in Procs \ {q}, proc'[p].target = c
      PROVE  proc'[p].pc \notin CreatePhases
  BY <1>1, <1>4, OthersSameSweep DEF SameSweep, CreatesOver
<1>5. ASSUME proc'[q].target = c
      PROVE  proc'[q].pc \notin CreatePhases
  <2>1. CASE StartDestroy(q)
    BY <2>1, Begun DEF CreatePhases
  <2>2. CASE CreateStep(q)
    BY <1>2, <1>5, <2>2, CreateKeeps DEF Keeps
  <2>3. CASE DestroyStep(q)
    <3>1. proc[q].op = "destroy" /\ proc'[q].op = "destroy"
      BY <2>3, DestroyKeeps DEF Keeps, IInv, ProcSound, Sound
    <3>2. Sound(proc[q])'
      BY DEF IInv, ProcSound
    <3> QED
      BY <3>1, <3>2 DEF Sound
  <2>4. CASE Exit(q)
    BY <2>4 DEF Exit, Become, Idle, CreatePhases, IInv, ProcSound
  <2> QED
    BY <2>1, <2>2, <2>3, <2>4
<1> QED
  BY <1>3, <1>4, <1>5 DEF CreatesOver

(* Every quiet step of a destroy.                                            *)
LEMMA QuietStaysThorough ==
  ASSUME SanitizedInjective, IInv, NEW p \in Procs, NEW c \in Clusters,
         Thorough(proc[p], c), Quiet!DestroyStep(p), DestroyStep(p)
  PROVE  \/ Thorough(proc[p], c)'
         \/ proc[p].pc = "reflect" /\ yaml[c].status = "torn"
<1>1. CASE \/ Quiet!Reflect(p) \/ Quiet!StopRecorded(p) \/ Quiet!RemoveRecorded(p)
           \/ Quiet!DeleteRecordedVolume(p)
  <2>1. proc[p].pc \in {"reflect", "stop", "rm", "delVol"}
    BY <1>1 DEF Quiet!Reflect, Quiet!StopRecorded, Quiet!RemoveRecorded,
       Quiet!DeleteRecordedVolume
  <2>2. Reflect(p) \/ StopRecorded(p) \/ RemoveRecorded(p) \/ DeleteRecordedVolume(p)
    BY <2>1 DEF DestroyStep, ListContainers, SweepStop, SweepRemove, ListVolumes,
       SweepVolume, DestroyNetwork, RemoveStateFiles, RemoveStateDir
  <2> QED
    BY <2>2, RecordedStaysThorough
<1> QED
  BY <1>1, QuietListing, QuietStopping, QuietRemoving, QuietListingVolumes,
     QuietSweeping, QuietEnd DEF Quiet!DestroyStep

(* All of the above in one step of the calm.                                 *)
LEMMA CalmReclaims ==
  ASSUME SanitizedInjective, TRUE \in CliPresent, IInv, IInv', Witnesses, Quiet!Next,
         NEW c \in Clusters
  PROVE  Reclaims(c)
<1>1. PICK q \in Procs :
        \/ StartDestroy(q) \/ CreateStep(q) \/ Exit(q)
        \/ DestroyStep(q) /\ Quiet!DestroyStep(q)
  BY QuietActs
<1>2. CreatesOver(c) => CreatesOver(c)' /\ (Clean(c) => Clean(c)')
  BY <1>1, CreatesStayOver
<1>3. ASSUME NEW p \in Procs, CreatesOver(c), Retries(p), proc'[p].target = c
      PROVE  Thorough(proc[p], c)'
  BY <1>3, RetryStarts DEF Retries
<1>4. ASSUME NEW p \in Procs, Thorough(proc[p], c)
      PROVE  \/ Thorough(proc[p], c)'
             \/ proc[p].pc = "returned" /\ Clean(c)
             \/ proc[p].pc = "reflect" /\ yaml[c].status = "torn"
  <2>1. CASE p # q
    BY <1>1, <1>4, <2>1, OthersLeaveThorough
  <2>2. CASE p = q /\ DestroyStep(p) /\ Quiet!DestroyStep(p)
    BY <1>4, <2>2, QuietStaysThorough
  <2>3. CASE p = q /\ Exit(p)
    BY <1>4, <2>3 DEF Exit, Thorough, Clean, NoListing, NoSweep
  <2>4. ~StartDestroy(p) /\ ~CreateStep(p)
    <3>1. proc[p].op = "destroy" /\ proc[p].pc # "idle"
      BY <1>4 DEF Thorough, Undisputed
    <3>2. proc[p].pc \notin CreatePhases
      BY <3>1 DEF IInv, ProcSound, Sound
    <3> QED
      BY <3>1, <3>2, CreateKeeps DEF StartDestroy
  <2> QED
    BY <1>1, <2>1, <2>2, <2>3, <2>4
<1> QED
  BY <1>2, <1>3, <1>4 DEF Reclaims

(* A failed create needs no manual cleanup (VERIFICATION.md:387): what of it *)
(* is a matter of safety, for any clusters, invocations and leftovers.  Once *)
(* calm, a destroy that starts after the creates of its cluster ends with    *)
(* nothing left of it, and nothing comes back; that it does end is what is   *)
(* left to the fairness of the schedule.                                     *)
THEOREM RetriesReclaim ==
  ASSUME SanitizedInjective, TRUE \in CliPresent
  PROVE  RecoverySpec =>
           [][calm => \A c \in Clusters : Reclaims(c)]_recoveryVars
<1>1. IInv /\ IInv' /\ Witnesses /\ [RecoveryNext]_recoveryVars
      => [calm => \A c \in Clusters : Reclaims(c)]_recoveryVars
  BY CalmReclaims DEF RecoveryNext, CalmsDown
<1>2. Spec => [](IInv /\ Witnesses /\ SweepInv)
  BY Ownership, SweepInitially, SweepInductive, PTL DEF Spec
<1> QED
  BY <1>1, <1>2, Calming, PTL DEF RecoverySpec

=============================================================================
