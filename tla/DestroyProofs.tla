---------------------------- MODULE DestroyProofs ----------------------------
(* What a destroy leaves behind: theorems for every set of clusters and      *)
(* invocations, shapes and faults, and whether or not names collide.         *)
EXTENDS CreateProofs

-----------------------------------------------------------------------------
(* The inductive invariant: what is still there is still to be swept, or is  *)
(* named in the error.                                                       *)

(* A destroy of a cluster beside which no create of it has run.              *)
Undisputed(me) ==
  me.op = "destroy" /\ me.target \in Clusters /\ "create" \notin me.rivals

NoListing == {"listV", "sweepVol", "delNet", "rmRecord", "rmDir", "returned"}
NoSweep == {"delNet", "rmRecord", "rmDir", "returned"}

(* The container sweep: once the list has come, which proves that the binary *)
(* is there, every container of the cluster is on it, or its error is noted. *)
ContainersLeft(me, ids) ==
  /\ me.pc \in {"sweepStop", "sweepRm"} => me.cli /\ ids \subseteq me.todo \cup me.badC
  /\ me.pc \in NoListing /\ "reflect" \notin me.bad =>
       ids \subseteq me.badC \/ "listC" \in me.bad

(* The volume sweep after it.                                                *)
VolumesLeft(me, names) ==
  /\ me.pc = "sweepVol" => me.cli /\ names \subseteq me.vols \cup me.badV
  /\ me.pc \in NoSweep /\ "reflect" \notin me.bad =>
       names \subseteq me.badV \/ "listV" \in me.bad

(* And the state directory at the end.                                       *)
RecordLeft(me, c) ==
  me.pc = "returned" /\ me.bad \cap {"reflect", "dir"} = {} =>
    c \notin dirs /\ yaml[c].status = "absent"

Leaves(me, c) ==
  /\ ContainersLeft(me, containersMatchingLabel(c))
  /\ VolumesLeft(me, volumesMatchingLabel(c))
  /\ RecordLeft(me, c)

(* Whatever of its cluster an undisputed destroy has not removed is on the   *)
(* list it still works through, or among the errors it returns, or hidden by *)
(* a listing that failed (destroy.go:80-146).                                *)
SweepInv == \A p \in Procs : Undisputed(proc[p]) => Leaves(proc[p], proc[p].target)

-----------------------------------------------------------------------------
(* The network: who names it, and who brings it back.                        *)

(* No two clusters ask for one named network (`-network`).                   *)
NetworksApart ==
  \A c, d \in Clusters :
    NetworkOf[c] = NetworkOf[d] /\ ~IsBuiltIn(NetworkOf[c]) => c = d

Late == {"rmRecord", "rmDir", "returned"}
PastList == NoListing \cup {"sweepStop", "sweepRm"}

(* A create and a destroy with nodes to destroy know their cluster's network *)
(* by name; a destroy whose list came has the binary.                        *)
NetworkKnown(me) ==
  /\ me.pc \in CreatePhases => me.net = NetworkOf[me.target]
  /\ me.op = "destroy" /\ me.work # <<>> =>
       me.target \in Clusters /\ me.net = NetworkOf[me.target]
  /\ /\ me.op = "destroy" /\ me.target \in Clusters /\ me.pc \in PastList
     /\ me.bad \cap {"reflect", "listC"} = {}
     => me.cli

(* Once a destroy is past destroyNetwork without an error its network is     *)
(* gone, and only a create of its cluster could have brought it back.        *)
NetworkGone(me) ==
  /\ Undisputed(me) /\ me.work # <<>> /\ me.pc \in Late
  /\ me.bad \cap {"reflect", "listC", "network"} = {}
  => NetworkOf[me.target] \notin networks

(* Whatever record a cluster has names the cluster's network.                *)
RecordsNamed == \A c \in Clusters : yaml[c].nodes # <<>> => yaml[c].network = NetworkOf[c]

(* The inductive invariant of the network: records, requests and destroys    *)
(* name their own cluster's, and a destroy that deleted it has it deleted    *)
(* until a create of its cluster comes (destroy.go:49-63).                   *)
NetworkInv ==
  /\ RecordsNamed
  /\ \A p \in Procs : NetworkKnown(proc[p]) /\ NetworkGone(proc[p])

-----------------------------------------------------------------------------
(* Who adds to a cluster: its creates, and nobody else.                      *)

Shrinks(c) ==
  /\ (containersMatchingLabel(c))' \subseteq containersMatchingLabel(c)
  /\ (volumesMatchingLabel(c))' \subseteq volumesMatchingLabel(c)
  /\ c \notin dirs => c \notin dirs'
  /\ yaml[c].status = "absent" => yaml'[c].status = "absent"

(* A list by label holds the IDs that carry it.                              *)
LEMMA Listed ==
  /\ \A c, id : id \in containersMatchingLabel(c) <=>
                  \E x \in containers : x.id = id /\ x.label = c
  /\ \A c, id : id \in (containersMatchingLabel(c))' <=>
                  \E x \in containers' : x.id = id /\ x.label = c
  /\ \A c, name : name \in volumesMatchingLabel(c) <=>
                  \E v \in volumes : v.name = name /\ v.label = c
  /\ \A c, name : name \in (volumesMatchingLabel(c))' <=>
                  \E v \in volumes' : v.name = name /\ v.label = c
BY DEF containersMatchingLabel, volumesMatchingLabel

(* What is taken away, or changed in place, adds nothing to a list.          *)
LEMMA FewerListed ==
  ASSUME NEW c, UNCHANGED stateVars,
         \A y \in containers' : \E x \in containers : y.id = x.id /\ y.label = x.label,
         \A w \in volumes' : \E v \in volumes : w.name = v.name /\ w.label = v.label
  PROVE  Shrinks(c)
BY Listed DEF Shrinks, stateVars

(* `container stop` keeps every container under its ID and label.            *)
LEMMA StopKeepsLabels ==
  ASSUME IInv, NEW id, NEW r, NEW err, stop(id, r, err)
  PROVE  \A y \in containers' : \E x \in containers : y.id = x.id /\ y.label = x.label
<1>1. \A x \in containers : /\ [x EXCEPT !.running = FALSE].id = x.id
                            /\ [x EXCEPT !.running = FALSE].label = x.label
  BY DEF IInv, RuntimeSound, RuntimeTypeOK, Containers
<1>2. \A y \in containers' : \E x \in containers :
        y = x \/ y = [x EXCEPT !.running = FALSE]
  BY DEF stop
<1> QED
  BY <1>1, <1>2

(* The commands of a destroy only shrink every cluster.                      *)
LEMMA CommandShrinks ==
  ASSUME IInv, NEW c, UNCHANGED stateVars, NEW id, NEW r, NEW err,
         \/ stop(id, r, err) \/ remove(id, r, err) \/ volumeDelete(id, r, err)
         \/ destroyNetwork(id, r, err) \/ ensureNetwork(id, r, err)
  PROVE  Shrinks(c)
<1>1. CASE stop(id, r, err)
  <2>1. volumes' = volumes
    BY <1>1 DEF stop
  <2> QED
    BY <1>1, <2>1, StopKeepsLabels, FewerListed
<1>2. CASE remove(id, r, err)
  <2>1. volumes' = volumes /\ containers' \subseteq containers
    BY <1>2 DEF remove
  <2> QED
    BY <2>1, FewerListed
<1>3. CASE volumeDelete(id, r, err)
  <2>1. containers' = containers /\ volumes' \subseteq volumes
    BY <1>3 DEF volumeDelete
  <2> QED
    BY <2>1, FewerListed
<1>4. CASE destroyNetwork(id, r, err) \/ ensureNetwork(id, r, err)
  <2>1. containers' = containers /\ volumes' = volumes
    BY <1>4 DEF destroyNetwork, ensureNetwork, runtimeVars
  <2> QED
    BY <2>1, FewerListed
<1> QED
  BY <1>1, <1>2, <1>3, <1>4

(* So does doing nothing to the host.                                        *)
LEMMA IdlingShrinks ==
  ASSUME NEW c, UNCHANGED <<runtimeVars, stateVars>>
  PROVE  Shrinks(c)
<1>1. containers' = containers /\ volumes' = volumes /\ UNCHANGED stateVars
  BY DEF runtimeVars
<1> QED
  BY <1>1, FewerListed

(* Removing records forgets clusters and makes none.                         *)
LEMMA ForgettingShrinks ==
  ASSUME IInv, NEW c \in Clusters, UNCHANGED runtimeVars, NEW name, NEW r, NEW err,
         RemoveRecord(name, r, err) \/ RemoveDir(name, r, err)
  PROVE  Shrinks(c)
<1>1. NoRecord.status = "absent"
  BY DEF NoRecord
<1>2. /\ dirs' \subseteq dirs
      /\ yaml'[c] = yaml[c] \/ yaml'[c] = NoRecord
  BY DEF RemoveRecord, RemoveDir, stateVars
<1>3. containers' = containers /\ volumes' = volumes
  BY DEF runtimeVars
<1> QED
  BY <1>1, <1>2, <1>3, Listed DEF Shrinks

(* A destroy shrinks every cluster, its own and the others.                  *)
LEMMA DestroyShrinks ==
  ASSUME IInv, NEW c \in Clusters, NEW q \in Procs, DestroyStep(q)
  PROVE  Shrinks(c)
<1>1. CASE Reflect(q) \/ ListContainers(q) \/ ListVolumes(q)
  BY <1>1, IdlingShrinks DEF Reflect, ListContainers, ListVolumes
<1>2. CASE RemoveStateFiles(q) \/ RemoveStateDir(q)
  BY <1>2, ForgettingShrinks DEF RemoveStateFiles, RemoveStateDir
<1>3. CASE StopRecorded(q) \/ SweepStop(q)
  BY <1>3, CommandShrinks DEF StopRecorded, SweepStop
<1>4. CASE RemoveRecorded(q) \/ SweepRemove(q)
  BY <1>4, CommandShrinks DEF RemoveRecorded, SweepRemove
<1>5. CASE DeleteRecordedVolume(q) \/ SweepVolume(q)
  BY <1>5, CommandShrinks DEF DeleteRecordedVolume, SweepVolume
<1>6. CASE DestroyNetwork(q)
  BY <1>6, CommandShrinks DEF DestroyNetwork
<1> QED
  BY <1>1, <1>2, <1>3, <1>4, <1>5, <1>6 DEF DestroyStep

(* A create adds to its own cluster only: its containers and volumes carry   *)
(* its label, its record lies under its name.                                *)
LEMMA CreateElsewhere ==
  ASSUME IInv, NEW c \in Clusters, NEW q \in Procs, CreateStep(q), proc[q].target # c
  PROVE  Shrinks(c)
<1> DEFINE d == proc[q].target
<1>1. CASE UNCHANGED <<runtimeVars, stateVars>>
  BY <1>1, IdlingShrinks
<1>2. CASE EnsureNetwork(q)
  BY <1>2, CommandShrinks DEF EnsureNetwork
<1>3. CASE CreateVolume(q)
  <2>1. PICK r \in Execs(q), err \in BOOLEAN : volumeCreate(ThisVolume(q), d, r, err)
    BY <1>3 DEF CreateVolume
  <2>2. /\ containers' = containers
        /\ \A w \in volumes' : w \in volumes \/ w.label = d
    BY <2>1 DEF volumeCreate
  <2>3. UNCHANGED stateVars
    BY <1>3 DEF CreateVolume
  <2> QED
    BY <2>2, <2>3, Listed DEF Shrinks, stateVars
<1>4. CASE Launch(q)
  <2>1. PICK r \in Execs(q), err \in BOOLEAN : runNode(ThisNode(q), r, err)
    BY <1>4 DEF Launch
  <2>2. ThisNode(q).name.cluster = d
    <3>1. proc[q].pc \in CreatePhases \ {"validate"}
      BY <1>4 DEF Launch, CreatePhases
    <3> QED
      BY <3>1, CreateContext
  <2>3. \A y \in containers' : y \in containers \/ y.label = d
    BY <2>1, <2>2 DEF runNode
  <2>4. \A v \in volumes : /\ [v EXCEPT !.booted = TRUE].name = v.name
                           /\ [v EXCEPT !.booted = TRUE].label = v.label
    BY DEF IInv, RuntimeSound, RuntimeTypeOK, Volumes
  <2>5. \A w \in volumes' : \E v \in volumes : w = v \/ w = [v EXCEPT !.booted = TRUE]
    BY <2>1 DEF runNode
  <2>6. \A w \in volumes' : \E v \in volumes : w.name = v.name /\ w.label = v.label
    BY <2>4, <2>5
  <2>7. UNCHANGED stateVars
    BY <1>4 DEF Launch
  <2> QED
    BY <2>3, <2>6, <2>7, Listed DEF Shrinks, stateVars
<1>5. CASE NewStateMkdir(q) \/ SaveOpen(q) \/ SaveWrite(q) \/ SaveTalosconfig(q)
  <2>1. containers' = containers /\ volumes' = volumes
    BY <1>5 DEF NewStateMkdir, SaveOpen, SaveWrite, SaveTalosconfig, runtimeVars
  <2>2. yaml \in [Clusters -> Records]
    BY DEF IInv, StateSound, StateTypeOK
  <2>3. dirs' \subseteq dirs \cup {d} /\ yaml'[c] = yaml[c]
    BY <1>5, <2>2 DEF NewStateMkdir, SaveOpen, SaveWrite, SaveTalosconfig, MakeDir,
                      OpenRecord, WriteRecord
  <2> QED
    BY <2>1, <2>3, Listed DEF Shrinks
<1> QED
  BY <1>1, <1>2, <1>3, <1>4, <1>5
     DEF CreateStep, ValidateClusterRequest, NewStateStat, StatDir, CheckDNSDomain,
         CheckVolume, volumeExists, WaitForIPv4, ReconcileConfigs

(* Every step but one of a create of the cluster shrinks it.                 *)
LEMMA StepShrinks ==
  ASSUME IInv, NEW c \in Clusters, NEW q \in Procs, Acts(q),
         ~(CreateStep(q) /\ proc[q].target = c)
  PROVE  Shrinks(c)
<1>1. CASE Starts(q) \/ Exit(q) \/ Crash(q)
  BY <1>1, IdlingShrinks DEF Starts, StartCreate, StartDestroy, Exit, Crash
<1> QED
  BY <1>1, DestroyShrinks, CreateElsewhere DEF Acts, Starts

-----------------------------------------------------------------------------
(* The sweep seen from the others, and what its own steps do to it.          *)

SameSweep(old, new) ==
  /\ new.op = old.op /\ new.target = old.target /\ new.pc = old.pc
  /\ new.cli = old.cli /\ new.todo = old.todo /\ new.vols = old.vols
  /\ new.badC = old.badC /\ new.badV = old.badV /\ new.bad = old.bad
  /\ old.rivals \subseteq new.rivals

(* Another invocation's step leaves a sweep where it is.                     *)
LEMMA OthersSameSweep ==
  ASSUME IInv, NEW q \in Procs, NEW p \in Procs \ {q}, Acts(q)
  PROVE  SameSweep(proc[p], proc'[p])
<1>1. proc[p] \in Invocations
  BY DEF IInv, ProcSound
<1>2. \/ proc'[p] = proc[p]
      \/ \E set : proc'[p] = [proc[p] EXCEPT !.rivals = proc[p].rivals \cup set]
  BY NextIsOnes, OthersKeep DEF Acts
<1>3. CASE proc'[p] = proc[p]
  BY <1>3 DEF SameSweep
<1>4. ASSUME NEW set, proc'[p] = [proc[p] EXCEPT !.rivals = proc[p].rivals \cup set]
      PROVE  SameSweep(proc[p], proc'[p])
  <2>1. /\ proc'[p].op = proc[p].op /\ proc'[p].target = proc[p].target
        /\ proc'[p].pc = proc[p].pc /\ proc'[p].cli = proc[p].cli
        /\ proc'[p].todo = proc[p].todo /\ proc'[p].vols = proc[p].vols
    BY <1>1, <1>4 DEF Invocations
  <2>2. /\ proc'[p].badC = proc[p].badC /\ proc'[p].badV = proc[p].badV
        /\ proc'[p].bad = proc[p].bad
        /\ proc'[p].rivals = proc[p].rivals \cup set
    BY <1>1, <1>4 DEF Invocations
  <2> QED
    BY <2>1, <2>2 DEF SameSweep
<1> QED
  BY <1>2, <1>3, <1>4

(* So an undisputed destroy keeps its promise while others act: none of them *)
(* is a create of its cluster.                                               *)
LEMMA OthersLeave ==
  ASSUME IInv, Witnesses, SweepInv, NEW q \in Procs, NEW p \in Procs \ {q}, Acts(q),
         Undisputed(proc'[p])
  PROVE  Leaves(proc[p], proc[p].target)'
<1> DEFINE me == proc[p]
<1>1. SameSweep(me, proc'[p])
  BY OthersSameSweep
<1>2. Undisputed(me)
  BY <1>1 DEF SameSweep, Undisputed
<1>3. PICK c \in Clusters : c = me.target /\ Leaves(me, c)
  BY <1>2 DEF SweepInv, Undisputed
<1>4. ~(CreateStep(q) /\ proc[q].target = c) \/ me.pc = "idle"
  <2> SUFFICES ASSUME CreateStep(q), proc[q].target = c, me.pc # "idle"
               PROVE  FALSE
    OBVIOUS
  <2>1. proc[q].pc \in CreatePhases
    BY CreateKeeps
  <2>2. proc[q].op = "create" /\ Running(q)
    BY <2>1 DEF IInv, ProcSound, Sound, Running, CreatePhases
  <2>3. Witnessed(p, q) /\ p # q
    BY DEF Witnesses
  <2> QED
    BY <1>2, <1>3, <2>2, <2>3 DEF Witnessed, Meets, Undisputed
<1>5. CASE me.pc = "idle"
  BY <1>1, <1>5 DEF SameSweep, Leaves, ContainersLeft, VolumesLeft, RecordLeft,
                    NoListing, NoSweep
<1>6. CASE ~(CreateStep(q) /\ proc[q].target = c)
  <2>1. Shrinks(c)
    BY <1>3, <1>6, StepShrinks
  <2>2. /\ proc'[p].target = c /\ proc'[p].pc = me.pc /\ proc'[p].cli = me.cli
        /\ proc'[p].todo = me.todo /\ proc'[p].vols = me.vols
        /\ proc'[p].badC = me.badC /\ proc'[p].badV = me.badV
        /\ proc'[p].bad = me.bad
    BY <1>1, <1>3 DEF SameSweep
  <2> HIDE DEF me
  <2>3. ContainersLeft(proc'[p], (containersMatchingLabel(c))')
    BY <1>3, <2>1, <2>2 DEF Leaves, ContainersLeft, Shrinks
  <2>4. VolumesLeft(proc'[p], (volumesMatchingLabel(c))')
    BY <1>3, <2>1, <2>2 DEF Leaves, VolumesLeft, Shrinks
  <2>5. RecordLeft(proc[p], c)'
    BY <1>3, <2>1, <2>2 DEF Leaves, RecordLeft, Shrinks
  <2> QED
    BY <2>2, <2>3, <2>4, <2>5 DEF Leaves
<1> QED
  BY <1>4, <1>5, <1>6

(* Up to the sweep nothing is promised yet, nor after Reflect has failed.    *)
LEMMA NothingPromised ==
  ASSUME NEW p \in Procs, NEW c,
         \/ proc'[p].pc \in {"stop", "rm", "delVol", "listC"}
         \/ proc'[p].pc = "returned" /\ "reflect" \in proc'[p].bad
  PROVE  Leaves(proc[p], c)'
BY DEF Leaves, ContainersLeft, VolumesLeft, RecordLeft, NoListing, NoSweep

(* The recorded pass of a destroy ends in front of the sweep.                *)
LEMMA RecordedPhase ==
  ASSUME IInv, NEW p \in Procs, NEW c \in Clusters, proc[p].target = c,
         \/ Reflect(p) \/ StopRecorded(p) \/ RemoveRecorded(p)
         \/ DeleteRecordedVolume(p)
  PROVE  \/ proc'[p].pc \in {"stop", "rm", "delVol", "listC"}
         \/ Reflect(p) /\ proc'[p].pc = "returned" /\ "reflect" \in proc'[p].bad
<1> DEFINE me == proc[p]
<1>1. me \in Invocations /\ Sweep(c) = "listC"
  BY IdentityAssumption DEF IInv, ProcSound, Sweep
<1>2. CASE Reflect(p)
  <2>1. CASE Fail(p, "reflect")
    <3>1. proc'[p] = [me EXCEPT !.pc = "returned", !.bad = {"reflect"}]
      BY <2>1 DEF Fail, Become, IInv, ProcSound
    <3>2. proc'[p].pc = "returned" /\ proc'[p].bad = {"reflect"}
      BY <1>1, <3>1 DEF Invocations
    <3> QED
      BY <1>2, <3>2
  <2>2. CASE ~Fail(p, "reflect")
    <3> DEFINE record == ReadState(c)
               phase == IF record.nodes = <<>> THEN "listC" ELSE "stop"
    <3>1. proc'[p] = [me EXCEPT !.work = record.nodes, !.net = record.network,
                                !.pc = phase]
      BY <1>1, <1>2, <2>2 DEF Reflect, Become, IInv, ProcSound
    <3> HIDE DEF record
    <3>2. proc'[p].pc = phase
      BY <1>1, <3>1 DEF Invocations
    <3> QED
      BY <3>2
  <2> QED
    BY <2>1, <2>2
<1>3. CASE StopRecorded(p) \/ RemoveRecorded(p)
  <2>1. PICK noted : \/ Become(p, [me EXCEPT !.pc = "rm", !.badC = noted])
                     \/ Become(p, [me EXCEPT !.pc = "delVol", !.badC = noted])
    BY <1>3 DEF StopRecorded, RemoveRecorded
  <2>2. \/ proc'[p] = [me EXCEPT !.pc = "rm", !.badC = noted]
        \/ proc'[p] = [me EXCEPT !.pc = "delVol", !.badC = noted]
    BY <2>1 DEF Become, IInv, ProcSound
  <2>3. proc'[p].pc = "rm" \/ proc'[p].pc = "delVol"
    BY <1>1, <2>2, ZenonT(60) DEF Invocations
  <2> QED
    BY <2>3
<1>4. CASE DeleteRecordedVolume(p)
  <2>1. PICK err \in BOOLEAN :
          Become(p, NextVolume([me EXCEPT !.badV = Note(err, @, ThisVolume(p))],
                               "delVol", "stop", "listC"))
    BY <1>1, <1>4 DEF DeleteRecordedVolume
  <2> DEFINE noted == Note(err, me.badV, ThisVolume(p))
             mid == [me EXCEPT !.badV = noted]
             far == [mid EXCEPT !.kind = "var"]
  <2>2. ThisVolume(p) \in VolumeNames
    <3>1. me.pc \in LoopPhases /\ me.pc \in DestroyPhases
      BY <1>4 DEF DeleteRecordedVolume, LoopPhases, DestroyPhases
    <3> QED
      BY <3>1, DestroyContext
  <2>3. noted \in SUBSET VolumeNames
    BY <1>1, <2>2 DEF Note, Invocations
  <2>4. proc'[p] = NextVolume(mid, "delVol", "stop", "listC")
    BY <2>1 DEF Become, IInv, ProcSound
  <2> HIDE DEF noted
  <2>5. mid \in Invocations
    BY <1>1, <2>3 DEF Invocations
  <2> HIDE DEF mid
  <2>6. far \in Invocations
    BY <2>5 DEF Invocations, Kinds
  <2>7. \/ proc'[p] = [mid EXCEPT !.pc = "delVol", !.kind = "system-state"]
        \/ proc'[p] = [far EXCEPT !.pc = "stop", !.pos = far.pos + 1]
        \/ proc'[p] = [far EXCEPT !.pc = "listC", !.pos = 1]
    BY <2>4 DEF NextVolume, NextNode
  <2> HIDE DEF far
  <2>8. CASE proc'[p] = [mid EXCEPT !.pc = "delVol", !.kind = "system-state"]
    BY <2>5, <2>8 DEF Invocations
  <2>9. CASE proc'[p] = [far EXCEPT !.pc = "stop", !.pos = far.pos + 1]
    BY <2>6, <2>9 DEF Invocations
  <2>10. CASE proc'[p] = [far EXCEPT !.pc = "listC", !.pos = 1]
    BY <2>6, <2>10 DEF Invocations
  <2> QED
    BY <2>7, <2>8, <2>9, <2>10
<1> QED
  BY <1>2, <1>3, <1>4

(* So it promises nothing yet.                                               *)
LEMMA RecordedPassLeaves ==
  ASSUME IInv, NEW p \in Procs, NEW c \in Clusters, proc[p].target = c,
         \/ Reflect(p) \/ StopRecorded(p) \/ RemoveRecorded(p)
         \/ DeleteRecordedVolume(p)
  PROVE  Leaves(proc[p], c)'
BY RecordedPhase, NothingPromised

(* A list that comes is complete, and comes only from a binary that is       *)
(* there; one that does not is noted.                                        *)
LEMMA ListLeaves ==
  ASSUME IInv, NEW p \in Procs, NEW c \in Clusters, proc[p].target = c,
         ListContainers(p)
  PROVE  Leaves(proc[p], c)'
<1> DEFINE me == proc[p]
           ids == containersMatchingLabel(c)
<1>1. me \in Invocations /\ (containersMatchingLabel(c))' = ids
  BY DEF IInv, ProcSound, ListContainers, runtimeVars, containersMatchingLabel
<1>2. PICK r \in Execs(p) :
        IF ListFails(r)
          THEN Become(p, [me EXCEPT !.pc = "listV", !.bad = @ \cup {"listC"}])
          ELSE Become(p, [me EXCEPT !.todo = ids,
                            !.pc = IF ids = {} THEN "listV" ELSE "sweepStop"])
  BY DEF ListContainers
<1>3. CASE ListFails(r)
  <2>1. proc'[p] = [me EXCEPT !.pc = "listV", !.bad = me.bad \cup {"listC"}]
    BY <1>2, <1>3 DEF Become, IInv, ProcSound
  <2>2. proc'[p].pc = "listV" /\ proc'[p].bad = me.bad \cup {"listC"}
    BY <1>1, <2>1 DEF Invocations
  <2> QED
    BY <2>2 DEF Leaves, ContainersLeft, VolumesLeft, RecordLeft, NoListing, NoSweep
<1>4. CASE ~ListFails(r)
  <2> DEFINE phase == IF ids = {} THEN "listV" ELSE "sweepStop"
  <2>1. proc'[p] = [me EXCEPT !.todo = ids, !.pc = phase]
    BY <1>2, <1>4 DEF Become, IInv, ProcSound
  <2>2. me.cli
    BY <1>2, <1>4 DEF Execs, ListFails, Reply
  <2> HIDE DEF ids, phase
  <2>3. proc'[p].pc = phase /\ proc'[p].todo = ids /\ proc'[p].cli = me.cli
    BY <1>1, <2>1 DEF Invocations
  <2>4. phase = "sweepStop" \/ (phase = "listV" /\ ids = {})
    BY DEF phase
  <2> HIDE DEF me
  <2>5. ContainersLeft(proc'[p], ids)
    BY <2>2, <2>3, <2>4 DEF ContainersLeft, NoListing
  <2> QED
    BY <1>1, <2>3, <2>4, <2>5 DEF Leaves, VolumesLeft, RecordLeft, NoSweep
<1> QED
  BY <1>3, <1>4

(* Stopping a listed container takes none away.                              *)
LEMMA SweepStopLeaves ==
  ASSUME IInv, NEW p \in Procs, NEW c \in Clusters, proc[p].target = c,
         Leaves(proc[p], c), SweepStop(p)
  PROVE  Leaves(proc[p], c)'
<1> DEFINE me == proc[p]
<1>1. me \in Invocations /\ me.pc = "sweepStop"
  BY DEF IInv, ProcSound, SweepStop
<1>2. PICK id \in me.todo, r \in Execs(p), err \in BOOLEAN :
        /\ stop(id, r, err)
        /\ Become(p, [me EXCEPT !.pc = "sweepRm", !.cur = {id},
                                !.badC = Note(err, @, id)])
  BY DEF SweepStop
<1>3. (containersMatchingLabel(c))' \subseteq containersMatchingLabel(c)
  BY <1>2, StopKeepsLabels, Listed
<1> DEFINE noted == Note(err, me.badC, id)
<1>4. proc'[p] = [me EXCEPT !.pc = "sweepRm", !.cur = {id}, !.badC = noted]
  BY <1>2 DEF Become, IInv, ProcSound
<1>5. me.badC \subseteq noted
  BY DEF Note
<1> HIDE DEF noted
<1>6. /\ proc'[p].pc = "sweepRm" /\ proc'[p].cli = me.cli
      /\ proc'[p].todo = me.todo /\ proc'[p].badC = noted
  BY <1>1, <1>4 DEF Invocations
<1>7. me.cli /\ containersMatchingLabel(c) \subseteq me.todo \cup me.badC
  BY <1>1 DEF Leaves, ContainersLeft
<1> HIDE DEF me
<1>8. ContainersLeft(proc'[p], (containersMatchingLabel(c))')
  BY <1>3, <1>5, <1>6, <1>7 DEF ContainersLeft, NoListing
<1> QED
  BY <1>6, <1>8 DEF Leaves, VolumesLeft, RecordLeft, NoSweep

(* With the binary there, a container that `rm` leaves is noted.             *)
LEMMA RemovedOrNoted ==
  ASSUME IInv, NEW p \in Procs, proc[p].cli, NEW id, NEW r \in Execs(p),
         NEW err \in BOOLEAN, remove(id, r, err)
  PROVE  /\ containers' \subseteq containers
         /\ ~err => \A x \in containers' : x.id # id
<1>1. r \in {"done", "fails", "lost"}
  BY ProvisionerAssumption DEF Execs
<1>2. containers' \subseteq containers
  BY DEF remove
<1>3. CASE id \notin ContainerIDs
  BY <1>2, <1>3 DEF ContainerIDs
<1>4. CASE id \in ContainerIDs /\ ~err
  <2>1. r = "done" /\ ~IsRunning(id)
    BY <1>1, <1>4 DEF remove, Reply, NotIgnored
  <2>2. containers' = {x \in containers : x.id # id}
    BY <1>4, <2>1 DEF remove, Performed
  <2> QED
    BY <1>2, <2>2
<1> QED
  BY <1>2, <1>3, <1>4

(* So the container sweep ends with each container of its list gone or       *)
(* noted.                                                                    *)
LEMMA SweepRemoveLeaves ==
  ASSUME IInv, NEW p \in Procs, NEW c \in Clusters, proc[p].target = c,
         Leaves(proc[p], c), SweepRemove(p)
  PROVE  Leaves(proc[p], c)'
<1> DEFINE me == proc[p]
           ids == containersMatchingLabel(c)
<1>1. me \in Invocations /\ me.pc = "sweepRm"
  BY DEF IInv, ProcSound, SweepRemove
<1>2. me.cli /\ ids \subseteq me.todo \cup me.badC
  BY <1>1 DEF Leaves, ContainersLeft
<1>3. PICK id \in me.cur, r \in Execs(p), err \in BOOLEAN :
        /\ remove(id, r, err)
        /\ Become(p, [me EXCEPT
             !.pc = IF me.todo = {id} THEN "listV" ELSE "sweepStop",
             !.cur = {}, !.todo = @ \ {id}, !.badC = Note(err, @, id)])
  BY DEF SweepRemove
<1>4. /\ (containersMatchingLabel(c))' \subseteq ids
      /\ ~err => id \notin (containersMatchingLabel(c))'
  BY <1>2, <1>3, RemovedOrNoted, Listed
<1> DEFINE noted == Note(err, me.badC, id)
           phase == IF me.todo = {id} THEN "listV" ELSE "sweepStop"
           left == me.todo \ {id}
<1>5. proc'[p] = [me EXCEPT !.pc = phase, !.cur = {}, !.todo = left, !.badC = noted]
  BY <1>3 DEF Become, IInv, ProcSound
<1>6. me.badC \subseteq noted /\ (err => id \in noted)
  BY DEF Note
<1>7. phase = "sweepStop" \/ (phase = "listV" /\ left = {})
  OBVIOUS
<1>8. (containersMatchingLabel(c))' \subseteq left \cup noted
  BY <1>2, <1>4, <1>6
<1> HIDE DEF noted, phase, left
<1>9. /\ proc'[p].pc = phase /\ proc'[p].cli = me.cli
      /\ proc'[p].todo = left /\ proc'[p].badC = noted
  BY <1>1, <1>5 DEF Invocations
<1> HIDE DEF me
<1>10. ContainersLeft(proc'[p], (containersMatchingLabel(c))')
  BY <1>2, <1>7, <1>8, <1>9 DEF ContainersLeft, NoListing
<1> QED
  BY <1>7, <1>9, <1>10 DEF Leaves, VolumesLeft, RecordLeft, NoSweep

(* The same for the volumes: a list that comes is complete.                  *)
LEMMA ListVolumesLeaves ==
  ASSUME IInv, NEW p \in Procs, NEW c \in Clusters, proc[p].target = c,
         Leaves(proc[p], c), ListVolumes(p)
  PROVE  Leaves(proc[p], c)'
<1> DEFINE me == proc[p]
           names == volumesMatchingLabel(c)
<1>1. /\ me \in Invocations /\ me.pc = "listV"
      /\ (containersMatchingLabel(c))' = containersMatchingLabel(c)
      /\ (volumesMatchingLabel(c))' = names
  BY DEF IInv, ProcSound, ListVolumes, runtimeVars, containersMatchingLabel,
         volumesMatchingLabel
<1>2. "reflect" \notin me.bad =>
        containersMatchingLabel(c) \subseteq me.badC \/ "listC" \in me.bad
  BY <1>1 DEF Leaves, ContainersLeft, NoListing
<1>3. PICK r \in Execs(p) :
        IF ListFails(r)
          THEN Become(p, [me EXCEPT !.pc = "delNet", !.bad = @ \cup {"listV"}])
          ELSE Become(p, [me EXCEPT !.vols = names,
                            !.pc = IF names = {} THEN "delNet" ELSE "sweepVol"])
  BY DEF ListVolumes
<1>4. CASE ListFails(r)
  <2>1. proc'[p] = [me EXCEPT !.pc = "delNet", !.bad = me.bad \cup {"listV"}]
    BY <1>3, <1>4 DEF Become, IInv, ProcSound
  <2>2. /\ proc'[p].pc = "delNet" /\ proc'[p].bad = me.bad \cup {"listV"}
        /\ proc'[p].badC = me.badC
    BY <1>1, <2>1 DEF Invocations
  <2> QED
    BY <1>1, <1>2, <2>2 DEF Leaves, ContainersLeft, VolumesLeft, RecordLeft
<1>5. CASE ~ListFails(r)
  <2> DEFINE phase == IF names = {} THEN "delNet" ELSE "sweepVol"
  <2>1. proc'[p] = [me EXCEPT !.vols = names, !.pc = phase]
    BY <1>3, <1>5 DEF Become, IInv, ProcSound
  <2>2. me.cli
    BY <1>3, <1>5 DEF Execs, ListFails, Reply
  <2> HIDE DEF names, phase
  <2>3. /\ proc'[p].pc = phase /\ proc'[p].vols = names /\ proc'[p].cli = me.cli
        /\ proc'[p].badC = me.badC /\ proc'[p].bad = me.bad
    BY <1>1, <2>1 DEF Invocations
  <2>4. phase = "sweepVol" \/ (phase = "delNet" /\ names = {})
    BY DEF phase
  <2> HIDE DEF me
  <2>5. VolumesLeft(proc'[p], names)
    BY <2>2, <2>3, <2>4 DEF VolumesLeft, NoSweep
  <2>6. ContainersLeft(proc'[p], containersMatchingLabel(c))
    BY <1>2, <2>3, <2>4 DEF ContainersLeft
  <2> QED
    BY <1>1, <2>3, <2>4, <2>5, <2>6 DEF Leaves, RecordLeft
<1> QED
  BY <1>4, <1>5

(* With the binary there, a volume that `volume delete` leaves is noted.     *)
LEMMA DeletedOrNoted ==
  ASSUME IInv, NEW p \in Procs, proc[p].cli, NEW name, NEW r \in Execs(p),
         NEW err \in BOOLEAN, volumeDelete(name, r, err)
  PROVE  /\ volumes' \subseteq volumes
         /\ ~err => \A v \in volumes' : v.name # name
<1>1. r \in {"done", "fails", "lost"}
  BY ProvisionerAssumption DEF Execs
<1>2. volumes' \subseteq volumes
  BY DEF volumeDelete
<1>3. CASE name \notin VolumesNamed
  BY <1>2, <1>3 DEF VolumesNamed
<1>4. CASE name \in VolumesNamed /\ ~err
  <2>1. r = "done" /\ name \notin Mounted
    BY <1>1, <1>4 DEF volumeDelete, Reply, NotIgnored
  <2>2. volumes' = {v \in volumes : v.name # name}
    BY <1>4, <2>1 DEF volumeDelete, Performed
  <2> QED
    BY <1>2, <2>2
<1> QED
  BY <1>2, <1>3, <1>4

(* So the volume sweep ends with each volume of its list gone or noted.      *)
LEMMA SweepVolumeLeaves ==
  ASSUME IInv, NEW p \in Procs, NEW c \in Clusters, proc[p].target = c,
         Leaves(proc[p], c), SweepVolume(p)
  PROVE  Leaves(proc[p], c)'
<1> DEFINE me == proc[p]
           names == volumesMatchingLabel(c)
<1>1. me \in Invocations /\ me.pc = "sweepVol"
  BY DEF IInv, ProcSound, SweepVolume
<1>2. /\ me.cli /\ names \subseteq me.vols \cup me.badV
      /\ "reflect" \notin me.bad =>
           containersMatchingLabel(c) \subseteq me.badC \/ "listC" \in me.bad
  BY <1>1 DEF Leaves, VolumesLeft, ContainersLeft, NoListing
<1>3. PICK name \in me.vols, r \in Execs(p), err \in BOOLEAN :
        /\ volumeDelete(name, r, err)
        /\ Become(p, [me EXCEPT
             !.pc = IF me.vols = {name} THEN "delNet" ELSE "sweepVol",
             !.vols = @ \ {name}, !.badV = Note(err, @, name)])
  BY DEF SweepVolume
<1>4. /\ (volumesMatchingLabel(c))' \subseteq names
      /\ ~err => name \notin (volumesMatchingLabel(c))'
  BY <1>2, <1>3, DeletedOrNoted, Listed
<1>5. (containersMatchingLabel(c))' = containersMatchingLabel(c)
  BY <1>3 DEF volumeDelete, containersMatchingLabel
<1> DEFINE noted == Note(err, me.badV, name)
           phase == IF me.vols = {name} THEN "delNet" ELSE "sweepVol"
           left == me.vols \ {name}
<1>6. proc'[p] = [me EXCEPT !.pc = phase, !.vols = left, !.badV = noted]
  BY <1>3 DEF Become, IInv, ProcSound
<1>7. me.badV \subseteq noted /\ (err => name \in noted)
  BY DEF Note
<1>8. phase = "sweepVol" \/ (phase = "delNet" /\ left = {})
  OBVIOUS
<1>9. (volumesMatchingLabel(c))' \subseteq left \cup noted
  BY <1>2, <1>4, <1>7
<1> HIDE DEF noted, phase, left
<1>10. /\ proc'[p].pc = phase /\ proc'[p].cli = me.cli
       /\ proc'[p].vols = left /\ proc'[p].badV = noted
       /\ proc'[p].badC = me.badC /\ proc'[p].bad = me.bad
  BY <1>1, <1>6 DEF Invocations
<1> HIDE DEF me
<1>11. VolumesLeft(proc'[p], (volumesMatchingLabel(c))')
  BY <1>2, <1>8, <1>9, <1>10 DEF VolumesLeft, NoSweep
<1>12. ContainersLeft(proc'[p], (containersMatchingLabel(c))')
  BY <1>2, <1>5, <1>8, <1>10 DEF ContainersLeft
<1> QED
  BY <1>8, <1>10, <1>11, <1>12 DEF Leaves, RecordLeft

(* What follows the sweep touches neither containers nor volumes, and does   *)
(* not succeed before the directory is gone.                                 *)
LEMMA EndLeaves ==
  ASSUME IInv, NEW p \in Procs, NEW c \in Clusters, proc[p].target = c,
         Leaves(proc[p], c),
         DestroyNetwork(p) \/ RemoveStateFiles(p) \/ RemoveStateDir(p)
  PROVE  Leaves(proc[p], c)'
<1> DEFINE me == proc[p]
<1>1. /\ me \in Invocations /\ me.pc \in NoSweep /\ me.pc \in NoListing
      /\ (containersMatchingLabel(c))' = containersMatchingLabel(c)
      /\ (volumesMatchingLabel(c))' = volumesMatchingLabel(c)
  BY DEF IInv, ProcSound, DestroyNetwork, destroyNetwork, RemoveStateFiles,
         RemoveStateDir, runtimeVars, NoSweep, NoListing, containersMatchingLabel,
         volumesMatchingLabel
<1>2. "reflect" \notin me.bad =>
        /\ containersMatchingLabel(c) \subseteq me.badC \/ "listC" \in me.bad
        /\ volumesMatchingLabel(c) \subseteq me.badV \/ "listV" \in me.bad
  BY <1>1 DEF Leaves, ContainersLeft, VolumesLeft
<1>3. PICK phase, what, err :
        /\ proc'[p] = [me EXCEPT !.pc = phase, !.bad = Note(err, me.bad, what)]
        /\ \/ phase \in {"rmRecord", "rmDir"}
           \/ phase = "returned" /\ what = "dir" /\ (err \/ RemoveDir(c, "done", FALSE))
  <2>1. CASE DestroyNetwork(p)
    BY <2>1 DEF DestroyNetwork, Become, IInv, ProcSound
  <2>2. CASE RemoveStateFiles(p)
    BY <2>2 DEF RemoveStateFiles, Become, IInv, ProcSound
  <2>3. CASE RemoveStateDir(p)
    <3>1. PICK r \in FileOps, err \in BOOLEAN :
            /\ RemoveDir(c, r, err)
            /\ Become(p, [me EXCEPT !.pc = "returned", !.bad = Note(err, @, "dir")])
      BY <2>3 DEF RemoveStateDir
    <3>2. err \/ RemoveDir(c, "done", FALSE)
      BY <3>1 DEF RemoveDir
    <3> QED
      BY <3>1, <3>2 DEF Become, IInv, ProcSound
  <2> QED
    BY <2>1, <2>2, <2>3
<1> DEFINE noted == Note(err, me.bad, what)
<1>4. me.bad \subseteq noted /\ (err => what \in noted)
  BY DEF Note
<1>5. RemoveDir(c, "done", FALSE) => c \notin dirs' /\ yaml'[c].status = "absent"
  BY IdentityAssumption DEF RemoveDir, clusterStatePath, NoRecord
<1>6. proc'[p] = [me EXCEPT !.pc = phase, !.bad = noted]
  BY <1>3
<1> HIDE DEF noted
<1>7. /\ proc'[p].pc = phase /\ proc'[p].bad = noted
      /\ proc'[p].badC = me.badC /\ proc'[p].badV = me.badV
  BY <1>1, <1>6 DEF Invocations
<1> HIDE DEF me
<1>8. ContainersLeft(proc'[p], containersMatchingLabel(c))
  BY <1>2, <1>3, <1>4, <1>7 DEF ContainersLeft
<1>9. VolumesLeft(proc'[p], volumesMatchingLabel(c))
  BY <1>2, <1>3, <1>4, <1>7 DEF VolumesLeft
<1>10. RecordLeft(proc[p], c)'
  BY <1>3, <1>4, <1>5, <1>7 DEF RecordLeft
<1> QED
  BY <1>1, <1>8, <1>9, <1>10 DEF Leaves

(* A step of an undisputed destroy keeps its own promise.                    *)
LEMMA OwnLeaves ==
  ASSUME IInv, SweepInv, NEW p \in Procs, DestroyStep(p), Undisputed(proc'[p])
  PROVE  Leaves(proc[p], proc[p].target)'
<1>1. Keeps(proc[p], proc'[p])
  BY DestroyKeeps
<1>2. PICK c \in Clusters : /\ proc[p].target = c /\ proc'[p].target = c
                            /\ Leaves(proc[p], c)
  BY <1>1 DEF Keeps, Undisputed, SweepInv
<1>3. Leaves(proc[p], c)'
  BY <1>2, RecordedPassLeaves, ListLeaves, SweepStopLeaves, SweepRemoveLeaves,
     ListVolumesLeaves, SweepVolumeLeaves, EndLeaves DEF DestroyStep
<1> QED
  BY <1>2, <1>3

(* Which operation starts.                                                   *)
LEMMA Begun ==
  ASSUME IInv, NEW q \in Procs
  PROVE  /\ StartCreate(q) => proc'[q].op = "create"
         /\ StartDestroy(q) => proc'[q].pc = "reflect"
<1>1. ASSUME StartCreate(q)
      PROVE  proc'[q].op = "create"
  <2>1. PICK c, domain, cli, net, work :
          Begin(q, [Idle EXCEPT
            !.op = "create", !.target = c, !.domain = domain, !.cli = cli,
            !.pc = "validate", !.net = net, !.work = work])
    BY <1>1 DEF StartCreate
  <2> DEFINE me == [Idle EXCEPT
               !.op = "create", !.target = c, !.domain = domain, !.cli = cli,
               !.pc = "validate", !.net = net, !.work = work]
  <2>2. \A set : [me EXCEPT !.rivals = set].op = "create"
    BY DEF Idle
  <2>3. Begin(q, me)
    BY <2>1
  <2> HIDE DEF me
  <2> QED
    BY <2>2, <2>3 DEF Begin
<1>2. ASSUME StartDestroy(q)
      PROVE  proc'[q].pc = "reflect"
  <2>1. PICK c, cli :
          Begin(q, [Idle EXCEPT !.op = "destroy", !.target = c, !.cli = cli,
                                !.pc = "reflect"])
    BY <1>2 DEF StartDestroy
  <2> DEFINE me == [Idle EXCEPT !.op = "destroy", !.target = c, !.cli = cli,
                                !.pc = "reflect"]
  <2>2. \A set : [me EXCEPT !.rivals = set].pc = "reflect"
    BY DEF Idle
  <2>3. Begin(q, me)
    BY <2>1
  <2> HIDE DEF me
  <2> QED
    BY <2>2, <2>3 DEF Begin
<1> QED
  BY <1>1, <1>2

(* Whatever acts, what an undisputed destroy leaves behind is accounted for. *)
LEMMA StepKeepsSweep ==
  ASSUME IInv, IInv', Witnesses, SweepInv, NEW q \in Procs, Acts(q)
  PROVE  SweepInv'
<1> SUFFICES ASSUME NEW p \in Procs, Undisputed(proc'[p])
             PROVE  Leaves(proc[p], proc[p].target)'
  BY DEF SweepInv
<1>1. CASE p # q
  BY <1>1, OthersLeave
<1>2. CASE p = q /\ DestroyStep(q)
  BY <1>2, OwnLeaves
<1>3. CASE p = q /\ ~DestroyStep(q)
  <2>1. ~(Exit(q) \/ Crash(q) \/ StartCreate(q))
    <3>1. Exit(q) \/ Crash(q) => proc'[q] = Idle
      BY DEF Exit, Crash, Become, IInv, ProcSound
    <3>2. StartCreate(q) => proc'[q].op = "create"
      BY Begun
    <3> QED
      BY <1>3, <3>1, <3>2 DEF Idle, Undisputed
  <2>2. ~CreateStep(q)
    <3>1. CreateStep(q) => proc'[q].op = "create"
      BY CreateKeeps DEF IInv, ProcSound, Sound, Keeps
    <3> QED
      BY <1>3, <3>1 DEF Undisputed
  <2>3. proc'[p].pc = "reflect"
    BY <1>3, <2>1, <2>2, Begun DEF Acts
  <2> QED
    BY <2>3 DEF Leaves, ContainersLeft, VolumesLeft, RecordLeft, NoListing, NoSweep
<1> QED
  BY <1>1, <1>2, <1>3

-----------------------------------------------------------------------------
(* The theorems.                                                             *)

(* Nothing runs, nothing is promised.                                        *)
LEMMA SweepInitially == Init => Witnesses /\ SweepInv
<1> SUFFICES ASSUME Init
             PROVE  Witnesses /\ SweepInv
  OBVIOUS
<1>1. \A p \in Procs : proc[p] = Idle
  BY DEF Init
<1>2. Idle.pc = "idle" /\ Idle.op = "none"
  BY DEF Idle
<1> QED
  BY <1>1, <1>2 DEF Witnesses, Witnessed, Running, SweepInv, Undisputed

(* Histories and promises are kept by every step.                            *)
LEMMA SweepInductive ==
  IInv /\ IInv' /\ Witnesses /\ SweepInv /\ [Next]_vars => Witnesses' /\ SweepInv'
<1> SUFFICES ASSUME IInv, IInv', Witnesses, SweepInv, [Next]_vars
             PROVE  Witnesses' /\ SweepInv'
  OBVIOUS
<1>1. CASE Next
  <2>1. PICK q \in Procs : Acts(q)
    BY <1>1 DEF Next, Acts
  <2> QED
    BY <2>1, WitnessedKept, StepKeepsSweep DEF Witnesses
<1>2. CASE UNCHANGED vars
  <2>1. Witnesses'
    BY <1>2 DEF vars, Witnesses, Witnessed, Running
  <2>2. SweepInv'
    BY <1>2 DEF vars, runtimeVars, SweepInv, Leaves, RecordLeft,
                containersMatchingLabel, volumesMatchingLabel
  <2> QED
    BY <2>1, <2>2
<1> QED
  BY <1>1, <1>2

(* At every moment of an undisputed destroy, however calls fail and whoever  *)
(* else is killed or runs, each container and volume of its cluster is still *)
(* to be listed, on its list, named in its error or hidden by a failed list. *)
THEOREM Accounted == Spec => []SweepInv
BY SweepInitially, SweepInductive, Ownership, PTL DEF Spec

(* A destroy that returns nil while no create of its cluster ran beside it   *)
(* leaves nothing of the cluster: no container, volume, record or directory, *)
(* whatever the create before it left half done (destroy.go:17-36).          *)
THEOREM CleanTeardown == Spec => []NilMeansClean
<1>1. SweepInv => NilMeansClean
  BY DEF SweepInv, Undisputed, Leaves, ContainersLeft, VolumesLeft, RecordLeft,
         NoListing, NoSweep, NilMeansClean, Succeeded, Returned, Clean
<1> QED
  BY <1>1, Accounted, PTL

(* One stuck node does not block the rest (destroy.go:80): what such a       *)
(* destroy leaves is a container or volume its error names, or one that a    *)
(* failed listing hid, for any number of nodes, failures and lost answers.   *)
THEOREM NamedFailures == Spec => []FailuresAreNamed
<1>1. IInv /\ SweepInv => FailuresAreNamed
  BY DEF SweepInv, Undisputed, Leaves, ContainersLeft, VolumesLeft,
         NoListing, NoSweep, FailuresAreNamed, Returned
<1> QED
  BY <1>1, Accounted, Ownership, PTL

-----------------------------------------------------------------------------
(* The network, step by step.                                                *)

SameNet(me, new) == new.work = me.work /\ new.net = me.net /\ new.cli = me.cli
Noting(me, new) == SameNet(me, new) /\ me.bad \subseteq new.bad

(* The loops touch neither the nodes, nor the network, nor the errors.       *)
LEMMA LoopsKeepNet ==
  ASSUME NEW me \in Invocations
  PROVE  /\ \A a, b : Noting(me, NextNode(me, a, b))
         /\ \A a, b, c : Noting(me, NextVolume(me, a, b, c))
<1>1. \A other \in Invocations : \A a, b : Noting(other, NextNode(other, a, b))
  BY DEF Noting, SameNet, NextNode, Invocations
<1>2. [me EXCEPT !.kind = "var"] \in Invocations
  BY DEF Invocations, Kinds
<1>3. /\ Noting(me, [me EXCEPT !.kind = "var"])
      /\ \A a : Noting(me, [me EXCEPT !.pc = a, !.kind = "system-state"])
  BY DEF Noting, SameNet, Invocations
<1>4. ASSUME NEW a, NEW b, NEW c
      PROVE  Noting(me, NextVolume(me, a, b, c))
  <2> DEFINE mid == [me EXCEPT !.kind = "var"]
  <2>1. Noting(mid, NextNode(mid, b, c)) /\ Noting(me, mid)
    BY <1>1, <1>2, <1>3
  <2>2. Noting(me, NextNode(mid, b, c))
    BY <2>1 DEF Noting, SameNet
  <2> QED
    BY <1>3, <2>2 DEF NextVolume
<1> QED
  BY <1>1, <1>4

(* A create's request names its network from first to last.                  *)
LEMMA CreateKeepsNet ==
  ASSUME IInv, NEW p \in Procs, CreateStep(p)
  PROVE  SameNet(proc[p], proc'[p])
<1> DEFINE me == proc[p]
<1>1. me \in Invocations
  BY DEF IInv, ProcSound
<1>2. \/ \E what : Fail(p, what)
      \/ \E phase : Goto(p, phase)
      \/ \E again, after : Become(p, NextNode(me, again, after))
      \/ Become(p, NextVolume(me, "volExists", "volExists", "launch"))
  BY DEF CreateStep, ValidateClusterRequest, NewStateStat, NewStateMkdir,
         EnsureNetwork, CheckDNSDomain, CheckVolume, CreateVolume, Launch,
         WaitForIPv4, ReconcileConfigs, SaveOpen, SaveWrite, SaveTalosconfig
<1>3. /\ \A phase : SameNet(me, [me EXCEPT !.pc = phase])
      /\ \A what : SameNet(me, [me EXCEPT !.pc = "returned", !.bad = {what}])
  BY <1>1 DEF SameNet, Invocations
<1>4. PICK new : Become(p, new) /\ SameNet(me, new)
  BY <1>1, <1>2, <1>3, LoopsKeepNet DEF Fail, Goto, Noting
<1> QED
  BY <1>4 DEF IInv, ProcSound, Become

(* After Reflect a destroy keeps what it read, and every error it noted.     *)
LEMMA DestroyKeepsNet ==
  ASSUME IInv, NEW p \in Procs, DestroyStep(p), ~Reflect(p)
  PROVE  Noting(proc[p], proc'[p])
<1> DEFINE me == proc[p]
<1>1. me \in Invocations
  BY DEF IInv, ProcSound
<1>2. \A new : Become(p, new) => proc'[p] = new
  BY DEF IInv, ProcSound, Become
<1>3. CASE DeleteRecordedVolume(p)
  <2>1. PICK err \in BOOLEAN :
          Become(p, NextVolume([me EXCEPT !.badV = Note(err, @, ThisVolume(p))],
                               "delVol", "stop", Sweep(me.target)))
    BY <1>3 DEF DeleteRecordedVolume
  <2>2. ThisVolume(p) \in VolumeNames
    <3>1. me.pc \in LoopPhases /\ me.pc \in DestroyPhases
      BY <1>3 DEF DeleteRecordedVolume, LoopPhases, DestroyPhases
    <3> QED
      BY <3>1, DestroyContext
  <2> DEFINE badV == Note(err, me.badV, ThisVolume(p))
             mid == [me EXCEPT !.badV = badV]
  <2>3. badV \in SUBSET VolumeNames
    BY <1>1, <2>2 DEF Note, Invocations
  <2>4. proc'[p] = NextVolume(mid, "delVol", "stop", Sweep(me.target))
    BY <1>2, <2>1
  <2> HIDE DEF badV
  <2>5. mid \in Invocations /\ Noting(me, mid)
    BY <1>1, <2>3 DEF Invocations, Noting, SameNet
  <2>6. Noting(mid, NextVolume(mid, "delVol", "stop", Sweep(me.target)))
    BY <2>5, LoopsKeepNet
  <2> QED
    BY <2>4, <2>5, <2>6 DEF Noting, SameNet
<1>4. CASE ~DeleteRecordedVolume(p)
  <2>1. \A pc, x, y, z, bad :
          /\ me.bad \subseteq bad => Noting(me, [me EXCEPT !.pc = pc, !.bad = bad])
          /\ Noting(me, [me EXCEPT !.pc = pc, !.badC = x])
          /\ Noting(me, [me EXCEPT !.todo = x, !.pc = pc])
          /\ Noting(me, [me EXCEPT !.pc = pc, !.cur = x, !.badC = y])
          /\ Noting(me, [me EXCEPT !.pc = pc, !.cur = x, !.todo = y, !.badC = z])
          /\ Noting(me, [me EXCEPT !.vols = x, !.pc = pc])
          /\ Noting(me, [me EXCEPT !.pc = pc, !.vols = x, !.badV = y])
    BY <1>1 DEF Noting, SameNet, Invocations
  <2>2. PICK pc, x, y, z, bad :
          \/ me.bad \subseteq bad /\ Become(p, [me EXCEPT !.pc = pc, !.bad = bad])
          \/ Become(p, [me EXCEPT !.pc = pc, !.badC = x])
          \/ Become(p, [me EXCEPT !.todo = x, !.pc = pc])
          \/ Become(p, [me EXCEPT !.pc = pc, !.cur = x, !.badC = y])
          \/ Become(p, [me EXCEPT !.pc = pc, !.cur = x, !.todo = y, !.badC = z])
          \/ Become(p, [me EXCEPT !.vols = x, !.pc = pc])
          \/ Become(p, [me EXCEPT !.pc = pc, !.vols = x, !.badV = y])
    <3>1. CASE StopRecorded(p) \/ RemoveRecorded(p)
      BY <3>1 DEF StopRecorded, RemoveRecorded
    <3>2. CASE ListContainers(p) \/ ListVolumes(p)
      <4>1. me.bad \subseteq me.bad \cup {"listC"} /\ me.bad \subseteq me.bad \cup {"listV"}
        OBVIOUS
      <4> QED
        BY <3>2, <4>1 DEF ListContainers, ListVolumes
    <3>3. CASE SweepStop(p)
      BY <3>3 DEF SweepStop
    <3>4. CASE SweepRemove(p)
      BY <3>4 DEF SweepRemove
    <3>5. CASE SweepVolume(p)
      BY <3>5 DEF SweepVolume
    <3>6. CASE DestroyNetwork(p) \/ RemoveStateFiles(p) \/ RemoveStateDir(p)
      <4>1. \A err, what : me.bad \subseteq Note(err, me.bad, what)
        BY DEF Note
      <4> QED
        BY <3>6, <4>1 DEF DestroyNetwork, RemoveStateFiles, RemoveStateDir
    <3> QED
      BY <1>4, <3>1, <3>2, <3>3, <3>4, <3>5, <3>6 DEF DestroyStep
  <2>3. \A new : Become(p, new) /\ Noting(me, new) => Noting(me, proc'[p])
    BY <1>2
  <2>4. /\ me.bad \subseteq bad => Noting(me, [me EXCEPT !.pc = pc, !.bad = bad])
        /\ Noting(me, [me EXCEPT !.pc = pc, !.badC = x])
        /\ Noting(me, [me EXCEPT !.todo = x, !.pc = pc])
        /\ Noting(me, [me EXCEPT !.pc = pc, !.cur = x, !.badC = y])
        /\ Noting(me, [me EXCEPT !.pc = pc, !.cur = x, !.todo = y, !.badC = z])
        /\ Noting(me, [me EXCEPT !.vols = x, !.pc = pc])
        /\ Noting(me, [me EXCEPT !.pc = pc, !.vols = x, !.badV = y])
    BY <2>1
  <2> HIDE DEF me
  <2>5. Noting(me, proc'[p])
    BY <2>2, <2>3, <2>4
  <2> QED
    BY <2>5 DEF me
<1> QED
  BY <1>3, <1>4

(* The sweep goes on to the next of its phases.                              *)
LEMMA SweepPhaseNext ==
  ASSUME IInv, NEW p \in Procs,
         \/ ListContainers(p) \/ ListVolumes(p) \/ SweepStop(p) \/ SweepRemove(p)
         \/ SweepVolume(p)
  PROVE  proc'[p].pc \in {"listV", "sweepStop", "sweepRm", "delNet", "sweepVol"}
<1> DEFINE me == proc[p]
<1>1. me \in Invocations /\ \A new : Become(p, new) => proc'[p] = new
  BY DEF IInv, ProcSound, Become
<1>2. CASE ListContainers(p)
  <2>1. \/ \E x : proc'[p] = [me EXCEPT !.pc = "listV", !.bad = x]
        \/ \E x : proc'[p] = [me EXCEPT !.todo = x,
                               !.pc = IF x = {} THEN "listV" ELSE "sweepStop"]
    BY <1>1, <1>2 DEF ListContainers
  <2> QED
    BY <1>1, <2>1, ZenonT(60) DEF Invocations
<1>3. CASE ListVolumes(p)
  <2>1. \/ \E x : proc'[p] = [me EXCEPT !.pc = "delNet", !.bad = x]
        \/ \E x : proc'[p] = [me EXCEPT !.vols = x,
                               !.pc = IF x = {} THEN "delNet" ELSE "sweepVol"]
    BY <1>1, <1>3 DEF ListVolumes
  <2> QED
    BY <1>1, <2>1, ZenonT(60) DEF Invocations
<1>4. CASE SweepStop(p)
  <2>1. \E x, y : proc'[p] = [me EXCEPT !.pc = "sweepRm", !.cur = x, !.badC = y]
    BY <1>1, <1>4 DEF SweepStop
  <2> QED
    BY <1>1, <2>1 DEF Invocations
<1>5. CASE SweepRemove(p)
  <2>1. PICK id, err : proc'[p] = [me EXCEPT
                             !.pc = IF me.todo = {id} THEN "listV" ELSE "sweepStop",
                             !.cur = {}, !.todo = me.todo \ {id},
                             !.badC = Note(err, me.badC, id)]
    BY <1>1, <1>5 DEF SweepRemove
  <2> QED
    BY <1>1, <2>1 DEF Invocations
<1>6. CASE SweepVolume(p)
  <2>1. PICK name, err : proc'[p] = [me EXCEPT
                             !.pc = IF me.vols = {name} THEN "delNet" ELSE "sweepVol",
                             !.vols = me.vols \ {name},
                             !.badV = Note(err, me.badV, name)]
    BY <1>1, <1>6 DEF SweepVolume
  <2> QED
    BY <1>1, <2>1 DEF Invocations
<1> QED
  BY <1>2, <1>3, <1>4, <1>5, <1>6

(* The way of a destroy past its list, and past its network.                 *)
LEMMA DestroyWay ==
  ASSUME IInv, NEW p \in Procs, DestroyStep(p), ~Reflect(p),
         proc[p].target \in Clusters
  PROVE  /\ proc'[p].pc \in PastList =>
              proc[p].pc \in PastList \/ ListContainers(p)
         /\ proc'[p].pc \in Late => proc[p].pc \in Late \/ DestroyNetwork(p)
<1> DEFINE me == proc[p]
<1>1. me \in Invocations /\ \A new : Become(p, new) => proc'[p] = new
  BY DEF IInv, ProcSound, Become
<1>2. CASE StopRecorded(p) \/ RemoveRecorded(p) \/ DeleteRecordedVolume(p)
  BY <1>2, RecordedPhase DEF PastList, NoListing, Late
<1>3. CASE ListContainers(p) \/ ListVolumes(p) \/ SweepStop(p) \/ SweepRemove(p)
           \/ SweepVolume(p)
  <2>1. me.pc \in PastList \/ ListContainers(p)
    BY <1>3 DEF ListVolumes, SweepStop, SweepRemove, SweepVolume, PastList, NoListing
  <2>2. proc'[p].pc \in {"listV", "sweepStop", "sweepRm", "delNet", "sweepVol"}
    BY <1>3, SweepPhaseNext
  <2> QED
    BY <2>1, <2>2 DEF Late
<1>4. CASE DestroyNetwork(p) \/ RemoveStateFiles(p) \/ RemoveStateDir(p)
  BY <1>4 DEF DestroyNetwork, RemoveStateFiles, RemoveStateDir, PastList, NoListing, Late
<1> QED
  BY <1>2, <1>3, <1>4 DEF DestroyStep

(* A record is written with its cluster's network, or emptied.               *)
LEMMA RecordsNamedKept ==
  ASSUME IInv, RecordsNamed, NEW q \in Procs, Acts(q)
  PROVE  RecordsNamed'
<1> SUFFICES ASSUME NEW c \in Clusters, yaml'[c].nodes # <<>>
             PROVE  yaml'[c].network = NetworkOf[c]
  BY DEF RecordsNamed
<1>1. yaml \in [Clusters -> Records]
  BY DEF IInv, StateSound, StateTypeOK
<1>2. NoRecord.nodes = <<>> /\ TornRecord.nodes = <<>>
  BY DEF NoRecord, TornRecord
<1>3. \/ yaml'[c] \in {yaml[c], NoRecord, TornRecord}
      \/ yaml'[c].network = NetworkOf[c]
  <2>1. CASE SaveOpen(q)
    BY <1>1, <2>1 DEF SaveOpen, OpenRecord
  <2>2. CASE SaveWrite(q)
    <3>1. PICK nodes : \/ yaml' = yaml
                       \/ yaml' = [yaml EXCEPT ![proc[q].target] =
                             [status |-> "saved", nodes |-> nodes,
                              network |-> NetworkOf[proc[q].target]]]
      BY <2>2 DEF SaveWrite, WriteRecord
    <3> QED
      BY <1>1, <3>1
  <2>3. CASE RemoveStateFiles(q) \/ RemoveStateDir(q)
    BY <2>3 DEF RemoveStateFiles, RemoveStateDir, RemoveRecord, RemoveDir, stateVars
  <2>4. CASE yaml' = yaml
    BY <2>4
  <2> QED
    BY <2>1, <2>2, <2>3, <2>4
       DEF Acts, StartCreate, StartDestroy, Exit, Crash, CreateStep, DestroyStep,
           ValidateClusterRequest, NewStateStat, StatDir, NewStateMkdir, MakeDir,
           EnsureNetwork, CheckDNSDomain, CheckVolume, CreateVolume, Launch,
           WaitForIPv4, ReconcileConfigs, SaveTalosconfig, Reflect, StopRecorded,
           RemoveRecorded, DeleteRecordedVolume, ListContainers, SweepStop,
           SweepRemove, ListVolumes, SweepVolume, DestroyNetwork, stateVars
<1> QED
  BY <1>2, <1>3 DEF RecordsNamed

(* What Reflect finds in a record is its cluster's.                          *)
LEMMA ReflectKnows ==
  ASSUME IInv, RecordsNamed, NEW p \in Procs, Reflect(p), ~Fail(p, "reflect"),
         proc'[p].work # <<>>
  PROVE  /\ proc[p].target \in Clusters
         /\ proc'[p].net = NetworkOf[proc[p].target]
<1> DEFINE me == proc[p]
           c == me.target
           record == ReadState(c)
<1>1. me \in Invocations /\ \A new : Become(p, new) => proc'[p] = new
  BY DEF IInv, ProcSound, Become
<1>2. PICK phase : proc'[p] = [me EXCEPT !.work = record.nodes,
                                         !.net = record.network, !.pc = phase]
  BY <1>1 DEF Reflect
<1> HIDE DEF record
<1>3. proc'[p].work = record.nodes /\ proc'[p].net = record.network
  BY <1>1, <1>2 DEF Invocations
<1>4. c # EmptyName
  BY <1>3 DEF record, ReadState, NoRecord
<1>5. c \in Clusters
  BY <1>1, <1>4 DEF Invocations
<1>6. record = yaml[c]
  BY <1>4 DEF record, ReadState
<1> QED
  BY <1>3, <1>5, <1>6 DEF RecordsNamed

(* A failed Reflect leaves the invocation as it was.                         *)
LEMMA FailKeepsNet ==
  ASSUME IInv, NEW p \in Procs, NEW what, Fail(p, what)
  PROVE  SameNet(proc[p], proc'[p])
<1>1. /\ proc[p] \in Invocations
      /\ proc'[p] = [proc[p] EXCEPT !.pc = "returned", !.bad = {what}]
  BY DEF IInv, ProcSound, Fail, Become
<1> QED
  BY <1>1 DEF SameNet, Invocations

(* A list of containers that comes proves that the binary is there.          *)
LEMMA ListNeedsCli ==
  ASSUME IInv, NEW p \in Procs, ListContainers(p), "listC" \notin proc'[p].bad
  PROVE  proc[p].cli
<1> DEFINE me == proc[p]
<1>1. PICK r \in Execs(p) :
        ListFails(r) =>
          Become(p, [me EXCEPT !.pc = "listV", !.bad = @ \cup {"listC"}])
  BY DEF ListContainers
<1>2. ~ListFails(r)
  <2> SUFFICES ASSUME ListFails(r)
               PROVE  FALSE
    OBVIOUS
  <2>1. /\ me \in Invocations
        /\ proc'[p] = [me EXCEPT !.pc = "listV", !.bad = me.bad \cup {"listC"}]
    BY <1>1 DEF IInv, ProcSound, Become
  <2>2. proc'[p].bad = me.bad \cup {"listC"}
    BY <2>1 DEF Invocations
  <2> QED
    BY <2>2
<1> QED
  BY <1>2 DEF Execs, ListFails, Reply

(* An invocation's own steps: it goes on knowing its network.                *)
LEMMA OwnKnows ==
  ASSUME IInv, IInv', NetworkInv, NEW p \in Procs, Acts(p)
  PROVE  NetworkKnown(proc'[p])
<1> DEFINE me == proc[p]
           new == proc'[p]
<1>1. NetworkKnown(me) /\ RecordsNamed
  BY DEF NetworkInv
<1>2. CASE Starts(p)
  <2>1. PICK begun \in Invocations :
          /\ Begin(p, begun)
          /\ BeginsCreate(begun) \/ BeginsDestroy(begun)
    BY <1>2, Beginning
  <2>2. /\ new.op = begun.op /\ new.target = begun.target /\ new.pc = begun.pc
        /\ new.work = begun.work /\ new.net = begun.net
    BY <2>1, BeginEffect
  <2> QED
    BY <2>1, <2>2 DEF BeginsCreate, BeginsDestroy, NetworkKnown, PastList, NoListing,
                      CreatePhases
<1>3. CASE Exit(p) \/ Crash(p)
  <2>1. new = Idle
    BY <1>3 DEF Exit, Crash, Become, IInv, ProcSound
  <2> QED
    BY <2>1 DEF Idle, NetworkKnown, CreatePhases
<1>4. CASE CreateStep(p)
  <2>1. Keeps(me, new) /\ SameNet(me, new) /\ me.pc \in CreatePhases
    BY <1>4, CreateKeeps, CreateKeepsNet
  <2>2. me.op = "create"
    BY <2>1 DEF IInv, ProcSound, Sound
  <2> QED
    BY <1>1, <2>1, <2>2 DEF Keeps, SameNet, NetworkKnown
<1>5. CASE DestroyStep(p)
  <2>1. Keeps(me, new) /\ me.pc \in DestroyPhases /\ me.op = "destroy"
    BY <1>5, DestroyKeeps DEF IInv, ProcSound, Sound
  <2>2. new.op = "destroy" /\ new.target = me.target /\ new.pc \notin CreatePhases
    <3>1. Sound(new)
      BY DEF IInv, ProcSound
    <3> QED
      BY <2>1, <3>1 DEF Keeps, Sound
  <2>3. CASE Reflect(p)
    <3>1. ASSUME new.work # <<>>
          PROVE  me.target \in Clusters /\ new.net = NetworkOf[me.target]
      <4>1. CASE Fail(p, "reflect")
        BY <1>1, <2>1, <3>1, <4>1, FailKeepsNet DEF SameNet, NetworkKnown
      <4>2. CASE ~Fail(p, "reflect")
        BY <1>1, <2>3, <3>1, <4>2, ReflectKnows
      <4> QED
        BY <4>1, <4>2
    <3>2. me.target \in Clusters /\ new.pc \in PastList => "reflect" \in new.bad
      BY <2>3, RecordedPhase DEF PastList, NoListing
    <3> QED
      BY <2>2, <3>1, <3>2 DEF NetworkKnown
  <2>4. CASE ~Reflect(p)
    <3>1. Noting(me, new)
      BY <1>5, <2>4, DestroyKeepsNet
    <3>2. ASSUME me.target \in Clusters, new.pc \in PastList,
                 new.bad \cap {"reflect", "listC"} = {}
          PROVE  new.cli
      <4>1. me.pc \in PastList \/ ListContainers(p)
        BY <1>5, <2>4, <3>2, DestroyWay
      <4> QED
        BY <1>1, <2>1, <3>1, <3>2, <4>1, ListNeedsCli DEF Noting, SameNet, NetworkKnown
    <3> QED
      BY <1>1, <2>1, <2>2, <3>1, <3>2 DEF Noting, SameNet, NetworkKnown
  <2> QED
    BY <2>3, <2>4
<1> QED
  BY <1>2, <1>3, <1>4, <1>5 DEF Acts, Starts

(* Seen from the others a network's user changes no more than its history.   *)
LEMMA OthersKnow ==
  ASSUME IInv, NEW q \in Procs, NEW p \in Procs \ {q}, Acts(q)
  PROVE  SameNet(proc[p], proc'[p]) /\ SameSweep(proc[p], proc'[p])
<1>1. proc[p] \in Invocations
  BY DEF IInv, ProcSound
<1>2. \A set : SameNet(proc[p], [proc[p] EXCEPT !.rivals = set])
  BY <1>1 DEF SameNet, Invocations
<1>3. \/ proc'[p] = proc[p]
      \/ \E set : proc'[p] = [proc[p] EXCEPT !.rivals = proc[p].rivals \cup set]
  BY NextIsOnes, OthersKeep DEF Acts
<1>4. SameNet(proc[p], proc'[p])
  BY <1>2, <1>3 DEF SameNet
<1> QED
  BY <1>4, OthersSameSweep

(* Only a create brings a network, the one its request names.                *)
LEMMA WhoBringsNetworks ==
  ASSUME NEW q \in Procs, Acts(q)
  PROVE  \/ networks' \subseteq networks
         \/ /\ EnsureNetwork(q) /\ ~IsBuiltIn(proc[q].net)
            /\ networks' \subseteq networks \cup {proc[q].net}
<1>1. CASE EnsureNetwork(q)
  BY <1>1 DEF EnsureNetwork, ensureNetwork, runtimeVars
<1>2. CASE DestroyNetwork(q)
  BY <1>2 DEF DestroyNetwork, destroyNetwork, runtimeVars
<1>3. CASE UNCHANGED networks
  BY <1>3
<1> QED
  BY <1>1, <1>2, <1>3
     DEF Acts, StartCreate, StartDestroy, Exit, Crash, CreateStep, DestroyStep,
         ValidateClusterRequest, NewStateStat, NewStateMkdir, CheckDNSDomain,
         CheckVolume, volumeExists, CreateVolume, volumeCreate, Launch, runNode,
         WaitForIPv4, ReconcileConfigs, SaveOpen, SaveWrite, SaveTalosconfig, Reflect,
         StopRecorded, RemoveRecorded, DeleteRecordedVolume, ListContainers, SweepStop,
         SweepRemove, ListVolumes, SweepVolume, stop, remove, volumeDelete,
         RemoveStateFiles, RemoveStateDir, runtimeVars

(* A network that an undisputed destroy has deleted stays deleted while      *)
(* others act: who brings it is a create of its cluster.                     *)
LEMMA OthersLeaveNetwork ==
  ASSUME NetworksApart, IInv, Witnesses, NetworkInv,
         NEW q \in Procs, NEW p \in Procs \ {q}, Acts(q)
  PROVE  NetworkGone(proc[p])'
<1> DEFINE me == proc[p]
           c == me.target
<1>1. SameNet(me, proc'[p]) /\ SameSweep(me, proc'[p])
  BY OthersKnow
<1> SUFFICES ASSUME Undisputed(proc'[p]), proc'[p].work # <<>>, proc'[p].pc \in Late,
                    proc'[p].bad \cap {"reflect", "listC", "network"} = {}
             PROVE  NetworkOf[c] \notin networks'
  BY <1>1 DEF NetworkGone, SameSweep
<1>2. Undisputed(me) /\ NetworkOf[c] \notin networks /\ me.pc # "idle"
  BY <1>1 DEF NetworkInv, NetworkGone, Undisputed, SameNet, SameSweep, Late
<1>3. ASSUME EnsureNetwork(q), ~IsBuiltIn(proc[q].net), proc[q].net = NetworkOf[c]
      PROVE  FALSE
  <2>1. /\ proc[q].pc \in CreatePhases /\ Running(q)
        /\ proc[q].op = "create" /\ proc[q].target \in Clusters
    BY <1>3 DEF EnsureNetwork, CreatePhases, Running, IInv, ProcSound, Sound
  <2>2. proc[q].net = NetworkOf[proc[q].target]
    BY <2>1 DEF NetworkInv, NetworkKnown
  <2>3. proc[q].target = c
    BY <1>2, <1>3, <2>1, <2>2 DEF NetworksApart, Undisputed
  <2>4. Witnessed(p, q)
    BY DEF Witnesses
  <2> QED
    BY <1>2, <2>1, <2>3, <2>4 DEF Witnessed, Meets, Undisputed
<1> QED
  BY <1>2, <1>3, WhoBringsNetworks

(* With the binary there, an answer without error means that the network is  *)
(* built in, or gone.                                                        *)
LEMMA NetworkDeleted ==
  ASSUME IInv, NEW p \in Procs, proc[p].cli, NEW r \in Execs(p), NEW net,
         destroyNetwork(net, r, FALSE)
  PROVE  net \notin networks'
<1>1. r \in {"done", "fails", "lost"}
  BY ProvisionerAssumption DEF Execs
<1>2. CASE IsBuiltIn(net)
  BY <1>2 DEF destroyNetwork, runtimeVars, IsBuiltIn, IInv, RuntimeSound, RuntimeTypeOK,
              NamedNetworks
<1>3. CASE ~IsBuiltIn(net) /\ net \notin networks
  BY <1>3 DEF destroyNetwork
<1>4. CASE ~IsBuiltIn(net) /\ net \in networks
  <2>1. r = "done" /\ ~Attached(net)
    BY <1>1, <1>4 DEF destroyNetwork, Reply, NotIgnored
  <2> QED
    BY <1>4, <2>1 DEF destroyNetwork, Performed
<1> QED
  BY <1>2, <1>3, <1>4

(* A destroy past destroyNetwork without an error has deleted its network.   *)
LEMMA OwnLeavesNetwork ==
  ASSUME IInv, NetworkInv, NEW p \in Procs, DestroyStep(p)
  PROVE  NetworkGone(proc[p])'
<1> DEFINE me == proc[p]
           new == proc'[p]
           c == me.target
<1>1. Keeps(me, new)
  BY DestroyKeeps
<1> SUFFICES ASSUME Undisputed(new), new.work # <<>>, new.pc \in Late,
                    new.bad \cap {"reflect", "listC", "network"} = {}
             PROVE  NetworkOf[c] \notin networks'
  BY <1>1 DEF NetworkGone, Keeps
<1>2. Undisputed(me) /\ c \in Clusters /\ me.op = "destroy"
  BY <1>1 DEF Keeps, Undisputed
<1>3. ~Reflect(p)
  BY <1>2, RecordedPhase DEF Late
<1>4. Noting(me, new)
  BY <1>3, DestroyKeepsNet
<1>5. /\ me.work # <<>> /\ me.net = NetworkOf[c]
      /\ me.bad \cap {"reflect", "listC", "network"} = {}
  BY <1>2, <1>4 DEF Noting, SameNet, NetworkInv, NetworkKnown
<1>6. CASE DestroyNetwork(p)
  <2>1. me.pc \in PastList
    BY <1>6 DEF DestroyNetwork, PastList, NoListing
  <2>2. me.cli
    BY <1>2, <1>5, <2>1 DEF NetworkInv, NetworkKnown
  <2>3. PICK r \in Execs(p), err \in BOOLEAN :
          /\ destroyNetwork(me.net, r, err)
          /\ Become(p, [me EXCEPT !.pc = "rmRecord", !.bad = Note(err, @, "network")])
    BY <1>6 DEF DestroyNetwork
  <2>4. ~err
    <3>1. /\ me \in Invocations
          /\ new = [me EXCEPT !.pc = "rmRecord", !.bad = Note(err, me.bad, "network")]
      BY <2>3 DEF IInv, ProcSound, Become
    <3>2. new.bad = Note(err, me.bad, "network")
      BY <3>1 DEF Invocations
    <3> QED
      BY <3>2 DEF Note
  <2> QED
    BY <1>5, <2>2, <2>3, <2>4, NetworkDeleted
<1>7. CASE ~DestroyNetwork(p)
  <2>1. me.pc \in Late
    BY <1>2, <1>3, <1>7, DestroyWay
  <2>2. networks' = networks
    BY <1>7, <2>1 DEF DestroyStep, Late, Reflect, StopRecorded, RemoveRecorded,
       DeleteRecordedVolume, ListContainers, SweepStop, SweepRemove, ListVolumes,
       SweepVolume, RemoveStateFiles, RemoveStateDir, runtimeVars
  <2> QED
    BY <1>2, <1>5, <2>1, <2>2 DEF NetworkInv, NetworkGone
<1> QED
  BY <1>6, <1>7

(* Every step keeps the invariant of the network.                            *)
LEMMA StepKeepsNetwork ==
  ASSUME NetworksApart, IInv, IInv', Witnesses, NetworkInv, NEW q \in Procs, Acts(q)
  PROVE  NetworkInv'
<1>1. RecordsNamed'
  BY RecordsNamedKept DEF NetworkInv
<1>2. ASSUME NEW p \in Procs
      PROVE  NetworkKnown(proc'[p])
  <2>1. CASE p # q
    <3>1. SameNet(proc[p], proc'[p]) /\ SameSweep(proc[p], proc'[p])
      BY <2>1, OthersKnow
    <3> QED
      BY <3>1 DEF SameNet, SameSweep, NetworkInv, NetworkKnown
  <2> QED
    BY <2>1, OwnKnows
<1>3. ASSUME NEW p \in Procs
      PROVE  NetworkGone(proc[p])'
  <2>1. CASE p = q /\ ~DestroyStep(q)
    <3>1. Undisputed(proc'[q]) => proc'[q].pc \notin Late
      <4>1. CASE Starts(q)
        <5>1. PICK begun \in Invocations :
                /\ Begin(q, begun)
                /\ BeginsCreate(begun) \/ BeginsDestroy(begun)
          BY <4>1, Beginning
        <5> QED
          BY <5>1, BeginEffect DEF BeginsCreate, BeginsDestroy, Late
      <4>2. CASE Exit(q) \/ Crash(q)
        BY <4>2 DEF Exit, Crash, Become, IInv, ProcSound, Idle, Undisputed
      <4>3. CASE CreateStep(q)
        BY <4>3, CreateKeeps DEF IInv, ProcSound, Sound, Keeps, Undisputed
      <4> QED
        BY <2>1, <4>1, <4>2, <4>3 DEF Acts, Starts
    <3> QED
      BY <2>1, <3>1 DEF NetworkGone
  <2> QED
    BY <2>1, OthersLeaveNetwork, OwnLeavesNetwork
<1> QED
  BY <1>1, <1>2, <1>3 DEF NetworkInv

(* Nothing is recorded, nobody runs.                                         *)
LEMMA NetworkInitially == Init => NetworkInv
<1> SUFFICES ASSUME Init
             PROVE  NetworkInv
  OBVIOUS
<1>1. /\ \A c \in Clusters : yaml[c].nodes = <<>>
      /\ \A p \in Procs : proc[p] = Idle
  BY DEF Init, StateInit, NoRecord
<1>2. Idle.pc = "idle" /\ Idle.op = "none"
  BY DEF Idle
<1> QED
  BY <1>1, <1>2 DEF NetworkInv, RecordsNamed, NetworkKnown, NetworkGone, Undisputed,
                    CreatePhases

(* The network's invariant is inductive, relative to ownership and history.  *)
LEMMA NetworkInductive ==
  ASSUME NetworksApart
  PROVE  IInv /\ IInv' /\ Witnesses /\ NetworkInv /\ [Next]_vars => NetworkInv'
<1> SUFFICES ASSUME IInv, IInv', Witnesses, NetworkInv, [Next]_vars
             PROVE  NetworkInv'
  OBVIOUS
<1>1. CASE Next
  <2>1. PICK q \in Procs : Acts(q)
    BY <1>1 DEF Next, Acts
  <2> QED
    BY <2>1, StepKeepsNetwork
<1>2. CASE UNCHANGED vars
  BY <1>2 DEF vars, runtimeVars, NetworkInv, RecordsNamed, NetworkGone
<1> QED
  BY <1>1, <1>2

(* A destroy knows which network its cluster has, and has removed it or has  *)
(* an error to report (destroy.go:150), for any number of invocations, as    *)
(* long as no two clusters name the same network.                            *)
THEOREM NetworkHeld ==
  ASSUME NetworksApart
  PROVE  Spec => []NetworkInv
BY NetworkInitially, NetworkInductive, SweepInitially, SweepInductive, Ownership, PTL DEF Spec

(* Teardown leaves only the default network (runbook.md:97): a destroy that  *)
(* returns nil, found a record and had no create of its cluster beside it    *)
(* leaves no network of the name the record gives, however many others run,  *)
(* provided that no other cluster asks for the same one.                     *)
THEOREM NetworkTornDown ==
  ASSUME NetworksApart
  PROVE  Spec => []NilMeansNetworkGone
<1>1. IInv /\ NetworkInv => NilMeansNetworkGone
  <2> SUFFICES ASSUME IInv, NetworkInv, NEW p \in Procs, Succeeded(p, "destroy"),
                      proc[p].work # <<>>, "create" \notin proc[p].rivals
               PROVE  NetworkOf[proc[p].target] \notin networks
    BY DEF NilMeansNetworkGone
  <2> QED
    BY DEF NetworkInv, NetworkKnown, NetworkGone, Undisputed, Late, Succeeded, Returned
<1> QED
  BY <1>1, NetworkHeld, Ownership, PTL
=============================================================================
