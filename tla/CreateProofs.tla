---------------------------- MODULE CreateProofs -----------------------------
(* What creates promise each other.  First, that the volumes are the only    *)
(* lock between two creates of a cluster, for every set of clusters and      *)
(* invocations, shapes and faults.  Then what a create leaves behind, for    *)
(* any number of invocations that create any clusters at once, fail and are  *)
(* killed, while nobody destroys; the finding in Recreate.cfg shows that a   *)
(* destroy between two creates takes that promise away.                      *)
EXTENDS ProvisionerProofs

-----------------------------------------------------------------------------
(* The lock is the first volume a create makes: `var` of the first control   *)
(* plane.  A create holds it from the return of that `volume create` on.     *)

FirstNode(c) == [cluster |-> c, role |-> "controlplane", index |-> 1]
FirstVolume(c) == nodeVolumeName(FirstNode(c), "var")

Early == {"validate", "stat", "mkdir", "network", "dns"}

HoldsFirst(me) ==
  \/ me.pc \in PastVolumes
  \/ me.pc \in {"volExists", "volCreate"} /\ (me.pos # 1 \/ me.kind # "var")

HasControlPlane(me) ==
  \E i \in DOMAIN me.work : me.work[i].name.role = "controlplane"

(* A create starts with the first volume of the first control plane.         *)
StartsFirst(me) ==
  /\ me.pc \in Early => me.pos = 1 /\ me.kind = "var"
  /\ me.pc \in CreatePhases /\ (me.pc = "validate" => HasControlPlane(me)) =>
       me.work[1].name = FirstNode(me.target)

(* An invocation that runs beside another one of its cluster is in that      *)
(* one's history.                                                            *)
Witnessed(p, d) ==
  /\ p # d /\ proc[p].pc # "idle"
  /\ Running(d) /\ Meets(proc[p].target, proc[d].target)
  => proc[d].op \in proc[p].rivals
Witnesses == \A p, d \in Procs : Witnessed(p, d)

Undisturbed(p) == HoldsFirst(proc[p]) /\ "destroy" \notin proc[p].rivals

(* The inductive invariant of the volume lock: an undisturbed create past    *)
(* its first volume (create.go:181) has it on the host, no other such create *)
(* has, and every destroy that could take it is recorded as a rival.         *)
LockInv ==
  /\ \A p \in Procs : StartsFirst(proc[p])
  /\ Witnesses
  /\ \A p \in Procs : Undisturbed(p) => FirstVolume(proc[p].target) \in VolumesNamed
  /\ \A p, q \in Procs : p # q /\ proc[p].target = proc[q].target =>
       ~(Undisturbed(p) /\ Undisturbed(q))

-----------------------------------------------------------------------------
(* What an invocation's step does to itself.                                 *)

Keeps(me, new) ==
  new.op = me.op /\ new.target = me.target /\ new.rivals = me.rivals

(* The loops over nodes and volumes do not touch whose invocation it is.     *)
LEMMA LoopsKeep ==
  ASSUME NEW me \in Invocations
  PROVE  /\ \A a, b : Keeps(me, NextNode(me, a, b))
         /\ \A a, b, c : Keeps(me, NextVolume(me, a, b, c))
<1>1. \A other \in Invocations : \A a, b : Keeps(other, NextNode(other, a, b))
  BY DEF Keeps, NextNode, Invocations
<1>2. [me EXCEPT !.kind = "var"] \in Invocations
  BY DEF Invocations, Kinds
<1>3. /\ Keeps(me, [me EXCEPT !.kind = "var"])
      /\ \A a : Keeps(me, [me EXCEPT !.pc = a, !.kind = "system-state"])
  BY DEF Keeps, Invocations
<1>4. ASSUME NEW a, NEW b, NEW c
      PROVE  Keeps(me, NextVolume(me, a, b, c))
  <2> DEFINE mid == [me EXCEPT !.kind = "var"]
  <2>1. Keeps(mid, NextNode(mid, b, c)) /\ Keeps(me, mid)
    BY <1>1, <1>2, <1>3
  <2>2. Keeps(me, NextNode(mid, b, c))
    BY <2>1 DEF Keeps
  <2> QED
    BY <1>3, <2>2 DEF NextVolume
<1> QED
  BY <1>1, <1>4

(* What the record `new` keeps, the invocation that becomes it keeps.        *)
LEMMA GoesOn ==
  ASSUME IInv, NEW p \in Procs, NEW new, Become(p, new), Keeps(proc[p], new)
  PROVE  Keeps(proc[p], proc'[p])
BY DEF IInv, ProcSound, Become

(* A step of Create keeps the operation, the target and the history.         *)
LEMMA CreateKeeps ==
  ASSUME IInv, NEW p \in Procs, CreateStep(p)
  PROVE  /\ proc[p].pc \in CreatePhases
         /\ Keeps(proc[p], proc'[p])
<1> DEFINE me == proc[p]
<1>1. me \in Invocations
  BY DEF IInv, ProcSound
<1>2. me.pc \in CreatePhases
  BY DEF CreateStep, ValidateClusterRequest, NewStateStat, NewStateMkdir,
         EnsureNetwork, CheckDNSDomain, CheckVolume, CreateVolume, Launch,
         WaitForIPv4, ReconcileConfigs, SaveOpen, SaveWrite, SaveTalosconfig,
         CreatePhases
<1>3. \/ \E what : Fail(p, what)
      \/ \E phase : Goto(p, phase)
      \/ \E again, after : Become(p, NextNode(me, again, after))
      \/ Become(p, NextVolume(me, "volExists", "volExists", "launch"))
  BY DEF CreateStep, ValidateClusterRequest, NewStateStat, NewStateMkdir,
         EnsureNetwork, CheckDNSDomain, CheckVolume, CreateVolume, Launch,
         WaitForIPv4, ReconcileConfigs, SaveOpen, SaveWrite, SaveTalosconfig
<1>4. /\ \A phase : Keeps(me, [me EXCEPT !.pc = phase])
      /\ \A what : Keeps(me, [me EXCEPT !.pc = "returned", !.bad = {what}])
  BY <1>1 DEF Keeps, Invocations
<1>5. PICK new : Become(p, new) /\ Keeps(me, new)
  BY <1>1, <1>3, <1>4, LoopsKeep DEF Fail, Goto
<1> QED
  BY <1>2, <1>5, GoesOn

(* So does a step of Destroy.                                                *)
LEMMA DestroyKeeps ==
  ASSUME IInv, NEW p \in Procs, DestroyStep(p)
  PROVE  /\ proc[p].pc \in DestroyPhases
         /\ Keeps(proc[p], proc'[p])
<1> DEFINE me == proc[p]
<1>1. me \in Invocations
  BY DEF IInv, ProcSound
<1>2. me.pc \in DestroyPhases
  BY DEF DestroyStep, Reflect, StopRecorded, RemoveRecorded, DeleteRecordedVolume,
         ListContainers, SweepStop, SweepRemove, ListVolumes, SweepVolume,
         DestroyNetwork, RemoveStateFiles, RemoveStateDir, DestroyPhases
<1>3. \A pc, x, y, z, bad :
        /\ Keeps(me, [me EXCEPT !.pc = pc, !.bad = bad])
        /\ Keeps(me, [me EXCEPT !.work = x, !.net = y, !.pc = pc])
        /\ Keeps(me, [me EXCEPT !.pc = pc, !.badC = x])
        /\ Keeps(me, [me EXCEPT !.todo = x, !.pc = pc])
        /\ Keeps(me, [me EXCEPT !.pc = pc, !.cur = x, !.badC = y])
        /\ Keeps(me, [me EXCEPT !.pc = pc, !.cur = x, !.todo = y, !.badC = z])
        /\ Keeps(me, [me EXCEPT !.vols = x, !.pc = pc])
        /\ Keeps(me, [me EXCEPT !.pc = pc, !.vols = x, !.badV = y])
  BY <1>1 DEF Keeps, Invocations
<1>4. CASE DeleteRecordedVolume(p)
  <2>1. PICK err \in BOOLEAN :
          Become(p, NextVolume([me EXCEPT !.badV = Note(err, @, ThisVolume(p))],
                               "delVol", "stop", Sweep(me.target)))
    BY <1>4 DEF DeleteRecordedVolume
  <2>2. ThisVolume(p) \in VolumeNames /\ me.badV \in SUBSET VolumeNames
    <3>1. me.pc \in LoopPhases
      BY <1>4 DEF DeleteRecordedVolume, LoopPhases
    <3> QED
      BY <1>1, <1>2, <3>1, DestroyContext DEF Invocations
  <2> DEFINE badV == Note(err, me.badV, ThisVolume(p))
             mid == [me EXCEPT !.badV = badV]
  <2>3. badV \in SUBSET VolumeNames
    BY <2>2 DEF Note
  <2>4. Become(p, NextVolume(mid, "delVol", "stop", Sweep(me.target)))
    BY <2>1
  <2> HIDE DEF badV
  <2>5. mid \in Invocations /\ Keeps(me, mid)
    BY <1>1, <2>3 DEF Invocations, Keeps
  <2>6. Keeps(mid, NextVolume(mid, "delVol", "stop", Sweep(me.target)))
    BY <2>5, LoopsKeep
  <2>7. Keeps(me, NextVolume(mid, "delVol", "stop", Sweep(me.target)))
    BY <2>5, <2>6 DEF Keeps
  <2> QED
    BY <1>2, <2>4, <2>7, GoesOn
<1>5. CASE ~DeleteRecordedVolume(p)
  <2>1. PICK pc, x, y, z, bad :
          \/ Become(p, [me EXCEPT !.pc = pc, !.bad = bad])
          \/ Become(p, [me EXCEPT !.work = x, !.net = y, !.pc = pc])
          \/ Become(p, [me EXCEPT !.pc = pc, !.badC = x])
          \/ Become(p, [me EXCEPT !.todo = x, !.pc = pc])
          \/ Become(p, [me EXCEPT !.pc = pc, !.cur = x, !.badC = y])
          \/ Become(p, [me EXCEPT !.pc = pc, !.cur = x, !.todo = y, !.badC = z])
          \/ Become(p, [me EXCEPT !.vols = x, !.pc = pc])
          \/ Become(p, [me EXCEPT !.pc = pc, !.vols = x, !.badV = y])
    <3>1. CASE Reflect(p)
      BY <3>1 DEF Reflect, Fail
    <3>2. CASE StopRecorded(p) \/ RemoveRecorded(p)
      BY <3>2 DEF StopRecorded, RemoveRecorded
    <3>3. CASE ListContainers(p) \/ ListVolumes(p)
      BY <3>3 DEF ListContainers, ListVolumes
    <3>4. CASE SweepStop(p)
      BY <3>4 DEF SweepStop
    <3>5. CASE SweepRemove(p)
      BY <3>5 DEF SweepRemove
    <3>6. CASE SweepVolume(p)
      BY <3>6 DEF SweepVolume
    <3>7. CASE DestroyNetwork(p) \/ RemoveStateFiles(p) \/ RemoveStateDir(p)
      BY <3>7 DEF DestroyNetwork, RemoveStateFiles, RemoveStateDir
    <3> QED
      BY <1>5, <3>1, <3>2, <3>3, <3>4, <3>5, <3>6, <3>7 DEF DestroyStep
  <2>2. \A new : Become(p, new) /\ Keeps(me, new) => Keeps(me, proc'[p])
    BY GoesOn
  <2>3. /\ Keeps(me, [me EXCEPT !.pc = pc, !.bad = bad])
        /\ Keeps(me, [me EXCEPT !.work = x, !.net = y, !.pc = pc])
        /\ Keeps(me, [me EXCEPT !.pc = pc, !.badC = x])
        /\ Keeps(me, [me EXCEPT !.todo = x, !.pc = pc])
        /\ Keeps(me, [me EXCEPT !.pc = pc, !.cur = x, !.badC = y])
        /\ Keeps(me, [me EXCEPT !.pc = pc, !.cur = x, !.todo = y, !.badC = z])
        /\ Keeps(me, [me EXCEPT !.vols = x, !.pc = pc])
        /\ Keeps(me, [me EXCEPT !.pc = pc, !.vols = x, !.badV = y])
    BY <1>3
  <2> HIDE DEF me
  <2>4. Keeps(me, proc'[p])
    BY <2>1, <2>2, <2>3
  <2> QED
    BY <1>2, <2>4 DEF me
<1> QED
  BY <1>4, <1>5

-----------------------------------------------------------------------------
(* A create's way to the lock.                                               *)

At(me, phase, new) ==
  /\ new.pc = phase /\ new.work = me.work /\ new.pos = me.pos /\ new.kind = me.kind
  /\ new.bad = me.bad

(* Going to a phase changes the phase alone.                                 *)
LEMMA GotoEffect ==
  ASSUME IInv, NEW p \in Procs, NEW phase, Goto(p, phase)
  PROVE  At(proc[p], phase, proc'[p])
<1>1. proc[p] \in Invocations /\ proc'[p] = [proc[p] EXCEPT !.pc = phase]
  BY DEF IInv, ProcSound, Goto, Become
<1> QED
  BY <1>1 DEF At, Invocations

(* Giving up returns the error.                                              *)
LEMMA FailEffect ==
  ASSUME IInv, NEW p \in Procs, NEW what, Fail(p, what)
  PROVE  /\ proc'[p].pc = "returned" /\ proc'[p].work = proc[p].work
         /\ proc'[p].bad = {what}
<1>1. /\ proc[p] \in Invocations
      /\ proc'[p] = [proc[p] EXCEPT !.pc = "returned", !.bad = {what}]
  BY DEF IInv, ProcSound, Fail, Become
<1> QED
  BY <1>1 DEF Invocations

(* The loops over launched nodes stay past prepareNodeVolumes.               *)
LEMMA LaunchedEffect ==
  ASSUME IInv, NEW p \in Procs, NEW again \in PastVolumes, NEW after \in PastVolumes,
         Become(p, NextNode(proc[p], again, after))
  PROVE  proc'[p].pc \in PastVolumes /\ proc'[p].work = proc[p].work
<1>1. /\ proc[p] \in Invocations
      /\ proc'[p] = NextNode(proc[p], again, after)
  BY DEF IInv, ProcSound, Become
<1>2. \/ proc'[p] = [proc[p] EXCEPT !.pc = again, !.pos = proc[p].pos + 1]
      \/ proc'[p] = [proc[p] EXCEPT !.pc = after, !.pos = 1]
  BY <1>1 DEF NextNode
<1>3. CASE proc'[p] = [proc[p] EXCEPT !.pc = again, !.pos = proc[p].pos + 1]
  BY <1>1, <1>3 DEF Invocations
<1>4. CASE proc'[p] = [proc[p] EXCEPT !.pc = after, !.pos = 1]
  BY <1>1, <1>4 DEF Invocations
<1> QED
  BY <1>2, <1>3, <1>4

(* After a volume comes the check of the next one, or the first launch.      *)
LEMMA CreatedEffect ==
  ASSUME IInv, NEW p \in Procs,
         Become(p, NextVolume(proc[p], "volExists", "volExists", "launch"))
  PROVE  /\ proc'[p].work = proc[p].work
         /\ proc'[p].pc \in {"volExists", "launch"}
<1> DEFINE me == proc[p]
           mid == [me EXCEPT !.kind = "var"]
<1>1. /\ me \in Invocations
      /\ proc'[p] = NextVolume(me, "volExists", "volExists", "launch")
  BY DEF IInv, ProcSound, Become
<1>2. \/ proc'[p] = [me EXCEPT !.pc = "volExists", !.kind = "system-state"]
      \/ proc'[p] = [mid EXCEPT !.pc = "volExists", !.pos = mid.pos + 1]
      \/ proc'[p] = [mid EXCEPT !.pc = "launch", !.pos = 1]
  BY <1>1 DEF NextVolume, NextNode
<1>3. mid \in Invocations /\ mid.work = me.work
  BY <1>1 DEF Invocations, Kinds
<1>4. CASE proc'[p] = [me EXCEPT !.pc = "volExists", !.kind = "system-state"]
  BY <1>1, <1>4, ZenonT(60) DEF Invocations
<1> HIDE DEF mid
<1>5. CASE proc'[p] = [mid EXCEPT !.pc = "volExists", !.pos = mid.pos + 1]
  BY <1>3, <1>5 DEF Invocations
<1>6. CASE proc'[p] = [mid EXCEPT !.pc = "launch", !.pos = 1]
  BY <1>3, <1>6 DEF Invocations
<1> QED
  BY <1>2, <1>4, <1>5, <1>6 DEF mid

(* A step of Create keeps its work, leaves the early phases for good, passes *)
(* the request's check only with a control plane, and comes to hold the lock *)
(* only by a `volume create` of the first volume that found it absent.       *)
LEMMA WayToTheLock ==
  ASSUME IInv, NEW p \in Procs, CreateStep(p), StartsFirst(proc[p])
  PROVE  /\ proc'[p].work = proc[p].work
         /\ proc'[p].pc \in Early =>
              /\ proc[p].pc \in Early /\ proc'[p].pc # "validate"
              /\ proc'[p].pos = proc[p].pos /\ proc'[p].kind = proc[p].kind
         /\ proc[p].pc = "validate" /\ proc'[p].pc \in CreatePhases
              => HasControlPlane(proc[p]) /\ proc'[p].pc # "validate"
         /\ HoldsFirst(proc'[p]) =>
              \/ HoldsFirst(proc[p])
              \/ /\ FirstVolume(proc[p].target) \notin VolumesNamed
                 /\ FirstVolume(proc[p].target) \in VolumesNamed'
<1> DEFINE me == proc[p]
<1>1. CASE \E what : Fail(p, what)
  <2>1. proc'[p].pc = "returned" /\ proc'[p].work = me.work
    BY <1>1, FailEffect
  <2> QED
    BY <2>1 DEF Early, CreatePhases, HoldsFirst, PastVolumes
<1>2. CASE ValidateClusterRequest(p) /\ ~\E what : Fail(p, what)
  <2>1. HasControlPlane(me) /\ At(me, "stat", proc'[p]) /\ me.pc \in Early
    BY <1>2, GotoEffect DEF ValidateClusterRequest, HasControlPlane, Early
  <2> QED
    BY <2>1 DEF At, HoldsFirst, PastVolumes
<1>3. CASE /\ NewStateStat(p) \/ NewStateMkdir(p) \/ EnsureNetwork(p) \/ CheckDNSDomain(p)
           /\ ~\E what : Fail(p, what)
  <2>1. PICK phase \in {"mkdir", "network", "dns", "volExists"} : Goto(p, phase)
    BY <1>3 DEF NewStateStat, NewStateMkdir, EnsureNetwork, CheckDNSDomain
  <2>2. At(me, phase, proc'[p])
    BY <2>1, GotoEffect
  <2>3. me.pc \in Early /\ me.pc # "validate" /\ me.pos = 1 /\ me.kind = "var"
    BY <1>3 DEF NewStateStat, NewStateMkdir, EnsureNetwork, CheckDNSDomain, Early,
                StartsFirst
  <2> QED
    BY <2>2, <2>3 DEF At, HoldsFirst, PastVolumes
<1>4. CASE CheckVolume(p) /\ ~\E what : Fail(p, what)
  <2>1. Goto(p, "volCreate") /\ me.pc = "volExists"
    BY <1>4 DEF CheckVolume
  <2>2. At(me, "volCreate", proc'[p])
    BY <2>1, GotoEffect
  <2> QED
    BY <2>1, <2>2 DEF At, HoldsFirst, PastVolumes, Early
<1>5. CASE CreateVolume(p) /\ ~\E what : Fail(p, what)
  <2>1. me.pc = "volCreate" /\ me.pc \in CreatePhases
    BY <1>5 DEF CreateVolume, CreatePhases
  <2>2. PICK r \in Execs(p) :
          /\ volumeCreate(ThisVolume(p), me.target, r, FALSE)
          /\ Become(p, NextVolume(me, "volExists", "volExists", "launch"))
    BY <1>5 DEF CreateVolume
  <2>3. proc'[p].work = me.work /\ proc'[p].pc \in {"volExists", "launch"}
    BY <2>2, CreatedEffect
  <2>4. CASE me.pos # 1 \/ me.kind # "var"
    BY <2>1, <2>3, <2>4 DEF HoldsFirst, Early
  <2>5. CASE me.pos = 1 /\ me.kind = "var"
    <3>1. me.work[1].name = FirstNode(me.target)
      BY <2>1 DEF StartsFirst
    <3>2. ThisVolume(p) = FirstVolume(me.target)
      BY <2>5, <3>1 DEF ThisVolume, ThisNode, FirstVolume
    <3>3. /\ ThisVolume(p) \notin VolumesNamed
          /\ volumes' = volumes \cup
               {[name |-> ThisVolume(p), label |-> me.target, booted |-> FALSE]}
      BY <2>2 DEF volumeCreate, Reply, Performed
    <3>4. ThisVolume(p) \in VolumesNamed'
      <4>1. [name |-> ThisVolume(p), label |-> me.target, booted |-> FALSE] \in volumes'
        BY <3>3
      <4> QED
        BY <4>1 DEF VolumesNamed
    <3> QED
      BY <2>1, <2>3, <3>2, <3>3, <3>4 DEF Early
  <2> QED
    BY <2>4, <2>5
<1>6. CASE /\ \/ Launch(p) \/ WaitForIPv4(p) \/ ReconcileConfigs(p)
              \/ SaveOpen(p) \/ SaveWrite(p) \/ SaveTalosconfig(p)
           /\ ~\E what : Fail(p, what)
  <2>1. me.pc \in PastVolumes
    BY <1>6 DEF Launch, WaitForIPv4, ReconcileConfigs, SaveOpen, SaveWrite,
                SaveTalosconfig, PastVolumes
  <2>2. \/ \E phase \in PastVolumes \cup {"returned"} : Goto(p, phase)
        \/ Become(p, NextNode(me, "launch", "reconcile"))
        \/ Become(p, NextNode(me, "reconcile", "saveOpen"))
    BY <1>6 DEF Launch, WaitForIPv4, ReconcileConfigs, SaveOpen, SaveWrite,
                SaveTalosconfig, PastVolumes
  <2>3. proc'[p].work = me.work /\ proc'[p].pc \in PastVolumes \cup {"returned"}
    <3>1. {"launch", "reconcile", "saveOpen"} \subseteq PastVolumes
      BY DEF PastVolumes
    <3> QED
      BY <2>2, <3>1, GotoEffect, LaunchedEffect DEF At
  <2> QED
    BY <2>1, <2>3 DEF HoldsFirst, Early, PastVolumes
<1> QED
  BY <1>1, <1>2, <1>3, <1>4, <1>5, <1>6 DEF CreateStep

-----------------------------------------------------------------------------
(* Every step, seen from every invocation.                                   *)

Acts(q) ==
  \/ StartCreate(q) \/ StartDestroy(q) \/ CreateStep(q) \/ DestroyStep(q)
  \/ Exit(q) \/ Crash(q)

Starts(q) == StartCreate(q) \/ StartDestroy(q)

Same(old, new) ==
  /\ new.op = old.op /\ new.target = old.target /\ new.pc = old.pc
  /\ new.pos = old.pos /\ new.kind = old.kind /\ new.work = old.work
  /\ new.bad = old.bad /\ old.rivals \subseteq new.rivals

(* A step of one invocation leaves the others where they are; at most it     *)
(* enters their history.                                                     *)
LEMMA OthersSame ==
  ASSUME IInv, NEW q \in Procs, NEW p \in Procs \ {q}, Acts(q)
  PROVE  Same(proc[p], proc'[p])
<1>1. proc[p] \in Invocations
  BY DEF IInv, ProcSound
<1>2. \/ proc'[p] = proc[p]
      \/ \E set : proc'[p] = [proc[p] EXCEPT !.rivals = proc[p].rivals \cup set]
  BY NextIsOnes, OthersKeep DEF Acts
<1>3. CASE proc'[p] = proc[p]
  BY <1>3 DEF Same
<1>4. ASSUME NEW set, proc'[p] = [proc[p] EXCEPT !.rivals = proc[p].rivals \cup set]
      PROVE  Same(proc[p], proc'[p])
  <2>1. /\ proc'[p].op = proc[p].op /\ proc'[p].target = proc[p].target
        /\ proc'[p].pc = proc[p].pc /\ proc'[p].pos = proc[p].pos
        /\ proc'[p].kind = proc[p].kind /\ proc'[p].work = proc[p].work
        /\ proc'[p].bad = proc[p].bad
        /\ proc'[p].rivals = proc[p].rivals \cup set
    BY <1>1, <1>4 DEF Invocations
  <2> QED
    BY <2>1 DEF Same
<1> QED
  BY <1>2, <1>3, <1>4

(* Whoever is at work after a step, and did not start in it, was at work.    *)
LEMMA Continues ==
  ASSUME IInv, NEW q \in Procs, Acts(q), NEW p \in Procs,
         p # q \/ ~Starts(q), proc'[p].pc # "idle"
  PROVE  /\ proc[p].pc # "idle"
         /\ proc'[p].op = proc[p].op /\ proc'[p].target = proc[p].target
         /\ proc[p].rivals \subseteq proc'[p].rivals
         /\ proc'[p].pc # "returned" => proc[p].pc # "returned"
<1>1. CASE p # q
  BY <1>1, OthersSame DEF Same
<1>2. CASE p = q /\ (Exit(q) \/ Crash(q))
  <2>1. proc'[p] = Idle
    BY <1>2 DEF Exit, Crash, Become, IInv, ProcSound
  <2> QED
    BY <2>1 DEF Idle
<1>3. CASE p = q /\ (CreateStep(q) \/ DestroyStep(q))
  <2>1. proc[p].pc \in CreatePhases \cup DestroyPhases /\ Keeps(proc[p], proc'[p])
    BY <1>3, CreateKeeps, DestroyKeeps
  <2> QED
    BY <2>1 DEF Keeps, CreatePhases, DestroyPhases
<1> QED
  BY <1>1, <1>2, <1>3 DEF Acts, Starts

(* Who starts sees the running ones of its cluster in its history, and       *)
(* they see it.                                                              *)
Met(q, me) ==
  {proc[o].op : o \in {s \in Procs \ {q} :
     Running(s) /\ Meets(proc[s].target, me.target)}}

LEMMA BeginEffect ==
  ASSUME IInv, NEW q \in Procs, NEW me \in Invocations, Begin(q, me)
  PROVE  /\ proc'[q].op = me.op /\ proc'[q].target = me.target
         /\ proc'[q].pc = me.pc /\ proc'[q].work = me.work
         /\ proc'[q].pos = me.pos /\ proc'[q].kind = me.kind
         /\ proc'[q].net = me.net /\ proc'[q].rivals = Met(q, me)
         /\ \A p \in Procs \ {q} :
              proc'[p].rivals =
                IF proc[p].pc # "idle" /\ Meets(proc[p].target, me.target)
                  THEN proc[p].rivals \cup {me.op} ELSE proc[p].rivals
<1>1. proc'[q] = [me EXCEPT !.rivals = Met(q, me)]
  BY DEF Begin, Met
<1>2. /\ proc'[q].op = me.op /\ proc'[q].target = me.target
      /\ proc'[q].pc = me.pc /\ proc'[q].work = me.work
      /\ proc'[q].pos = me.pos /\ proc'[q].kind = me.kind
      /\ proc'[q].net = me.net /\ proc'[q].rivals = Met(q, me)
  BY <1>1 DEF Invocations
<1>3. ASSUME NEW p \in Procs \ {q}
      PROVE  proc'[p].rivals =
               IF proc[p].pc # "idle" /\ Meets(proc[p].target, me.target)
                 THEN proc[p].rivals \cup {me.op} ELSE proc[p].rivals
  <2>1. proc'[p] = IF proc[p].pc # "idle" /\ Meets(proc[p].target, me.target)
                     THEN [proc[p] EXCEPT !.rivals = proc[p].rivals \cup {me.op}]
                     ELSE proc[p]
    BY <1>3 DEF Begin
  <2>2. proc[p] \in Invocations
    BY DEF IInv, ProcSound
  <2>3. [proc[p] EXCEPT !.rivals = proc[p].rivals \cup {me.op}].rivals
          = proc[p].rivals \cup {me.op}
    BY <2>2 DEF Invocations
  <2> QED
    BY <2>1, <2>3
<1> QED
  BY <1>2, <1>3

(* What an invocation starts with.                                           *)
BeginsCreate(me) ==
  /\ me.op = "create" /\ me.pc = "validate" /\ me.target \in Clusters
  /\ me.net = NetworkOf[me.target]
  /\ HasControlPlane(me) => me.work[1].name = FirstNode(me.target)
BeginsDestroy(me) ==
  /\ me.op = "destroy" /\ me.pc = "reflect"
  /\ me.target \in Clusters \cup {EmptyName} /\ me.work = <<>>

LEMMA Beginning ==
  ASSUME IInv, NEW q \in Procs, Starts(q)
  PROVE  \E me \in Invocations :
           /\ Begin(q, me) /\ me.pos = 1 /\ me.kind = "var"
           /\ StartCreate(q) => BeginsCreate(me)
           /\ ~StartCreate(q) => BeginsDestroy(me)
<1>1. Idle \in Invocations
  BY IdleSound DEF Sound
<1>2. CASE StartCreate(q)
  <2>1. PICK c \in Clusters, shape \in Shapes, domain \in Domains, cli \in CliPresent :
          Begin(q, [Idle EXCEPT
            !.op = "create", !.target = c, !.domain = domain, !.cli = cli,
            !.pc = "validate", !.net = NetworkOf[c],
            !.work = [i \in 1 .. shape.controlplanes + shape.workers |->
                        nodeFQDN(orderedReqs(c, shape)[i], domain)]])
    BY <1>2 DEF StartCreate
  <2> DEFINE n == shape.controlplanes + shape.workers
             work == [i \in 1 .. n |-> nodeFQDN(orderedReqs(c, shape)[i], domain)]
             me == [Idle EXCEPT
               !.op = "create", !.target = c, !.domain = domain, !.cli = cli,
               !.pc = "validate", !.net = NetworkOf[c], !.work = work]
  <2>2. work \in Seq(NodeInfos)
    BY RequestWork
  <2>3. (\E i \in DOMAIN work : work[i].name.role = "controlplane")
          => work[1].name = FirstNode(c)
    <3> SUFFICES ASSUME NEW i \in 1 .. n, work[i].name.role = "controlplane"
                 PROVE  work[1].name = FirstNode(c)
      OBVIOUS
    <3>1. shape.controlplanes \in Nat /\ shape.workers \in Nat
      BY ProvisionerAssumption DEF Shape
    <3>2. orderedReqs(c, shape)[i].role = "controlplane"
      BY DEF nodeFQDN
    <3>3. i <= shape.controlplanes
      BY <3>1, <3>2 DEF orderedReqs
    <3>4. 1 <= shape.controlplanes /\ 1 \in 1 .. n
      BY <3>1, <3>3
    <3>5. orderedReqs(c, shape)[1] = FirstNode(c)
      BY <3>1, <3>4 DEF orderedReqs, FirstNode
    <3> QED
      BY <3>4, <3>5 DEF nodeFQDN
  <2> HIDE DEF work
  <2>4. me \in Invocations
    <3>1. cli \in BOOLEAN
      BY ProvisionerAssumption
    <3>2. /\ "validate" \in {"idle", "returned"} \cup CreatePhases \cup DestroyPhases
          /\ NetworkOf[c] \in {NetworkOf[d] : d \in Clusters} \cup {NoNetwork}
          /\ c \in Clusters \cup {EmptyName} /\ domain \in Domains \cup {NoDomain}
      BY DEF CreatePhases
    <3> QED
      BY <1>1, <2>2, <3>1, <3>2, ZenonT(60) DEF Invocations
  <2>5. /\ me.op = "create" /\ me.target = c /\ me.pc = "validate"
        /\ me.work = work /\ me.pos = 1 /\ me.kind = "var" /\ me.net = NetworkOf[c]
    BY DEF Idle
  <2>6. Begin(q, me)
    BY <2>1 DEF work
  <2> HIDE DEF me
  <2> QED
    BY <1>2, <2>3, <2>4, <2>5, <2>6 DEF BeginsCreate, HasControlPlane
<1>3. CASE StartDestroy(q) /\ ~StartCreate(q)
  <2>1. PICK c \in DestroyTargets, cli \in CliPresent :
          Begin(q, [Idle EXCEPT !.op = "destroy", !.target = c, !.cli = cli,
                                !.pc = "reflect"])
    BY <1>3 DEF StartDestroy
  <2> DEFINE me == [Idle EXCEPT !.op = "destroy", !.target = c, !.cli = cli,
                                !.pc = "reflect"]
  <2>2. c \in Clusters \cup {EmptyName} /\ cli \in BOOLEAN
    BY ProvisionerAssumption
  <2>3. me \in Invocations
    BY <1>1, <2>2, ZenonT(60) DEF Invocations, DestroyPhases
  <2>4. /\ me.op = "destroy" /\ me.target = c /\ me.pc = "reflect"
        /\ me.work = <<>> /\ me.pos = 1 /\ me.kind = "var"
    BY DEF Idle
  <2>5. Begin(q, me)
    BY <2>1
  <2> HIDE DEF me
  <2> QED
    BY <1>3, <2>2, <2>3, <2>4, <2>5 DEF BeginsDestroy
<1> QED
  BY <1>2, <1>3 DEF Starts

(* An invocation starts before its lock, and in front of its first volume.   *)
LEMMA StartsEffect ==
  ASSUME IInv, NEW q \in Procs, Starts(q)
  PROVE  /\ \E me \in Invocations : Begin(q, me)
         /\ StartsFirst(proc'[q])
         /\ ~HoldsFirst(proc'[q])
<1>1. PICK me \in Invocations :
        /\ Begin(q, me) /\ me.pos = 1 /\ me.kind = "var"
        /\ StartCreate(q) => BeginsCreate(me)
        /\ ~StartCreate(q) => BeginsDestroy(me)
  BY Beginning
<1>2. /\ proc'[q].op = me.op /\ proc'[q].target = me.target
      /\ proc'[q].pc = me.pc /\ proc'[q].work = me.work
      /\ proc'[q].pos = me.pos /\ proc'[q].kind = me.kind
  BY <1>1, BeginEffect
<1>3. ~HoldsFirst(proc'[q])
  BY <1>1, <1>2 DEF BeginsCreate, BeginsDestroy, HoldsFirst, PastVolumes
<1>4. StartsFirst(proc'[q])
  BY <1>1, <1>2 DEF BeginsCreate, BeginsDestroy, StartsFirst, HasControlPlane, Early,
                    CreatePhases
<1> QED
  BY <1>1, <1>3, <1>4

-----------------------------------------------------------------------------
(* The lock invariant, part by part.                                         *)

(* Only a create that runs holds the lock.                                   *)
LEMMA HoldersCreate ==
  ASSUME NEW me, Sound(me), HoldsFirst(me)
  PROVE  me.pc \in CreatePhases /\ me.pc # "validate"
         /\ me.op = "create" /\ me.target \in Clusters
BY DEF Sound, HoldsFirst, PastVolumes, CreatePhases

(* Every create stays in front of its cluster's first volume until it has    *)
(* it.                                                                       *)
LEMMA StartsFirstKept ==
  ASSUME IInv, IInv', LockInv, NEW q \in Procs, Acts(q), NEW p \in Procs
  PROVE  StartsFirst(proc'[p])
<1>1. StartsFirst(proc[p]) /\ Sound(proc'[p])
  BY DEF LockInv, IInv, ProcSound
<1>2. CASE p # q
  <2>1. Same(proc[p], proc'[p])
    BY <1>2, OthersSame
  <2> QED
    BY <1>1, <2>1 DEF Same, StartsFirst, HasControlPlane
<1>3. CASE p = q /\ Starts(q)
  BY <1>3, StartsEffect
<1>4. CASE p = q /\ (Exit(q) \/ Crash(q))
  <2>1. proc'[p] = Idle
    BY <1>4 DEF Exit, Crash, Become, IInv, ProcSound
  <2> QED
    BY <2>1 DEF Idle, StartsFirst, Early, CreatePhases
<1>5. CASE p = q /\ CreateStep(q)
  <2>1. proc[p].pc \in CreatePhases /\ proc'[p].target = proc[p].target
    BY <1>5, CreateKeeps DEF Keeps
  <2> QED
    BY <1>1, <1>5, <2>1, WayToTheLock DEF StartsFirst
<1>6. CASE p = q /\ DestroyStep(q)
  <2>1. proc[p].op = "destroy" /\ proc'[p].op = "destroy"
    BY <1>6, DestroyKeeps DEF Keeps, IInv, ProcSound, Sound
  <2>2. proc'[p].pc \notin CreatePhases
    BY <1>1, <2>1 DEF Sound
  <2> QED
    BY <2>2 DEF StartsFirst, Early, CreatePhases
<1> QED
  BY <1>2, <1>3, <1>4, <1>5, <1>6 DEF Acts, Starts

(* Whoever overlaps an invocation stays in its history.                      *)
LEMMA WitnessedKept ==
  ASSUME IInv, Witnesses, NEW q \in Procs, Acts(q), NEW p \in Procs, NEW d \in Procs
  PROVE  Witnessed(p, d)'
<1> SUFFICES ASSUME p # d, proc'[p].pc # "idle",
                    proc'[d].pc \notin {"idle", "returned"},
                    Meets(proc'[p].target, proc'[d].target)
             PROVE  proc'[d].op \in proc'[p].rivals
  BY DEF Witnessed, Running, Meets
<1>1. CASE /\ p # q \/ ~Starts(q)
           /\ d # q \/ ~Starts(q)
  <2>1. /\ proc[p].pc # "idle" /\ proc'[p].target = proc[p].target
        /\ proc[p].rivals \subseteq proc'[p].rivals
    BY <1>1, Continues
  <2>2. /\ Running(d) /\ proc'[d].op = proc[d].op
        /\ proc'[d].target = proc[d].target
    BY <1>1, Continues DEF Running
  <2>3. Witnessed(p, d)
    BY DEF Witnesses
  <2> QED
    BY <2>1, <2>2, <2>3 DEF Witnessed
<1>2. CASE p = q /\ Starts(q)
  <2>1. PICK me \in Invocations : Begin(q, me)
    BY <1>2, StartsEffect
  <2>2. proc'[p].target = me.target
    BY <1>2, <2>1, BeginEffect
  <2>3. Same(proc[d], proc'[d])
    BY <1>2, OthersSame
  <2>4. /\ Running(d) /\ proc'[d].op = proc[d].op
        /\ Meets(proc[d].target, me.target)
    BY <2>2, <2>3 DEF Same, Running, Meets
  <2> QED
    BY <1>2, <2>1, <2>4, BeginEffect DEF Met
<1>3. CASE d = q /\ Starts(q)
  <2>1. PICK me \in Invocations : Begin(q, me)
    BY <1>3, StartsEffect
  <2>2. proc'[d].target = me.target /\ me.op = proc'[d].op
    BY <1>3, <2>1, BeginEffect
  <2>3. Same(proc[p], proc'[p])
    BY <1>3, OthersSame
  <2>4. proc[p].pc # "idle" /\ Meets(proc[p].target, me.target)
    BY <2>2, <2>3 DEF Same
  <2> QED
    BY <1>3, <2>1, <2>2, <2>4, BeginEffect, ZenonT(60)
<1> QED
  BY <1>1, <1>2, <1>3

(* Who is undisturbed after a step was so before it, or has just made the    *)
(* first volume.                                                             *)
LEMMA UndisturbedBefore ==
  ASSUME IInv, IInv', LockInv, NEW q \in Procs, Acts(q), NEW p \in Procs,
         Undisturbed(p)'
  PROVE  /\ proc'[p].target = proc[p].target /\ "destroy" \notin proc[p].rivals
         /\ \/ Undisturbed(p)
            \/ /\ p = q
               /\ FirstVolume(proc[p].target) \notin VolumesNamed
               /\ FirstVolume(proc[p].target) \in VolumesNamed'
<1>1. HoldsFirst(proc'[p]) /\ "destroy" \notin proc'[p].rivals
  BY DEF Undisturbed
<1>2. /\ proc'[p].pc \in CreatePhases /\ proc'[p].op = "create"
  BY <1>1, HoldersCreate DEF IInv, ProcSound
<1>3. p # q \/ ~Starts(q)
  BY <1>1, StartsEffect
<1>4. /\ proc'[p].op = proc[p].op /\ proc'[p].target = proc[p].target
      /\ "destroy" \notin proc[p].rivals
  BY <1>1, <1>2, <1>3, Continues DEF CreatePhases
<1>5. CASE p # q
  <2>1. Same(proc[p], proc'[p])
    BY <1>5, OthersSame
  <2>2. HoldsFirst(proc[p])
    BY <1>1, <2>1 DEF Same, HoldsFirst
  <2> QED
    BY <1>4, <2>2 DEF Undisturbed
<1>6. CASE p = q
  <2>1. CreateStep(q)
    <3>1. ~(Exit(q) \/ Crash(q))
      <4>1. Exit(q) \/ Crash(q) => proc'[q] = Idle
        BY DEF Exit, Crash, Become, IInv, ProcSound
      <4> QED
        BY <1>2, <1>6, <4>1 DEF Idle
    <3>2. ~DestroyStep(q)
      BY <1>2, <1>4, <1>6, DestroyKeeps DEF IInv, ProcSound, Sound
    <3> QED
      BY <1>3, <1>6, <3>1, <3>2 DEF Acts, Starts
  <2>2. StartsFirst(proc[p])
    BY DEF LockInv
  <2> QED
    BY <1>1, <1>4, <1>6, <2>1, <2>2, WayToTheLock DEF Undisturbed
<1> QED
  BY <1>5, <1>6

(* The first volume of an undisturbed create goes away only by a destroy of  *)
(* its cluster, which would have disturbed it.                               *)
LEMMA FirstVolumeStays ==
  ASSUME SanitizedInjective, IInv, LockInv, NEW q \in Procs, Acts(q),
         NEW p \in Procs, Undisturbed(p)
  PROVE  FirstVolume(proc[p].target) \in VolumesNamed'
<1> DEFINE c == proc[p].target
<1>1. FirstVolume(c) \in VolumesNamed
  BY DEF LockInv
<1>2. PICK v \in volumes : v.name = FirstVolume(c)
  BY <1>1 DEF VolumesNamed
<1>3. c \in Clusters /\ proc[p].op = "create" /\ proc[p].pc # "idle"
  BY HoldersCreate DEF Undisturbed, IInv, ProcSound, CreatePhases
<1>4. v.label = c
  <2>1. v.label \in Clusters /\ v.name.owner = Sanitized[v.label]
    BY DEF IInv, RuntimeSound, RuntimeTypeOK, VolumesOwned, Volumes
  <2>2. FirstVolume(c).owner = Sanitized[c]
    BY DEF FirstVolume, FirstNode, nodeVolumeName
  <2> QED
    BY <1>2, <1>3, <2>1, <2>2 DEF SanitizedInjective
<1>5. SUFFICES ASSUME FirstVolume(c) \notin VolumesNamed'
               PROVE  FALSE
  OBVIOUS
<1>6. v.name \notin {w.name : w \in volumes'}
  BY <1>2, <1>5 DEF VolumesNamed
<1>7. proc[q].op = "destroy" /\ proc[q].target = c
  BY <1>4, <1>6, StepRemovesOwn DEF RemovesOwn, Acts
<1>8. Running(q)
  <2>1. ~(Starts(q) \/ Exit(q) \/ Crash(q))
    BY <1>6 DEF Starts, StartCreate, StartDestroy, Exit, Crash, runtimeVars
  <2>2. proc[q].pc \in CreatePhases \cup DestroyPhases
    BY <2>1, CreateKeeps, DestroyKeeps DEF Acts, Starts
  <2> QED
    BY <2>2 DEF Running, CreatePhases, DestroyPhases
<1>9. Witnessed(p, q) /\ p # q
  BY <1>3, <1>7 DEF LockInv, Witnesses
<1> QED
  BY <1>3, <1>7, <1>8, <1>9 DEF Witnessed, Meets, Undisturbed

(* Every step keeps the lock invariant: of two creates that would both       *)
(* hold the lock, the later one made the first volume while it existed.      *)
LEMMA StepKeepsLock ==
  ASSUME SanitizedInjective, IInv, IInv', LockInv, NEW q \in Procs, Acts(q)
  PROVE  LockInv'
<1>1. \A p \in Procs : StartsFirst(proc'[p])
  BY StartsFirstKept
<1>2. Witnesses'
  BY WitnessedKept DEF LockInv, Witnesses
<1>3. ASSUME NEW p \in Procs, Undisturbed(p)'
      PROVE  FirstVolume(proc'[p].target) \in VolumesNamed'
  <2>1. proc'[p].target = proc[p].target
    BY <1>3, UndisturbedBefore
  <2>2. FirstVolume(proc[p].target) \in VolumesNamed'
    BY <1>3, UndisturbedBefore, FirstVolumeStays
  <2> QED
    BY <2>1, <2>2
<1>4. ASSUME NEW p \in Procs, NEW o \in Procs, p # o,
             proc'[p].target = proc'[o].target, Undisturbed(p)', Undisturbed(o)'
      PROVE  FALSE
  <2>1. proc[p].target = proc[o].target
    BY <1>4, UndisturbedBefore
  <2>2. CASE Undisturbed(p) /\ Undisturbed(o)
    BY <1>4, <2>1, <2>2 DEF LockInv
  <2>3. CASE ~Undisturbed(p)
    <3>1. p = q /\ FirstVolume(proc[p].target) \notin VolumesNamed
      BY <1>4, <2>3, UndisturbedBefore
    <3>2. Undisturbed(o)
      BY <1>4, <3>1, UndisturbedBefore
    <3> QED
      BY <2>1, <3>1, <3>2 DEF LockInv
  <2>4. CASE ~Undisturbed(o)
    <3>1. o = q /\ FirstVolume(proc[o].target) \notin VolumesNamed
      BY <1>4, <2>4, UndisturbedBefore
    <3>2. Undisturbed(p)
      BY <1>4, <3>1, UndisturbedBefore
    <3> QED
      BY <2>1, <3>1, <3>2 DEF LockInv
  <2> QED
    BY <2>2, <2>3, <2>4
<1> QED
  BY <1>1, <1>2, <1>3, <1>4 DEF LockInv

(* Nobody runs, nobody holds.                                                *)
LEMMA LockInitially == Init => LockInv
<1> SUFFICES ASSUME Init
             PROVE  LockInv
  OBVIOUS
<1>1. \A p \in Procs : proc[p] = Idle
  BY DEF Init
<1>2. Idle.pc = "idle"
  BY DEF Idle
<1> QED
  BY <1>1, <1>2 DEF LockInv, StartsFirst, Witnesses, Witnessed, Undisturbed, HoldsFirst,
                    Early, CreatePhases, PastVolumes

(* The lock invariant is inductive, relative to ownership.                   *)
LEMMA LockInductive ==
  ASSUME SanitizedInjective
  PROVE  IInv /\ IInv' /\ LockInv /\ [Next]_vars => LockInv'
<1> SUFFICES ASSUME IInv, IInv', LockInv, [Next]_vars
             PROVE  LockInv'
  OBVIOUS
<1>1. CASE Next
  <2>1. PICK q \in Procs : Acts(q)
    BY <1>1 DEF Next, Acts
  <2> QED
    BY <2>1, StepKeepsLock
<1>2. CASE UNCHANGED vars
  BY <1>2 DEF vars, LockInv, Witnesses, Witnessed, Undisturbed, Running, VolumesNamed
<1> QED
  BY <1>1, <1>2

(* The volume lock holds at all times, whatever overlaps, fails or is        *)
(* killed: an undisturbed create past its first volume has that volume on    *)
(* the host and shares it with no other (create.go:145-188).                 *)
THEOREM LockHeld ==
  ASSUME SanitizedInjective
  PROVE  Spec => []LockInv
BY LockInitially, LockInductive, Ownership, PTL DEF Spec

(* Two creates of one cluster never both get past prepareNodeVolumes, unless *)
(* a destroy of the cluster ran beside one of them: however many invocations *)
(* overlap, fail or are killed.  `volume create`, which fails on a name that *)
(* exists, is what keeps them apart (create.go:153-188).                     *)
THEOREM VolumeLock ==
  ASSUME SanitizedInjective
  PROVE  Spec => []VolumesAreTheLock
<1>1. IInv /\ LockInv => VolumesAreTheLock
  BY DEF LockInv, Undisturbed, HoldsFirst, VolumesAreTheLock
<1> QED
  BY <1>1, LockHeld, Ownership, PTL

-----------------------------------------------------------------------------
CreatesOnly == Destroyers = {}

-----------------------------------------------------------------------------
(* The inductive invariant: what a create has made, launched and recorded.   *)

Undestroyed ==
  \A p \in Procs : proc[p].op # "destroy" /\ "destroy" \notin proc[p].rivals

(* No two nodes of a request share a name.                                   *)
Distinct(me) ==
  me.pc \in CreatePhases =>
    \A i, j \in DOMAIN me.work : me.work[i].name = me.work[j].name => i = j

VolumeOf(me, i, kind) == nodeVolumeName(me.work[i].name, kind)

(* The volumes a create has made and not yet launched a node on.             *)
Unlaunched(me, i, kind) ==
  \/ /\ me.pc \in {"volExists", "volCreate"}
     /\ i < me.pos \/ (i = me.pos /\ kind = "var" /\ me.kind = "system-state")
  \/ me.pc = "launch" /\ i >= me.pos
  \/ me.pc = "address" /\ i > me.pos

Fresh(me) ==
  \A i \in DOMAIN me.work, kind \in Kinds :
    Unlaunched(me, i, kind) =>
      \A v \in volumes : v.name = VolumeOf(me, i, kind) => ~v.booted

(* A saved record means that the volumes are there and that whoever holds    *)
(* the lock is the one that saved it.                                        *)
Saved(c) ==
  yaml[c].status = "saved" =>
    /\ FirstVolume(c) \in VolumesNamed
    /\ \A p \in Procs : proc[p].target = c /\ HoldsFirst(proc[p]) =>
         proc[p].pc = "talosconfig"

(* The nodes a create has launched, up and on their own volumes.             *)
Launched(me, i) ==
  \/ me.pc = "launch" /\ i < me.pos
  \/ me.pc = "address" /\ i <= me.pos
  \/ me.pc \in {"reconcile", "saveOpen", "saveWrite", "talosconfig"}
  \/ me.pc = "returned" /\ me.op = "create" /\ me.bad = {}

UpOn(node, c) ==
  /\ [id |-> node, label |-> c, running |-> TRUE] \in containers
  /\ \A name \in nodeVolumeNames(node.name) :
       [name |-> name, label |-> c, booted |-> TRUE] \in volumes

AllUp(me) == \A i \in DOMAIN me.work : Launched(me, i) => UpOn(me.work[i], me.target)

Recorded(me) ==
  /\ me.pc = "saveWrite" => yaml[me.target].status # "absent"
  /\ \/ me.pc = "talosconfig"
     \/ me.pc = "returned" /\ me.op = "create" /\ me.bad = {}
     => /\ me.target \in Clusters
        /\ yaml[me.target] = [status |-> "saved", nodes |-> me.work,
                              network |-> NetworkOf[me.target]]
        /\ me.work[1].name = FirstNode(me.target)

(* Creates alone keep what they have: fresh volumes until the launch,        *)
(* running nodes after it, and the first record saved (create.go:41-122).    *)
CreatesInv ==
  /\ Undestroyed
  /\ \A p \in Procs : Distinct(proc[p]) /\ Fresh(proc[p])
  /\ \A c \in Clusters : Saved(c)
  /\ \A p \in Procs : AllUp(proc[p]) /\ Recorded(proc[p])

-----------------------------------------------------------------------------
(* Steps of creates.                                                         *)

(* Without destroyers nobody ever destroys, nor has.                         *)
LEMMA NobodyDestroys ==
  ASSUME CreatesOnly, IInv, Undestroyed, NEW q \in Procs, Acts(q)
  PROVE  /\ ~StartDestroy(q) /\ ~DestroyStep(q)
         /\ Undestroyed'
<1>1. ~StartDestroy(q)
  BY DEF CreatesOnly, StartDestroy
<1>2. ~DestroyStep(q)
  BY DestroyKeeps DEF Undestroyed, IInv, ProcSound, Sound
<1>3. ASSUME NEW p \in Procs
      PROVE  proc'[p].op # "destroy" /\ "destroy" \notin proc'[p].rivals
  <2>1. CASE StartCreate(q)
    <3>1. PICK me : Begin(q, me) /\ \A set : /\ [me EXCEPT !.rivals = set].op = "create"
                                             /\ [me EXCEPT !.rivals = set].rivals = set
                                             /\ me.op = "create"
      <4>1. PICK c, domain, cli, net, work :
              Begin(q, [Idle EXCEPT
                !.op = "create", !.target = c, !.domain = domain, !.cli = cli,
                !.pc = "validate", !.net = net, !.work = work])
        BY <2>1 DEF StartCreate
      <4> DEFINE me == [Idle EXCEPT
                   !.op = "create", !.target = c, !.domain = domain, !.cli = cli,
                   !.pc = "validate", !.net = net, !.work = work]
      <4>2. \A set : /\ [me EXCEPT !.rivals = set].op = "create"
                     /\ [me EXCEPT !.rivals = set].rivals = set
                     /\ me.op = "create"
        BY DEF Idle
      <4>3. Begin(q, me)
        BY <4>1
      <4> HIDE DEF me
      <4> QED
        BY <4>2, <4>3
    <3>2. CASE p = q
      <4>1. PICK running \in SUBSET Procs :
              proc'[p] = [me EXCEPT !.rivals = {proc[o].op : o \in running}]
        BY <3>1, <3>2 DEF Begin
      <4> DEFINE others == {proc[o].op : o \in running}
      <4>2. "destroy" \notin others
        BY DEF Undestroyed
      <4> HIDE DEF others
      <4>3. proc'[p].op = "create" /\ proc'[p].rivals = others
        BY <3>1, <4>1 DEF others
      <4> QED
        BY <4>2, <4>3
    <3>3. CASE p # q
      <4>1. \/ proc'[p] = proc[p]
            \/ proc'[p] = [proc[p] EXCEPT !.rivals = proc[p].rivals \cup {"create"}]
        BY <3>1, <3>3 DEF Begin
      <4>2. proc[p] \in Invocations
        BY DEF IInv, ProcSound
      <4>3. proc[p].op # "destroy" /\ "destroy" \notin proc[p].rivals
        BY DEF Undestroyed
      <4>4. CASE proc'[p] = [proc[p] EXCEPT !.rivals = proc[p].rivals \cup {"create"}]
        <5>1. /\ proc'[p].op = proc[p].op
              /\ proc'[p].rivals = proc[p].rivals \cup {"create"}
          BY <4>2, <4>4 DEF Invocations
        <5> QED
          BY <4>3, <5>1
      <4> QED
        BY <4>1, <4>3, <4>4
    <3> QED
      BY <3>2, <3>3
  <2>2. CASE CreateStep(q) \/ Exit(q) \/ Crash(q)
    <3>1. p # q => proc'[p] = proc[p]
      <4>1. PICK me : Become(q, me)
        BY <2>2 DEF Exit, Crash, CreateStep, ValidateClusterRequest, NewStateStat,
                    NewStateMkdir, EnsureNetwork, CheckDNSDomain, CheckVolume,
                    CreateVolume, Launch, WaitForIPv4, ReconcileConfigs, SaveOpen,
                    SaveWrite, SaveTalosconfig, Fail, Goto
      <4> QED
        BY <4>1 DEF Become, IInv, ProcSound
    <3>2. Exit(q) \/ Crash(q) => proc'[q] = Idle
      BY DEF Exit, Crash, Become, IInv, ProcSound
    <3>3. CreateStep(q) => Keeps(proc[q], proc'[q])
      BY CreateKeeps
    <3> QED
      BY <2>2, <3>1, <3>2, <3>3 DEF Undestroyed, Keeps, Idle
  <2> QED
    BY <1>1, <1>2, <2>1, <2>2 DEF Acts
<1> QED
  BY <1>1, <1>2, <1>3 DEF Undestroyed

(* What runs on its volumes keeps doing so while nobody destroys.            *)
LEMMA UpStays ==
  ASSUME IInv, NEW q \in Procs, Acts(q), ~DestroyStep(q),
         NEW node, NEW c, UpOn(node, c)
  PROVE  UpOn(node, c)'
<1>1. CASE UNCHANGED <<containers, volumes>>
  BY <1>1 DEF UpOn
<1>2. CASE CreateVolume(q)
  <2>1. containers' = containers /\ volumes \subseteq volumes'
    BY <1>2 DEF CreateVolume, volumeCreate
  <2> QED
    BY <2>1 DEF UpOn
<1>3. CASE Launch(q)
  <2>1. PICK r \in Execs(q), err \in BOOLEAN : runNode(ThisNode(q), r, err)
    BY <1>3 DEF Launch
  <2>2. containers \subseteq containers'
    BY <2>1 DEF runNode
  <2>3. ASSUME NEW v \in volumes, v.booted, v \in Volumes
        PROVE  v \in volumes'
    <3>1. [v EXCEPT !.booted = TRUE] = v
      BY <2>3 DEF Volumes
    <3> QED
      BY <2>1, <3>1 DEF runNode
  <2>4. volumes \subseteq Volumes
    BY DEF IInv, RuntimeSound, RuntimeTypeOK
  <2> QED
    BY <2>2, <2>3, <2>4 DEF UpOn
<1> QED
  BY <1>1, <1>2, <1>3
     DEF Acts, StartCreate, StartDestroy, Exit, Crash, CreateStep,
         ValidateClusterRequest, NewStateStat, NewStateMkdir, EnsureNetwork,
         ensureNetwork, CheckDNSDomain, CheckVolume, volumeExists, WaitForIPv4,
         ReconcileConfigs, SaveOpen, SaveWrite, SaveTalosconfig, runtimeVars

(* A create that writes a record holds the lock and has not written it yet.  *)
Writes(q) == SaveOpen(q) \/ SaveWrite(q)

(* Only those write, and only their own cluster's record.                    *)
LEMMA WhoWrites ==
  ASSUME IInv, NEW q \in Procs, Acts(q), ~DestroyStep(q), NEW c \in Clusters,
         yaml'[c] # yaml[c]
  PROVE  /\ Writes(q) /\ proc[q].target = c
         /\ HoldsFirst(proc[q]) /\ proc[q].pc # "talosconfig"
         /\ yaml'[c].status # "absent"
         /\ yaml'[c].status = "saved" =>
              SaveWrite(q) /\ At(proc[q], "talosconfig", proc'[q])
<1>1. yaml \in [Clusters -> Records]
  BY DEF IInv, StateSound, StateTypeOK
<1>2. CASE SaveOpen(q)
  <2>1. yaml' = [yaml EXCEPT ![proc[q].target] = TornRecord]
    BY <1>2 DEF SaveOpen, OpenRecord
  <2>2. TornRecord.status = "torn"
    BY DEF TornRecord, NoRecord
  <2>3. proc[q].target = c
    BY <1>1, <2>1
  <2>4. yaml'[c] = TornRecord
    BY <1>1, <2>1, <2>3
  <2> QED
    BY <1>2, <2>2, <2>3, <2>4 DEF SaveOpen, Writes, HoldsFirst, PastVolumes
<1>3. CASE SaveWrite(q)
  <2>1. PICK r \in FileOps, err \in BOOLEAN :
          /\ WriteRecord(proc[q].target, proc[q].work, r, err)
          /\ IF err THEN Fail(q, "save") ELSE Goto(q, "talosconfig")
    BY <1>3 DEF SaveWrite
  <2>2. ~err /\ yaml' = [yaml EXCEPT ![proc[q].target] =
                           [status |-> "saved", nodes |-> proc[q].work,
                            network |-> NetworkOf[proc[q].target]]]
    BY <2>1 DEF WriteRecord
  <2>3. proc[q].target = c
    BY <1>1, <2>2
  <2>4. yaml'[c].status = "saved"
    BY <1>1, <2>2, <2>3
  <2>5. At(proc[q], "talosconfig", proc'[q])
    BY <2>1, <2>2, GotoEffect
  <2> QED
    BY <1>3, <2>3, <2>4, <2>5 DEF SaveWrite, Writes, HoldsFirst, PastVolumes
<1>4. CASE ~Writes(q)
  <2>1. yaml' = yaml
    BY <1>4 DEF Writes, Acts, StartCreate, StartDestroy, Exit, Crash, CreateStep,
                ValidateClusterRequest, NewStateStat, StatDir, NewStateMkdir, MakeDir,
                EnsureNetwork, CheckDNSDomain, CheckVolume, CreateVolume, Launch,
                WaitForIPv4, ReconcileConfigs, SaveTalosconfig, stateVars
  <2> QED
    BY <2>1
<1> QED
  BY <1>2, <1>3, <1>4 DEF Writes

(* The holder of the lock is undisturbed when nobody destroys.               *)
LEMMA HoldersUndisturbed ==
  ASSUME Undestroyed, NEW p \in Procs, HoldsFirst(proc[p])
  PROVE  Undisturbed(p)
BY DEF Undestroyed, Undisturbed

(* Once saved, a record stays as it is.                                      *)
LEMMA SavedStays ==
  ASSUME IInv, LockInv, CreatesInv, NEW q \in Procs, Acts(q), ~DestroyStep(q),
         NEW c \in Clusters, yaml[c].status = "saved"
  PROVE  yaml'[c] = yaml[c]
<1> SUFFICES ASSUME yaml'[c] # yaml[c]
             PROVE  FALSE
  OBVIOUS
<1>1. proc[q].target = c /\ HoldsFirst(proc[q]) /\ proc[q].pc # "talosconfig"
  BY WhoWrites
<1> QED
  BY <1>1 DEF CreatesInv, Saved

(* A volume's name is never given up while nobody destroys.                  *)
LEMMA NamesStay ==
  ASSUME SanitizedInjective, IInv, Undestroyed, NEW q \in Procs, Acts(q)
  PROVE  VolumesNamed \subseteq VolumesNamed'
<1>1. RemovesOwn(proc[q])
  BY StepRemovesOwn DEF Acts
<1> QED
  BY <1>1 DEF RemovesOwn, Undestroyed, VolumesNamed

(* A saved record goes with the lock.                                        *)
LEMMA SavedKept ==
  ASSUME SanitizedInjective, IInv, IInv', LockInv, LockInv', CreatesInv, Undestroyed',
         NEW q \in Procs, Acts(q), ~DestroyStep(q), NEW c \in Clusters
  PROVE  Saved(c)'
<1> SUFFICES ASSUME yaml'[c].status = "saved"
             PROVE  /\ FirstVolume(c) \in VolumesNamed'
                    /\ \A p \in Procs : proc'[p].target = c /\ HoldsFirst(proc'[p]) =>
                         proc'[p].pc = "talosconfig"
  BY DEF Saved
<1>1. Undestroyed
  BY DEF CreatesInv
<1>2. CASE yaml'[c] = yaml[c]
  <2>1. FirstVolume(c) \in VolumesNamed
    BY <1>2 DEF CreatesInv, Saved
  <2>2. ASSUME NEW p \in Procs, proc'[p].target = c, HoldsFirst(proc'[p])
        PROVE  proc'[p].pc = "talosconfig"
    <3>1. Undisturbed(p)'
      BY <2>2 DEF Undisturbed, Undestroyed
    <3>2. Undisturbed(p) /\ proc[p].target = c
      BY <2>1, <2>2, <3>1, UndisturbedBefore
    <3>3. proc[p].pc = "talosconfig"
      BY <1>2, <3>2 DEF CreatesInv, Saved, Undisturbed
    <3>4. CASE p # q
      BY <3>3, <3>4, OthersSame DEF Same
    <3>5. CASE p = q
      <4>1. SaveTalosconfig(q) \/ Crash(q)
        BY <3>3, <3>5
           DEF Acts, StartCreate, StartDestroy, Exit, CreateStep, DestroyStep,
               ValidateClusterRequest, NewStateStat, NewStateMkdir, EnsureNetwork,
               CheckDNSDomain, CheckVolume, CreateVolume, Launch, WaitForIPv4,
               ReconcileConfigs, SaveOpen, SaveWrite
      <4>2. SaveTalosconfig(q) => proc'[q].pc = "returned"
        BY FailEffect, GotoEffect DEF SaveTalosconfig, At
      <4>3. Crash(q) => proc'[q].pc = "idle"
        BY DEF Crash, Become, IInv, ProcSound, Idle
      <4> QED
        BY <2>2, <3>5, <4>1, <4>2, <4>3 DEF HoldsFirst, PastVolumes
    <3> QED
      BY <3>4, <3>5
  <2> QED
    BY <1>1, <2>1, <2>2, NamesStay
<1>3. CASE yaml'[c] # yaml[c]
  <2>1. /\ proc[q].target = c /\ HoldsFirst(proc[q])
        /\ SaveWrite(q) /\ At(proc[q], "talosconfig", proc'[q])
    BY <1>3, WhoWrites
  <2>2. Undisturbed(q)
    BY <1>1, <2>1, HoldersUndisturbed
  <2>3. FirstVolume(c) \in VolumesNamed
    BY <2>1, <2>2 DEF LockInv
  <2>4. ASSUME NEW p \in Procs, p # q, proc'[p].target = c, HoldsFirst(proc'[p])
        PROVE  FALSE
    <3>1. Same(proc[p], proc'[p])
      BY <2>4, OthersSame
    <3>2. proc[p].target = c /\ HoldsFirst(proc[p])
      BY <2>4, <3>1 DEF Same, HoldsFirst
    <3>3. Undisturbed(p)
      BY <1>1, <3>2, HoldersUndisturbed
    <3> QED
      BY <2>1, <2>2, <2>4, <3>2, <3>3 DEF LockInv
  <2> QED
    BY <1>1, <2>1, <2>3, <2>4, NamesStay DEF At
<1> QED
  BY <1>2, <1>3

-----------------------------------------------------------------------------
(* What the steps of others leave of a create's promises.                    *)

(* What a create has ready for its nodes, and what it has delivered.         *)
Prepared(p) == Distinct(proc[p]) /\ Fresh(proc[p])
Delivered(p) == AllUp(proc[p]) /\ Recorded(proc[p])
Promises(p) == Prepared(p) /\ Delivered(p)

(* The names a create works with tell its nodes apart.                       *)
LEMMA OwnNodes ==
  ASSUME IInv, NEW p \in Procs, NEW i \in DOMAIN proc[p].work
  PROVE  /\ proc[p].work[i] \in NodeInfos /\ proc[p].work[i].name \in Nodes
         /\ proc[p].work[i].name.cluster = proc[p].target
<1>1. proc[p].work \in Seq(NodeInfos) /\ NodesOf(proc[p].work, proc[p].target)
  BY DEF IInv, ProcSound, Sound, Invocations
<1>2. proc[p].work[i] \in NodeInfos
  BY <1>1
<1>3. proc[p].work[i].name.cluster = proc[p].target
  BY <1>1 DEF NodesOf
<1> QED
  BY <1>2, <1>3 DEF NodeInfos

(* Nodes that share a volume's name are the same node, as their clusters'    *)
(* names stay apart.                                                         *)
LEMMA SharedVolume ==
  ASSUME SanitizedInjective, NEW m \in Nodes, NEW n \in Nodes, NEW k, NEW l,
         nodeVolumeName(m, k) = nodeVolumeName(n, l)
  PROVE  m = n /\ k = l
<1>1. /\ Sanitized[m.cluster] = Sanitized[n.cluster] /\ m.role = n.role
      /\ m.index = n.index /\ k = l
  BY DEF nodeVolumeName
<1>2. m.cluster = n.cluster
  BY <1>1 DEF SanitizedInjective, Nodes
<1> QED
  BY <1>1, <1>2 DEF Nodes

(* A volume that waits for its node is held under the lock.                  *)
LEMMA UnlaunchedHolds ==
  ASSUME IInv, NEW p \in Procs, NEW i \in DOMAIN proc[p].work, NEW kind \in Kinds,
         Unlaunched(proc[p], i, kind)
  PROVE  HoldsFirst(proc[p])
<1>1. proc[p].pos \in Nat \ {0} /\ i \in Nat \ {0}
  BY DEF IInv, ProcSound, Invocations
<1>2. CASE proc[p].pc \in {"volExists", "volCreate"}
  <2>1. proc[p].pos # 1 \/ proc[p].kind # "var"
    BY <1>1, <1>2 DEF Unlaunched
  <2> QED
    BY <1>2, <2>1 DEF HoldsFirst
<1>3. CASE proc[p].pc \notin {"volExists", "volCreate"}
  BY <1>3 DEF Unlaunched, HoldsFirst, PastVolumes
<1> QED
  BY <1>2, <1>3

(* Nobody else's step boots a volume that waits for its node: only the       *)
(* holder of the lock launches, and other clusters have other names.         *)
LEMMA OthersLeaveFresh ==
  ASSUME SanitizedInjective, IInv, NEW q \in Procs, NEW p \in Procs \ {q},
         Acts(q), ~DestroyStep(q), Fresh(proc[p]),
         proc[p].target = proc[q].target =>
           ~(HoldsFirst(proc[p]) /\ HoldsFirst(proc[q]))
  PROVE  Fresh(proc[p])'
<1>1. Same(proc[p], proc'[p])
  BY OthersSame
<1> SUFFICES ASSUME NEW i \in DOMAIN proc[p].work, NEW kind \in Kinds,
                    Unlaunched(proc[p], i, kind),
                    NEW v \in volumes', v.name = VolumeOf(proc[p], i, kind)
             PROVE  ~v.booted
  BY <1>1 DEF Same, Fresh, Unlaunched, VolumeOf
<1>2. v \in volumes => ~v.booted
  BY DEF Fresh
<1>3. CASE volumes' = volumes
  BY <1>2, <1>3
<1>4. CASE CreateVolume(q)
  <2>1. v \in volumes \/ v = [name |-> ThisVolume(q), label |-> proc[q].target,
                              booted |-> FALSE]
    BY <1>4 DEF CreateVolume, volumeCreate
  <2> QED
    BY <1>2, <2>1
<1>5. CASE Launch(q)
  <2>1. PICK r \in Execs(q), err \in BOOLEAN : runNode(ThisNode(q), r, err)
    BY <1>5 DEF Launch
  <2>2. HoldsFirst(proc[p]) /\ HoldsFirst(proc[q])
    BY <1>5, UnlaunchedHolds DEF Launch, HoldsFirst, PastVolumes
  <2>4. proc[p].target # proc[q].target
    BY <2>2
  <2>5. ThisNode(q) \in NodeInfos /\ ThisNode(q).name.cluster = proc[q].target
    BY <1>5, CreateContext DEF Launch, CreatePhases
  <2>6. v.name \notin nodeVolumeNames(ThisNode(q).name)
    <3>1. ThisNode(q).name \in Nodes
      BY <2>5 DEF NodeInfos
    <3> QED
      BY <2>4, <2>5, <3>1, OwnNodes, SharedVolume DEF nodeVolumeNames, VolumeOf
  <2>7. \A w \in volumes : [w EXCEPT !.booted = TRUE].name = w.name
    BY DEF IInv, RuntimeSound, RuntimeTypeOK, Volumes
  <2>8. \/ v \in volumes
        \/ \E w \in volumes : /\ w.name \in nodeVolumeNames(ThisNode(q).name)
                              /\ v = [w EXCEPT !.booted = TRUE]
    BY <2>1 DEF runNode
  <2>9. v \in volumes
    BY <2>6, <2>7, <2>8
  <2> QED
    BY <1>2, <2>9
<1> QED
  BY <1>3, <1>4, <1>5
     DEF Acts, StartCreate, StartDestroy, Exit, Crash, CreateStep,
         ValidateClusterRequest, NewStateStat, NewStateMkdir, EnsureNetwork,
         ensureNetwork, CheckDNSDomain, CheckVolume, volumeExists, WaitForIPv4,
         ReconcileConfigs, SaveOpen, SaveWrite, SaveTalosconfig, runtimeVars

(* A record that exists goes on existing.                                    *)
LEMMA NeverForgotten ==
  ASSUME IInv, NEW q \in Procs, Acts(q), ~DestroyStep(q), NEW c \in Clusters,
         yaml[c].status # "absent"
  PROVE  yaml'[c].status # "absent"
BY WhoWrites

(* While nobody destroys, nobody spoils another one's promises.              *)
LEMMA OthersKeepPromises ==
  ASSUME SanitizedInjective, IInv, LockInv, CreatesInv,
         NEW q \in Procs, NEW p \in Procs \ {q}, Acts(q), ~DestroyStep(q)
  PROVE  Promises(p)'
<1> DEFINE me == proc[p]
<1>1. Same(me, proc'[p])
  BY OthersSame
<1>2. Distinct(proc[p])'
  BY <1>1 DEF Same, CreatesInv, Distinct
<1>3. Fresh(proc[p])'
  <2>1. proc[p].target = proc[q].target => ~(HoldsFirst(proc[p]) /\ HoldsFirst(proc[q]))
    BY HoldersUndisturbed DEF CreatesInv, LockInv
  <2> QED
    BY <2>1, OthersLeaveFresh DEF CreatesInv
<1>4. AllUp(proc[p])'
  <2> SUFFICES ASSUME NEW i \in DOMAIN me.work, Launched(me, i)
               PROVE  UpOn(me.work[i], me.target)'
    BY <1>1 DEF Same, AllUp, Launched, UpOn
  <2>1. UpOn(me.work[i], me.target)
    BY DEF CreatesInv, AllUp
  <2>2. \A node, c : UpOn(node, c) => UpOn(node, c)'
    BY UpStays
  <2> QED
    BY <1>1, <2>1, <2>2 DEF Same, UpOn
<1>5. Recorded(proc[p])'
  <2>1. /\ proc'[p].pc = me.pc /\ proc'[p].op = me.op /\ proc'[p].bad = me.bad
        /\ proc'[p].work = me.work /\ proc'[p].target = me.target
    BY <1>1 DEF Same
  <2>2. ASSUME me.pc = "saveWrite"
        PROVE  yaml'[me.target].status # "absent"
    <3>1. me.target \in Clusters /\ yaml[me.target].status # "absent"
      BY <2>2 DEF CreatesInv, Recorded, IInv, ProcSound, Sound, CreatePhases
    <3> QED
      BY <3>1, NeverForgotten
  <2>3. ASSUME \/ me.pc = "talosconfig"
               \/ me.pc = "returned" /\ me.op = "create" /\ me.bad = {}
        PROVE  /\ me.target \in Clusters
               /\ yaml'[me.target] = [status |-> "saved", nodes |-> me.work,
                                      network |-> NetworkOf[me.target]]
               /\ me.work[1].name = FirstNode(me.target)
    <3>1. /\ me.target \in Clusters
          /\ yaml[me.target] = [status |-> "saved", nodes |-> me.work,
                                network |-> NetworkOf[me.target]]
          /\ me.work[1].name = FirstNode(me.target)
      BY <2>3 DEF CreatesInv, Recorded
    <3> QED
      BY <3>1, SavedStays
  <2> QED
    BY <2>1, <2>2, <2>3 DEF Recorded
<1> QED
  BY <1>2, <1>3, <1>4, <1>5 DEF Promises, Prepared, Delivered

-----------------------------------------------------------------------------
(* What a create's own steps do to its promises.                             *)

(* Whoever gives up, or ends, has promised nothing.                          *)
LEMMA NothingClaimed ==
  ASSUME NEW p \in Procs,
         \/ proc'[p].pc = "idle"
         \/ proc'[p].pc = "returned" /\ proc'[p].bad # {}
  PROVE  Promises(p)'
BY DEF Promises, Prepared, Delivered, Distinct, Fresh, Unlaunched, AllUp, Launched, Recorded,
       CreatePhases

(* The request of a create has no node twice.                                *)
LEMMA RequestDistinct ==
  ASSUME NEW c \in Clusters, NEW shape \in Shapes, NEW domain \in Domains,
         NEW i \in 1 .. shape.controlplanes + shape.workers,
         NEW j \in 1 .. shape.controlplanes + shape.workers,
         orderedReqs(c, shape)[i] = orderedReqs(c, shape)[j]
  PROVE  i = j
<1>1. shape.controlplanes \in Nat /\ shape.workers \in Nat
  BY ProvisionerAssumption DEF Shape
<1>2. ASSUME NEW k \in 1 .. shape.controlplanes + shape.workers
      PROVE  /\ k <= shape.controlplanes =>
                  /\ orderedReqs(c, shape)[k].role = "controlplane"
                  /\ orderedReqs(c, shape)[k].index = k
             /\ ~(k <= shape.controlplanes) =>
                  /\ orderedReqs(c, shape)[k].role = "worker"
                  /\ orderedReqs(c, shape)[k].index = k - shape.controlplanes
  <2>1. CASE k <= shape.controlplanes
    <3>1. orderedReqs(c, shape)[k] = [cluster |-> c, role |-> "controlplane", index |-> k]
      BY <2>1 DEF orderedReqs
    <3> QED
      BY <2>1, <3>1
  <2>2. CASE ~(k <= shape.controlplanes)
    <3>1. orderedReqs(c, shape)[k] =
            [cluster |-> c, role |-> "worker", index |-> k - shape.controlplanes]
      BY <2>2 DEF orderedReqs
    <3> QED
      BY <2>2, <3>1
  <2> QED
    BY <2>1, <2>2
<1> QED
  BY <1>1, <1>2

(* A create that starts promises no more than that.                          *)
LEMMA StartPromises ==
  ASSUME IInv, NEW p \in Procs, StartCreate(p)
  PROVE  Promises(p)'
<1>1. PICK c \in Clusters, shape \in Shapes, domain \in Domains, cli \in CliPresent :
        Begin(p, [Idle EXCEPT
          !.op = "create", !.target = c, !.domain = domain, !.cli = cli,
          !.pc = "validate", !.net = NetworkOf[c],
          !.work = [i \in 1 .. shape.controlplanes + shape.workers |->
                      nodeFQDN(orderedReqs(c, shape)[i], domain)]])
  BY DEF StartCreate
<1> DEFINE n == shape.controlplanes + shape.workers
           work == [i \in 1 .. n |-> nodeFQDN(orderedReqs(c, shape)[i], domain)]
           me == [Idle EXCEPT
             !.op = "create", !.target = c, !.domain = domain, !.cli = cli,
             !.pc = "validate", !.net = NetworkOf[c], !.work = work]
<1>2. \A i, j \in DOMAIN work : work[i].name = work[j].name => i = j
  <2>1. DOMAIN work = 1 .. n /\ \A i \in 1 .. n : work[i].name = orderedReqs(c, shape)[i]
    BY DEF nodeFQDN
  <2> QED
    BY <2>1, RequestDistinct
<1> HIDE DEF work
<1>3. \A set : /\ [me EXCEPT !.rivals = set].pc = "validate"
               /\ [me EXCEPT !.rivals = set].work = work
  BY DEF Idle
<1>4. Begin(p, me)
  BY <1>1 DEF work
<1> HIDE DEF me
<1>5. proc'[p].pc = "validate" /\ proc'[p].work = work
  BY <1>3, <1>4 DEF Begin
<1> QED
  BY <1>2, <1>5 DEF Promises, Prepared, Delivered, Distinct, Fresh, Unlaunched, AllUp,
                    Launched, Recorded

(* Before the volumes there is nothing to promise.                           *)
LEMMA EarlyPromises ==
  ASSUME IInv, NEW p \in Procs, StartsFirst(proc[p]), Distinct(proc[p]),
         proc[p].pc \in Early,
         NEW phase \in {"stat", "mkdir", "network", "dns", "volExists"},
         At(proc[p], phase, proc'[p])
  PROVE  Promises(p)'
<1>1. proc[p].pos = 1 /\ proc[p].kind = "var" /\ proc[p].pc \in CreatePhases
  BY DEF StartsFirst, Early, CreatePhases
<1>2. proc'[p].pos = 1 /\ proc'[p].kind = "var" /\ proc'[p].work = proc[p].work
  BY <1>1 DEF At
<1>3. proc[p].work \in Seq(NodeInfos)
  BY DEF IInv, ProcSound, Invocations
<1>4. \A i \in DOMAIN proc[p].work, kind \in Kinds : ~Unlaunched(proc'[p], i, kind)
  BY <1>2, <1>3 DEF Unlaunched, At
<1>5. Distinct(proc[p])' /\ Fresh(proc[p])'
  BY <1>1, <1>2, <1>4 DEF Distinct, Fresh
<1>6. AllUp(proc[p])' /\ Recorded(proc[p])'
  BY DEF At, AllUp, Launched, Recorded
<1> QED
  BY <1>5, <1>6 DEF Promises, Prepared, Delivered

(* Where the loop over the volumes goes next.                                *)
LEMMA NextVolumeEffect ==
  ASSUME IInv, NEW p \in Procs,
         Become(p, NextVolume(proc[p], "volExists", "volExists", "launch"))
  PROVE  LET me == proc[p]
             new == proc'[p]
         IN /\ new.work = me.work
            /\ \/ /\ me.kind = "var" /\ new.pc = "volExists"
                  /\ new.pos = me.pos /\ new.kind = "system-state"
               \/ /\ me.kind # "var" /\ new.pc = "volExists"
                  /\ new.pos = me.pos + 1 /\ new.kind = "var"
               \/ /\ me.kind # "var" /\ new.pc = "launch"
                  /\ new.pos = 1 /\ me.pos >= Len(me.work)
<1> DEFINE me == proc[p]
           far == [me EXCEPT !.kind = "var"]
<1>1. me \in Invocations /\ proc'[p] = NextVolume(me, "volExists", "volExists", "launch")
  BY DEF IInv, ProcSound, Become
<1>2. CASE me.kind = "var"
  <2>1. proc'[p] = [me EXCEPT !.pc = "volExists", !.kind = "system-state"]
    BY <1>1, <1>2 DEF NextVolume
  <2>2. /\ proc'[p].pc = "volExists" /\ proc'[p].pos = me.pos
        /\ proc'[p].kind = "system-state" /\ proc'[p].work = me.work
    BY <1>1, <2>1, ZenonT(60) DEF Invocations
  <2> QED
    BY <1>2, <2>2
<1>3. CASE me.kind # "var"
  <2>1. /\ far \in Invocations /\ far.work = me.work /\ far.pos = me.pos
        /\ far.kind = "var"
    BY <1>1 DEF Invocations, Kinds
  <2>2. proc'[p] = NextNode(far, "volExists", "launch")
    BY <1>1, <1>3 DEF NextVolume
  <2> HIDE DEF far
  <2>3. CASE far.pos < Len(far.work)
    <3>1. proc'[p] = [far EXCEPT !.pc = "volExists", !.pos = far.pos + 1]
      BY <2>2, <2>3 DEF NextNode
    <3>2. /\ proc'[p].pc = "volExists" /\ proc'[p].pos = far.pos + 1
          /\ proc'[p].kind = far.kind /\ proc'[p].work = far.work
      BY <2>1, <3>1 DEF Invocations
    <3> QED
      BY <1>3, <2>1, <3>2
  <2>4. CASE ~(far.pos < Len(far.work))
    <3>1. proc'[p] = [far EXCEPT !.pc = "launch", !.pos = 1]
      BY <2>2, <2>4 DEF NextNode
    <3>2. /\ proc'[p].pc = "launch" /\ proc'[p].pos = 1 /\ proc'[p].work = far.work
      BY <2>1, <3>1 DEF Invocations
    <3>3. me.work \in Seq(NodeInfos) /\ me.pos \in Nat
      BY <1>1 DEF Invocations
    <3>4. me.pos >= Len(me.work)
      BY <2>1, <2>4, <3>3
    <3> QED
      BY <1>3, <2>1, <3>2, <3>4
  <2> QED
    BY <2>3, <2>4
<1> QED
  BY <1>2, <1>3

(* A volume that comes to wait is the one just made, and it is fresh.        *)
LEMMA VolumePromises ==
  ASSUME IInv, NEW p \in Procs, Prepared(p),
         CheckVolume(p) \/ CreateVolume(p), ~\E what : Fail(p, what)
  PROVE  Promises(p)'
<1> DEFINE me == proc[p]
<1>1. /\ me.work \in Seq(NodeInfos) /\ me.pos \in Nat \ {0} /\ me.kind \in Kinds
      /\ me.pc \in CreatePhases
  BY DEF IInv, ProcSound, Invocations, CheckVolume, CreateVolume, CreatePhases
<1>2. Distinct(me) /\ Fresh(me)
  BY DEF Prepared
<1>3. SUFFICES /\ proc'[p].work = me.work
               /\ proc'[p].pc \in {"volExists", "volCreate", "launch"}
               /\ proc'[p].pc = "launch" => proc'[p].pos = 1
               /\ Fresh(proc[p])'
  <2> SUFFICES ASSUME proc'[p].work = me.work,
                      proc'[p].pc \in {"volExists", "volCreate", "launch"},
                      proc'[p].pc = "launch" => proc'[p].pos = 1,
                      Fresh(proc[p])'
               PROVE  Promises(p)'
    OBVIOUS
  <2>1. Distinct(proc[p])'
    BY <1>1, <1>2 DEF Distinct
  <2>2. \A i \in DOMAIN me.work : ~Launched(proc'[p], i)
    BY <1>1 DEF Launched
  <2>3. AllUp(proc[p])' /\ Recorded(proc[p])'
    BY <2>2 DEF AllUp, Recorded
  <2> QED
    BY <2>1, <2>3 DEF Promises, Prepared, Delivered
<1>4. CASE CheckVolume(p)
  <2>1. Goto(p, "volCreate") /\ me.pc = "volExists" /\ volumes' = volumes
    BY <1>4 DEF CheckVolume, volumeExists, runtimeVars
  <2>2. At(me, "volCreate", proc'[p])
    BY <2>1, GotoEffect
  <2>3. Fresh(proc[p])'
    BY <1>2, <2>1, <2>2 DEF At, Fresh, Unlaunched, VolumeOf
  <2> QED
    BY <2>2, <2>3 DEF At
<1>5. CASE CreateVolume(p)
  <2>1. me.pc = "volCreate"
    BY <1>5 DEF CreateVolume
  <2>2. PICK r \in Execs(p) :
          /\ volumeCreate(ThisVolume(p), me.target, r, FALSE)
          /\ Become(p, NextVolume(me, "volExists", "volExists", "launch"))
    BY <1>5 DEF CreateVolume
  <2>3. /\ ThisVolume(p) \notin VolumesNamed
        /\ \A v \in volumes' : v \in volumes \/ ~v.booted
    BY <2>2 DEF volumeCreate, Reply, Performed
  <2> DEFINE new == proc'[p]
  <2>4. /\ new.work = me.work
        /\ \/ /\ me.kind = "var" /\ new.pc = "volExists"
              /\ new.pos = me.pos /\ new.kind = "system-state"
           \/ /\ me.kind # "var" /\ new.pc = "volExists"
              /\ new.pos = me.pos + 1 /\ new.kind = "var"
           \/ /\ me.kind # "var" /\ new.pc = "launch"
              /\ new.pos = 1 /\ me.pos >= Len(me.work)
    BY <2>2, NextVolumeEffect
  <2>5. ASSUME NEW i \in DOMAIN me.work, NEW kind \in Kinds, Unlaunched(new, i, kind)
        PROVE  Unlaunched(me, i, kind) \/ (i = me.pos /\ kind = me.kind)
    <3>1. i \in Nat /\ i <= Len(me.work)
      BY <1>1
    <3>2. CASE me.kind = "var"
      BY <1>1, <2>1, <2>4, <2>5, <3>1, <3>2 DEF Unlaunched
    <3>3. CASE me.kind # "var"
      <4>1. me.kind = "system-state" /\ (kind = "var" \/ kind = "system-state")
        BY <1>1, <3>3 DEF Kinds
      <4>2. i <= me.pos
        <5>1. CASE new.pc = "launch"
          BY <1>1, <2>4, <3>1, <3>3, <5>1
        <5>2. CASE new.pc = "volExists"
          BY <1>1, <2>4, <2>5, <3>1, <3>3, <5>2 DEF Unlaunched
        <5> QED
          BY <2>4, <5>1, <5>2
      <4> QED
        BY <1>1, <2>1, <3>1, <4>1, <4>2 DEF Unlaunched
    <3> QED
      BY <3>2, <3>3
  <2>6. ASSUME NEW i \in DOMAIN me.work, NEW kind \in Kinds, Unlaunched(new, i, kind),
               NEW v \in volumes', v.name = VolumeOf(me, i, kind)
        PROVE  ~v.booted
    <3>1. CASE Unlaunched(me, i, kind)
      BY <1>2, <2>3, <2>6, <3>1 DEF Fresh
    <3>2. CASE i = me.pos /\ kind = me.kind
      <4>1. v.name = ThisVolume(p)
        BY <2>6, <3>2 DEF VolumeOf, ThisVolume, ThisNode
      <4> QED
        BY <2>3, <4>1 DEF VolumesNamed
    <3> QED
      BY <2>5, <2>6, <3>1, <3>2
  <2>7. Fresh(proc[p])'
    BY <2>4, <2>6 DEF Fresh, VolumeOf
  <2> QED
    BY <2>4, <2>7
<1> QED
  BY <1>4, <1>5

(* A node that came up did so on its two volumes, its cluster's own, and     *)
(* nothing else was booted.                                                  *)
LEMMA LaunchedNode ==
  ASSUME SanitizedInjective, IInv, NEW p \in Procs, Launch(p),
         ~\E what : Fail(p, what),
         NEW id, id = ThisNode(p), NEW c, c = proc[p].target
  PROVE  /\ At(proc[p], "address", proc'[p])
         /\ UpOn(id, c)'
         /\ \A v \in volumes' :
              v \in volumes \/ v.name \in nodeVolumeNames(id.name)
<1>1. PICK r \in Execs(p) : runNode(id, r, FALSE) /\ Goto(p, "address")
  BY DEF Launch
<1>2. At(proc[p], "address", proc'[p])
  BY <1>1, GotoEffect
<1>3. id \in NodeInfos /\ id.name.cluster = c /\ c \in Clusters
  BY CreateContext DEF Launch, CreatePhases
<1>4. nodeVolumeNames(id.name) \subseteq VolumesNamed
  BY <1>1 DEF runNode, Reply, Performed
<1>5. /\ containers' = containers \cup {[id |-> id, label |-> id.name.cluster, running |-> TRUE]}
      /\ volumes' = {IF v.name \in nodeVolumeNames(id.name)
                       THEN [v EXCEPT !.booted = TRUE] ELSE v : v \in volumes}
  <2> DEFINE ready == /\ nodeVolumeNames(id.name) \subseteq VolumesNamed
                      /\ \/ IsBuiltIn(NetworkOf[id.name.cluster])
                         \/ NetworkOf[id.name.cluster] \in networks
             natural == IF id \in ContainerIDs THEN "exists"
                        ELSE IF ready THEN "ok" ELSE "missing"
  <2> HIDE DEF ready
  <2>1. Performed(r, natural)
    BY <1>1 DEF runNode, Reply, Performed, ready
  <2> QED
    BY <1>1, <2>1 DEF runNode, ready
<1>6. volumes \subseteq Volumes /\ VolumesOwned(volumes)
  BY DEF IInv, RuntimeSound, RuntimeTypeOK
<1>7. ASSUME NEW name \in nodeVolumeNames(id.name)
      PROVE  [name |-> name, label |-> c, booted |-> TRUE] \in volumes'
  <2>1. PICK v \in volumes : v.name = name
    BY <1>4, <1>7 DEF VolumesNamed
  <2>2. v.label = c
    <3>1. v.name.owner = Sanitized[v.label] /\ v.label \in Clusters
      BY <1>6 DEF VolumesOwned, Volumes
    <3>2. name.owner = Sanitized[c]
      BY <1>3, <1>7 DEF nodeVolumeNames, nodeVolumeName
    <3> QED
      BY <1>3, <2>1, <3>1, <3>2 DEF SanitizedInjective
  <2>3. [v EXCEPT !.booted = TRUE] = [name |-> name, label |-> c, booted |-> TRUE]
    <3>1. v \in Volumes
      BY <1>6
    <3> DEFINE w == [v EXCEPT !.booted = TRUE]
    <3>2. w \in Volumes /\ w.name = name /\ w.label = c /\ w.booted = TRUE
      BY <2>1, <2>2, <3>1 DEF Volumes
    <3> HIDE DEF w
    <3>3. w = [name |-> name, label |-> c, booted |-> TRUE]
      BY <3>2 DEF Volumes
    <3> QED
      BY <3>3 DEF w
  <2> QED
    BY <1>5, <1>7, <2>1, <2>3
<1>8. \A v \in volumes' : v \in volumes \/ v.name \in nodeVolumeNames(id.name)
  <2>1. \A v \in volumes : [v EXCEPT !.booted = TRUE].name = v.name
    BY <1>6 DEF Volumes
  <2> QED
    BY <1>5, <2>1
<1>9. [id |-> id, label |-> c, running |-> TRUE] \in containers'
  BY <1>3, <1>5
<1>10. UpOn(id, c)'
  <2>1. /\ [id |-> id, label |-> c, running |-> TRUE] \in containers'
        /\ \A name \in nodeVolumeNames(id.name) :
             [name |-> name, label |-> c, booted |-> TRUE] \in volumes'
    BY <1>7, <1>9
  <2> QED
    BY <2>1 DEF UpOn
<1> QED
  BY <1>2, <1>8, <1>10

(* Launching a node on its fresh volumes keeps the others' fresh.            *)
LEMMA LaunchPromises ==
  ASSUME SanitizedInjective, IInv, NEW p \in Procs, Prepared(p), Launch(p),
         ~\E what : Fail(p, what)
  PROVE  Prepared(p)' /\ (Delivered(p) => Delivered(p)')
<1> DEFINE me == proc[p]
           new == proc'[p]
<1>1. /\ me.pc = "launch" /\ me.pos \in Nat \ {0} /\ me.work \in Seq(NodeInfos)
      /\ me.pos <= Len(me.work) /\ new.target = me.target
  <2>1. me.pc = "launch" /\ CreateStep(p)
    BY DEF Launch, CreateStep
  <2>2. new.target = me.target
    BY <2>1, CreateKeeps DEF Keeps
  <2> QED
    BY <2>1, <2>2 DEF IInv, ProcSound, Sound, Invocations, LoopPhases, CreatePhases
<1>2. Distinct(me) /\ Fresh(me)
  BY DEF Prepared
<1>3. PICK id, c : id = ThisNode(p) /\ c = me.target
  OBVIOUS
<1>4. /\ At(me, "address", new)
      /\ UpOn(id, c)'
      /\ \A v \in volumes' : v \in volumes \/ v.name \in nodeVolumeNames(id.name)
  BY <1>3, LaunchedNode
<1>5. new.pc = "address" /\ new.pos = me.pos /\ new.work = me.work
  BY <1>4 DEF At
<1>6. Distinct(proc[p])'
  BY <1>1, <1>2, <1>5 DEF Distinct, CreatePhases
<1>7. Fresh(proc[p])'
  <2> SUFFICES ASSUME NEW i \in DOMAIN me.work, NEW kind \in Kinds,
                      Unlaunched(new, i, kind),
                      NEW v \in volumes', v.name = VolumeOf(me, i, kind)
               PROVE  ~v.booted
    BY <1>5 DEF Fresh, VolumeOf
  <2>1. i > me.pos /\ i \in Nat
    BY <1>1, <1>5 DEF Unlaunched
  <2>2. me.pos \in DOMAIN me.work /\ id = me.work[me.pos]
    BY <1>1, <1>3 DEF ThisNode
  <2>3. v.name \notin nodeVolumeNames(id.name)
    <3> SUFFICES ASSUME NEW k \in Kinds, v.name = nodeVolumeName(id.name, k)
                 PROVE  FALSE
      BY DEF nodeVolumeNames
    <3>1. nodeVolumeName(me.work[i].name, kind) = nodeVolumeName(id.name, k)
      BY DEF VolumeOf
    <3>2. me.work[i].name = id.name
      BY <2>2, <3>1, OwnNodes, SharedVolume
    <3>3. i = me.pos
      BY <1>1, <1>2, <2>2, <3>2 DEF Distinct, CreatePhases
    <3> QED
      BY <1>1, <2>1, <3>3
  <2>4. v \in volumes
    BY <1>4, <2>3
  <2>5. Unlaunched(me, i, kind)
    BY <1>1, <2>1 DEF Unlaunched
  <2> QED
    BY <1>2, <2>4, <2>5 DEF Fresh
<1>8. ASSUME AllUp(me)
      PROVE  AllUp(proc[p])'
  <2> SUFFICES ASSUME NEW i \in DOMAIN me.work, Launched(new, i)
               PROVE  UpOn(me.work[i], me.target)'
    BY <1>1, <1>5 DEF AllUp, UpOn
  <2>1. i \in Nat /\ i <= me.pos
    BY <1>1, <1>5 DEF Launched
  <2>2. CASE i = me.pos
    BY <1>3, <1>4, <1>5, <1>1, <2>2 DEF ThisNode, UpOn
  <2>3. CASE i < me.pos
    <3>1. UpOn(me.work[i], me.target)
      BY <1>1, <1>8, <2>3 DEF AllUp, Launched
    <3>2. Acts(p) /\ ~DestroyStep(p)
      <4>1. CreateStep(p)
        BY DEF CreateStep
      <4>2. ~DestroyStep(p)
        BY <1>1, DestroyKeeps DEF DestroyPhases
      <4> QED
        BY <4>1, <4>2 DEF Acts
    <3>3. \A node, d : UpOn(node, d) => UpOn(node, d)'
      BY <3>2, UpStays
    <3> QED
      BY <1>1, <1>5, <3>1, <3>3 DEF UpOn
  <2> QED
    BY <1>1, <2>1, <2>2, <2>3
<1>9. Recorded(proc[p])'
  BY <1>5 DEF Recorded
<1> QED
  BY <1>6, <1>7, <1>8, <1>9 DEF Prepared, Delivered

(* Where the loops over the nodes go next.                                   *)
LEMMA NextNodeEffect ==
  ASSUME IInv, NEW p \in Procs, NEW again, NEW after,
         Become(p, NextNode(proc[p], again, after))
  PROVE  /\ proc'[p].work = proc[p].work
         /\ \/ proc'[p].pc = again /\ proc'[p].pos = proc[p].pos + 1
            \/ proc'[p].pc = after /\ proc[p].pos >= Len(proc[p].work)
<1> DEFINE me == proc[p]
<1>1. me \in Invocations /\ proc'[p] = NextNode(me, again, after)
  BY DEF IInv, ProcSound, Become
<1>2. CASE me.pos < Len(me.work)
  <2>1. proc'[p] = [me EXCEPT !.pc = again, !.pos = me.pos + 1]
    BY <1>1, <1>2 DEF NextNode
  <2> QED
    BY <1>1, <2>1 DEF Invocations
<1>3. CASE ~(me.pos < Len(me.work))
  <2>1. proc'[p] = [me EXCEPT !.pc = after, !.pos = 1]
    BY <1>1, <1>3 DEF NextNode
  <2>2. proc'[p].pc = after /\ proc'[p].work = me.work
    BY <1>1, <2>1 DEF Invocations
  <2>3. me.pos \in Nat /\ me.work \in Seq(NodeInfos)
    BY <1>1 DEF Invocations
  <2> QED
    BY <1>3, <2>2, <2>3
<1> QED
  BY <1>2, <1>3

(* A step that touches neither containers nor volumes takes along what holds *)
(* of them.                                                                  *)
LEMMA Carry ==
  ASSUME IInv, NEW p \in Procs, Prepared(p), CreateStep(p),
         containers' = containers, volumes' = volumes,
         proc'[p].work = proc[p].work,
         \A i \in DOMAIN proc[p].work :
           Launched(proc'[p], i) => Launched(proc[p], i),
         \A i \in DOMAIN proc[p].work, kind \in Kinds :
           Unlaunched(proc'[p], i, kind) => Unlaunched(proc[p], i, kind)
  PROVE  Prepared(p)' /\ (AllUp(proc[p]) => AllUp(proc[p])')
<1>1. Distinct(proc[p]) /\ Fresh(proc[p])
  BY DEF Prepared
<1>2. proc[p].pc \in CreatePhases /\ proc'[p].target = proc[p].target
  BY CreateKeeps DEF Keeps
<1>3. Distinct(proc[p])'
  BY <1>1, <1>2 DEF Distinct
<1>4. Fresh(proc[p])'
  BY <1>1 DEF Fresh, VolumeOf
<1>5. AllUp(proc[p]) => AllUp(proc[p])'
  BY <1>2 DEF AllUp, UpOn
<1> QED
  BY <1>3, <1>4, <1>5 DEF Prepared

(* An address, or a config, brings the loop on.                              *)
LEMMA WaitPromises ==
  ASSUME IInv, NEW p \in Procs, Prepared(p),
         WaitForIPv4(p) \/ ReconcileConfigs(p), ~\E what : Fail(p, what)
  PROVE  Prepared(p)' /\ (Delivered(p) => Delivered(p)')
<1> DEFINE me == proc[p]
           new == proc'[p]
<1>1. me.pos \in Nat \ {0} /\ me.work \in Seq(NodeInfos)
  BY DEF IInv, ProcSound, Invocations
<1>2. CreateStep(p) /\ containers' = containers /\ volumes' = volumes
  BY DEF CreateStep, WaitForIPv4, ReconcileConfigs, runtimeVars
<1>3. CASE WaitForIPv4(p)
  <2>1. me.pc = "address" /\ Become(p, NextNode(me, "launch", "reconcile"))
    BY <1>3 DEF WaitForIPv4
  <2>2. /\ new.work = me.work
        /\ \/ new.pc = "launch" /\ new.pos = me.pos + 1
           \/ new.pc = "reconcile" /\ me.pos >= Len(me.work)
    BY <2>1, NextNodeEffect
  <2>3. \A i \in DOMAIN me.work : Launched(new, i) => Launched(me, i)
    BY <1>1, <2>1, <2>2 DEF Launched
  <2>4. \A i \in DOMAIN me.work, kind \in Kinds :
          Unlaunched(new, i, kind) => Unlaunched(me, i, kind)
    BY <1>1, <2>1, <2>2 DEF Unlaunched
  <2>5. Prepared(p)' /\ (AllUp(proc[p]) => AllUp(proc[p])')
    BY <1>2, <2>2, <2>3, <2>4, Carry
  <2> QED
    BY <2>2, <2>5 DEF Delivered, Recorded
<1>4. CASE ReconcileConfigs(p)
  <2>1. me.pc = "reconcile" /\ Become(p, NextNode(me, "reconcile", "saveOpen"))
    BY <1>4 DEF ReconcileConfigs
  <2>2. new.work = me.work /\ new.pc \in {"reconcile", "saveOpen"}
    BY <2>1, NextNodeEffect
  <2>3. \A i \in DOMAIN me.work : Launched(new, i) => Launched(me, i)
    BY <2>1 DEF Launched
  <2>4. \A i \in DOMAIN me.work, kind \in Kinds : ~Unlaunched(new, i, kind)
    BY <2>2 DEF Unlaunched
  <2>5. Prepared(p)' /\ (AllUp(proc[p]) => AllUp(proc[p])')
    BY <1>2, <2>2, <2>3, <2>4, Carry
  <2> QED
    BY <2>2, <2>5 DEF Delivered, Recorded
<1> QED
  BY <1>3, <1>4

(* Saving: the record is torn until it is whole, and then it lists the       *)
(* nodes that are up.                                                        *)
LEMMA SavePromises ==
  ASSUME IInv, NEW p \in Procs, StartsFirst(proc[p]), Prepared(p),
         SaveOpen(p) \/ SaveWrite(p) \/ SaveTalosconfig(p), ~\E what : Fail(p, what)
  PROVE  Prepared(p)' /\ (Delivered(p) => Delivered(p)')
<1> DEFINE me == proc[p]
           new == proc'[p]
           c == me.target
           whole == [status |-> "saved", nodes |-> me.work, network |-> NetworkOf[c]]
<1>1. /\ CreateStep(p) /\ containers' = containers /\ volumes' = volumes
      /\ me.pc \in {"saveOpen", "saveWrite", "talosconfig"}
  BY DEF CreateStep, SaveOpen, SaveWrite, SaveTalosconfig, runtimeVars
<1>2. /\ c \in Clusters /\ me.op = "create" /\ me.bad = {}
      /\ yaml \in [Clusters -> Records]
  BY <1>1 DEF IInv, StateSound, StateTypeOK, ProcSound, Sound, CreatePhases
<1>3. new.op = me.op /\ new.target = c
  BY <1>1, CreateKeeps DEF Keeps
<1>4. PICK phase \in {"saveWrite", "talosconfig", "returned"} : Goto(p, phase)
  BY DEF SaveOpen, SaveWrite, SaveTalosconfig
<1>5. new.pc = phase /\ new.work = me.work /\ new.bad = me.bad
  BY <1>4, GotoEffect DEF At
<1>6. Prepared(p)' /\ (AllUp(proc[p]) => AllUp(proc[p])')
  <2>1. \A i \in DOMAIN me.work : Launched(me, i)
    BY <1>1 DEF Launched
  <2>2. \A i \in DOMAIN me.work, kind \in Kinds : ~Unlaunched(new, i, kind)
    BY <1>5 DEF Unlaunched
  <2> QED
    BY <1>1, <1>5, <2>1, <2>2, Carry
<1>7. CASE SaveOpen(p)
  <2>1. yaml' = [yaml EXCEPT ![c] = TornRecord] /\ Goto(p, "saveWrite")
    BY <1>7 DEF SaveOpen, OpenRecord
  <2>2. new.pc = "saveWrite"
    BY <2>1, GotoEffect DEF At
  <2>3. yaml'[c].status = "torn"
    BY <1>2, <2>1 DEF TornRecord, NoRecord
  <2> QED
    BY <1>3, <1>6, <2>2, <2>3 DEF Delivered, Recorded
<1>8. CASE SaveWrite(p)
  <2> SUFFICES ASSUME Delivered(p)
               PROVE  Delivered(p)'
    BY <1>6
  <2>1. me.pc = "saveWrite" /\ yaml[c].status # "absent"
    BY <1>8 DEF SaveWrite, Delivered, Recorded
  <2>2. yaml' = [yaml EXCEPT ![c] = whole] /\ Goto(p, "talosconfig")
    BY <1>8, <2>1 DEF SaveWrite, WriteRecord
  <2>3. new.pc = "talosconfig"
    BY <2>2, GotoEffect DEF At
  <2>4. yaml'[c] = whole
    BY <1>2, <2>2
  <2>5. me.work[1].name = FirstNode(c)
    BY <2>1 DEF StartsFirst, CreatePhases
  <2> QED
    BY <1>2, <1>3, <1>5, <1>6, <2>3, <2>4, <2>5 DEF Delivered, Recorded
<1>9. CASE SaveTalosconfig(p)
  <2> SUFFICES ASSUME Delivered(p)
               PROVE  Delivered(p)'
    BY <1>6
  <2>1. me.pc = "talosconfig" /\ yaml' = yaml /\ Goto(p, "returned")
    BY <1>9 DEF SaveTalosconfig, MakeDir
  <2>2. yaml[c] = whole /\ me.work[1].name = FirstNode(c)
    BY <2>1 DEF Delivered, Recorded
  <2>3. new.pc = "returned"
    BY <2>1, GotoEffect DEF At
  <2> QED
    BY <1>2, <1>3, <1>5, <1>6, <2>1, <2>2, <2>3 DEF Delivered, Recorded
<1> QED
  BY <1>7, <1>8, <1>9

(* Whatever an invocation does, it keeps its own promises.                   *)
LEMMA OwnKeepsPromises ==
  ASSUME SanitizedInjective, IInv, NEW p \in Procs,
         StartsFirst(proc[p]), Prepared(p), Acts(p), ~StartDestroy(p), ~DestroyStep(p)
  PROVE  Prepared(p)' /\ (Delivered(p) => Delivered(p)')
<1>1. CASE StartCreate(p)
  BY <1>1, StartPromises DEF Promises
<1>2. CASE Exit(p) \/ Crash(p)
  <2>1. proc'[p] = Idle
    BY <1>2 DEF Exit, Crash, Become, IInv, ProcSound
  <2> QED
    BY <2>1, NothingClaimed DEF Idle, Promises
<1>3. CASE \E what : Fail(p, what)
  <2>1. PICK what : Fail(p, what)
    BY <1>3
  <2>2. proc'[p].pc = "returned" /\ proc'[p].bad = {what}
    BY <2>1, FailEffect
  <2> QED
    BY <2>2, NothingClaimed DEF Promises
<1>4. CASE /\ \/ ValidateClusterRequest(p) \/ NewStateStat(p) \/ NewStateMkdir(p)
              \/ EnsureNetwork(p) \/ CheckDNSDomain(p)
           /\ ~\E what : Fail(p, what)
  <2>1. PICK phase \in {"stat", "mkdir", "network", "dns", "volExists"} : Goto(p, phase)
    BY <1>4 DEF ValidateClusterRequest, NewStateStat, NewStateMkdir, EnsureNetwork,
                CheckDNSDomain
  <2>2. proc[p].pc \in Early
    BY <1>4 DEF ValidateClusterRequest, NewStateStat, NewStateMkdir, EnsureNetwork,
                CheckDNSDomain, Early
  <2>3. At(proc[p], phase, proc'[p])
    BY <2>1, GotoEffect
  <2>4. Distinct(proc[p])
    BY DEF Prepared
  <2> QED
    BY <2>2, <2>3, <2>4, EarlyPromises DEF Promises
<1>5. CASE /\ CheckVolume(p) \/ CreateVolume(p)
           /\ ~\E what : Fail(p, what)
  BY <1>5, VolumePromises DEF Promises
<1>6. CASE Launch(p) /\ ~\E what : Fail(p, what)
  BY <1>6, LaunchPromises
<1>7. CASE /\ WaitForIPv4(p) \/ ReconcileConfigs(p)
           /\ ~\E what : Fail(p, what)
  BY <1>7, WaitPromises
<1>8. CASE /\ SaveOpen(p) \/ SaveWrite(p) \/ SaveTalosconfig(p)
           /\ ~\E what : Fail(p, what)
  BY <1>8, SavePromises
<1> QED
  BY <1>1, <1>2, <1>3, <1>4, <1>5, <1>6, <1>7, <1>8 DEF Acts, CreateStep

-----------------------------------------------------------------------------
(* The theorems.                                                             *)

(* Every step of creates alone keeps the promises of all of them.            *)
LEMMA StepKeepsCreates ==
  ASSUME SanitizedInjective, CreatesOnly, IInv, IInv', LockInv, LockInv', CreatesInv,
         NEW q \in Procs, Acts(q)
  PROVE  CreatesInv'
<1>1. ~StartDestroy(q) /\ ~DestroyStep(q) /\ Undestroyed'
  BY NobodyDestroys DEF CreatesInv
<1>2. \A p \in Procs : Promises(p)'
  <2>1. StartsFirst(proc[q]) /\ Prepared(q) /\ Delivered(q)
    BY DEF LockInv, CreatesInv, Prepared, Delivered
  <2> QED
    BY <1>1, <2>1, OthersKeepPromises, OwnKeepsPromises DEF Promises
<1>3. \A c \in Clusters : Saved(c)'
  BY <1>1, SavedKept
<1> QED
  BY <1>1, <1>2, <1>3 DEF CreatesInv, Promises, Prepared, Delivered

(* Nobody runs, nothing is promised.                                         *)
LEMMA CreatesInitially == Init => CreatesInv
<1> SUFFICES ASSUME Init
             PROVE  CreatesInv
  OBVIOUS
<1>1. \A p \in Procs : proc[p] = Idle
  BY DEF Init
<1>2. \A c \in Clusters : yaml[c].status = "absent"
  BY DEF Init, StateInit, NoRecord
<1>3. Undestroyed
  BY <1>1 DEF Undestroyed, Idle
<1>4. \A p \in Procs : Distinct(proc[p]) /\ Fresh(proc[p])
  BY <1>1 DEF Idle, Distinct, Fresh, Unlaunched, CreatePhases
<1>5. \A p \in Procs : AllUp(proc[p]) /\ Recorded(proc[p])
  BY <1>1 DEF Idle, AllUp, Launched, Recorded
<1> QED
  BY <1>2, <1>3, <1>4, <1>5 DEF CreatesInv, Saved

(* The promises are inductive, relative to ownership and the volume lock.    *)
LEMMA CreatesInductive ==
  ASSUME SanitizedInjective, CreatesOnly
  PROVE  IInv /\ IInv' /\ LockInv /\ LockInv' /\ CreatesInv /\ [Next]_vars
           => CreatesInv'
<1> SUFFICES ASSUME IInv, IInv', LockInv, LockInv', CreatesInv, [Next]_vars
             PROVE  CreatesInv'
  OBVIOUS
<1>1. CASE Next
  <2>1. PICK q \in Procs : Acts(q)
    BY <1>1 DEF Next, Acts
  <2> QED
    BY <2>1, StepKeepsCreates
<1>2. CASE UNCHANGED vars
  BY <1>2 DEF vars, runtimeVars, stateVars, CreatesInv, Undestroyed, Distinct, Fresh,
              Saved, VolumesNamed, AllUp, UpOn, Recorded
<1> QED
  BY <1>1, <1>2

(* While creates alone run, fail and are killed, each keeps what it has made *)
(* so far: its volumes fresh until their node boots on them, its nodes up on *)
(* them afterwards, and the record it saved (create.go:41-122).              *)
THEOREM CreatesHeld ==
  ASSUME SanitizedInjective, CreatesOnly
  PROVE  Spec => []CreatesInv
BY CreatesInitially, CreatesInductive, LockHeld, Ownership, PTL DEF Spec

(* A create whose volumes are fresh launches a node on nothing but fresh     *)
(* volumes of its own cluster.                                               *)
LEMMA LaunchIsFresh ==
  ASSUME SanitizedInjective, IInv, NEW q \in Procs, Acts(q), ~DestroyStep(q),
         Fresh(proc[q]),
         NEW x \in containers', x.id \notin ContainerIDs,
         NEW v \in volumes, v.name \in Mounts(x)
  PROVE  ~v.booted /\ v.label = x.label
<1>1. x \notin containers
  BY DEF ContainerIDs
<1>2. Launch(q)
  BY <1>1
     DEF Acts, StartCreate, StartDestroy, Exit, Crash, CreateStep, ValidateClusterRequest,
         NewStateStat, NewStateMkdir, EnsureNetwork, ensureNetwork, CheckDNSDomain,
         CheckVolume, volumeExists, CreateVolume, volumeCreate, WaitForIPv4,
         ReconcileConfigs, SaveOpen, SaveWrite, SaveTalosconfig, runtimeVars
<1> DEFINE me == proc[q]
           id == ThisNode(q)
<1>3. x = [id |-> id, label |-> id.name.cluster, running |-> TRUE]
  BY <1>1, <1>2 DEF Launch, runNode
<1>4. id \in NodeInfos /\ id.name.cluster = me.target /\ me.target \in Clusters
  BY <1>2, CreateContext DEF Launch, CreatePhases
<1>5. me.pos \in DOMAIN me.work /\ id = me.work[me.pos] /\ me.pc = "launch"
  BY <1>2 DEF Launch, ThisNode, IInv, ProcSound, Sound, Invocations, LoopPhases,
              CreatePhases
<1>6. PICK kind \in Kinds : v.name = VolumeOf(me, me.pos, kind)
  BY <1>3, <1>5 DEF Mounts, nodeVolumeNames, VolumeOf
<1>7. ~v.booted
  BY <1>5, <1>6 DEF Fresh, Unlaunched, IInv, ProcSound, Invocations
<1>8. v.label = me.target
  <2>1. v.name.owner = Sanitized[v.label] /\ v.label \in Clusters
    BY DEF IInv, RuntimeSound, RuntimeTypeOK, VolumesOwned, Volumes
  <2>2. v.name.owner = Sanitized[me.target]
    BY <1>4, <1>5, <1>6, SMTT(30) DEF VolumeOf, nodeVolumeName
  <2> QED
    BY <1>4, <2>1, <2>2 DEF SanitizedInjective
<1> QED
  BY <1>3, <1>4, <1>7, <1>8

(* Never reuse a stale volume (create.go:153): however many creates overlap, *)
(* fail or are killed, a node boots only on volumes of its own cluster that  *)
(* no node has run on.                                                       *)
THEOREM FreshVolumes ==
  ASSUME SanitizedInjective, CreatesOnly
  PROVE  Spec => FreshBoot
<1>1. IInv /\ LockInv /\ CreatesInv /\ [Next]_vars =>
        [\A x \in containers' :
           x.id \notin ContainerIDs =>
             \A v \in volumes :
               v.name \in Mounts(x) => ~v.booted /\ v.label = x.label]_vars
  <2> SUFFICES ASSUME IInv, LockInv, CreatesInv, Next,
                      NEW x \in containers', x.id \notin ContainerIDs,
                      NEW v \in volumes, v.name \in Mounts(x)
               PROVE  ~v.booted /\ v.label = x.label
    OBVIOUS
  <2>1. PICK q \in Procs : Acts(q)
    BY DEF Next, Acts
  <2>2. ~DestroyStep(q) /\ Fresh(proc[q])
    BY <2>1, NobodyDestroys DEF CreatesInv
  <2> QED
    BY <2>1, <2>2, LaunchIsFresh
<1> QED
  BY <1>1, CreatesHeld, LockHeld, Ownership, PTL DEF Spec, FreshBoot

(* Of two creates of one cluster the record of the one that came up is never *)
(* overwritten by the other, which fails on the volumes (create.go:115-122,  *)
(* :181).                                                                    *)
THEOREM RecordKept ==
  ASSUME SanitizedInjective, CreatesOnly
  PROVE  Spec => RecordSurvivesCreates
<1>1. IInv /\ LockInv /\ CreatesInv /\ [Next]_vars =>
        [\A c \in Clusters : yaml[c].status = "saved" /\ yaml'[c] # yaml[c] =>
           \E p \in Procs : proc[p].op = "destroy" /\ c \in clusterStatePath(proc[p].target)]_vars
  <2> SUFFICES ASSUME IInv, LockInv, CreatesInv, Next, NEW c \in Clusters,
                      yaml[c].status = "saved"
               PROVE  yaml'[c] = yaml[c]
    OBVIOUS
  <2>1. PICK q \in Procs : Acts(q)
    BY DEF Next, Acts
  <2>2. ~DestroyStep(q)
    BY <2>1, NobodyDestroys DEF CreatesInv
  <2> QED
    BY <2>1, <2>2, SavedStays
<1> QED
  BY <1>1, CreatesHeld, LockHeld, Ownership, PTL DEF Spec, RecordSurvivesCreates

(* A create that reports success has a record from which a later destroy     *)
(* finds every node, a control plane first, and every node runs on its own   *)
(* two volumes: however many other creates overlap it (create.go:41-122).    *)
THEOREM CreateUp ==
  ASSUME SanitizedInjective, CreatesOnly
  PROVE  Spec => []CreateNilMeansUp
<1>1. CreatesInv => CreateNilMeansUp
  <2> SUFFICES ASSUME CreatesInv, NEW p \in Procs, Succeeded(p, "create")
               PROVE  LET me == proc[p]
                          record == yaml[me.target]
                      IN /\ record.status = "saved" /\ record.nodes = me.work
                         /\ record.network = NetworkOf[me.target]
                         /\ record.nodes[1].name.role = "controlplane"
                         /\ \A i \in DOMAIN me.work : UpOn(me.work[i], me.target)
    BY DEF CreateNilMeansUp, UpOn
  <2>1. proc[p].pc = "returned" /\ proc[p].op = "create" /\ proc[p].bad = {}
    BY DEF Succeeded, Returned
  <2>2. AllUp(proc[p]) /\ Recorded(proc[p])
    BY DEF CreatesInv
  <2>3. \A i \in DOMAIN proc[p].work : UpOn(proc[p].work[i], proc[p].target)
    BY <2>1, <2>2 DEF AllUp, Launched
  <2> QED
    BY <2>1, <2>2, <2>3 DEF Recorded, FirstNode
<1> QED
  BY <1>1, CreatesHeld, PTL
=============================================================================
