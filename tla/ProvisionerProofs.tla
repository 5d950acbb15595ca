------------------------- MODULE ProvisionerProofs -------------------------
(* Theorems about Provisioner, for every set of clusters, invocations,       *)
(* shapes, domains and faults.                                               *)
EXTENDS Provisioner, TLAPS

-----------------------------------------------------------------------------
(* The inductive invariant.  Who owns what: a container's label is the       *)
(* cluster in its ID, a volume's the one its name was derived from, and a    *)
(* cluster's record lists nodes of that cluster.                             *)

ForeignContainer(x) == x.id \in Foreign /\ x.label = EmptyName
NodeContainer(x) == x.id \in NodeInfos /\ x.label = x.id.name.cluster

ContainersOwned(set) == \A x \in set : ForeignContainer(x) \/ NodeContainer(x)
VolumesOwned(set) == \A v \in set : v.name.owner = Sanitized[v.label]

RuntimeSound ==
  /\ RuntimeTypeOK
  /\ ContainersOwned(containers)
  /\ VolumesOwned(volumes)

NodesOf(nodes, c) == \A i \in DOMAIN nodes : nodes[i].name.cluster = c

StateSound ==
  /\ StateTypeOK
  /\ \A c \in Clusters : NodesOf(yaml[c].nodes, c)

(* Where an invocation stands in its loop it has a node to work on, and what *)
(* it works on, or has listed for its sweep, belongs to its cluster.         *)
LoopPhases == (CreatePhases \ {"validate"}) \cup {"stop", "rm", "delVol"}
SweepPhases == {"listC", "sweepStop", "sweepRm", "listV", "sweepVol"}

OwnContainers(ids, c) == \A id \in ids : id \in NodeInfos /\ id.name.cluster = c
OwnVolumes(names, c) == \A name \in names : name.owner = Sanitized[c]

Sound(me) ==
  /\ me \in Invocations
  /\ me.pc \in CreatePhases => me.op = "create" /\ me.target \in Clusters /\ me.bad = {}
  /\ me.pc \in DestroyPhases => me.op = "destroy"
  /\ me.pc \in SweepPhases => me.target \in Clusters
  /\ me.pc \in {"validate", "reflect"} => me.pos = 1
  /\ me.pc \in LoopPhases => me.pos <= Len(me.work)
  /\ NodesOf(me.work, me.target)
  /\ OwnContainers(me.todo, me.target)
  /\ OwnContainers(me.cur, me.target)
  /\ OwnVolumes(me.vols, me.target)

ProcSound ==
  /\ proc \in [Procs -> Invocations]
  /\ \A p \in Procs : Sound(proc[p])

(* The inductive invariant of ownership: every container, volume and record  *)
(* carries the label or key of the cluster its name is made of, and every    *)
(* invocation works only on names of its own target (node.go:78, :115).      *)
IInv == RuntimeSound /\ StateSound /\ ProcSound

-----------------------------------------------------------------------------
(* The runtime's commands keep the runtime's part of it.                     *)

(* `container run` adds a container labelled with the cluster in its ID      *)
(* and marks that node's volumes booted.                                     *)
LEMMA RunNodeSound ==
  ASSUME RuntimeSound, NEW id \in NodeInfos, NEW r, NEW err,
         runNode(id, r, err)
  PROVE  RuntimeSound'
<1>1. \/ containers' = containers
      \/ containers' = containers \cup
           {[id |-> id, label |-> id.name.cluster, running |-> TRUE]}
  BY DEF runNode
<1>2. id.name.cluster \in Clusters
  BY DEF NodeInfos, Nodes
<1>3. [id |-> id, label |-> id.name.cluster, running |-> TRUE] \in Containers
  BY <1>2 DEF Containers
<1>4. containers' \subseteq Containers
  BY <1>1, <1>3 DEF RuntimeSound, RuntimeTypeOK
<1>5. \/ volumes' = volumes
      \/ volumes' = {IF v.name \in nodeVolumeNames(id.name)
                       THEN [v EXCEPT !.booted = TRUE] ELSE v : v \in volumes}
  BY DEF runNode
<1>6. \A v \in Volumes : /\ [v EXCEPT !.booted = TRUE] \in Volumes
                         /\ [v EXCEPT !.booted = TRUE].name = v.name
                         /\ [v EXCEPT !.booted = TRUE].label = v.label
  BY DEF Volumes
<1>7. volumes \subseteq Volumes /\ VolumesOwned(volumes)
  BY DEF RuntimeSound, RuntimeTypeOK
<1>8. \A w \in volumes' : /\ w \in Volumes
                          /\ \E v \in volumes : w.name = v.name /\ w.label = v.label
  <2>1. \A w \in volumes' : \E v \in volumes : w = v \/ w = [v EXCEPT !.booted = TRUE]
    BY <1>5
  <2> QED
    BY <2>1, <1>6, <1>7
<1>9. VolumesOwned(volumes')
  BY <1>7, <1>8 DEF VolumesOwned
<1>10. networks' = networks
  BY DEF runNode
<1>11. ContainersOwned(containers')
  <2>1. NodeContainer([id |-> id, label |-> id.name.cluster, running |-> TRUE])
    BY DEF NodeContainer
  <2> QED
    BY <1>1, <2>1 DEF RuntimeSound, ContainersOwned
<1> QED
  BY <1>4, <1>8, <1>9, <1>10, <1>11 DEF RuntimeSound, RuntimeTypeOK, NamedNetworks

(* `container stop` changes who runs, not who owns.                          *)
LEMMA StopSound ==
  ASSUME RuntimeSound, NEW id, NEW r, NEW err, stop(id, r, err)
  PROVE  RuntimeSound'
<1>1. \/ containers' = containers
      \/ containers' = {IF x.id = id THEN [x EXCEPT !.running = FALSE] ELSE x :
                          x \in containers}
  BY DEF stop
<1>2. \A x \in Containers : /\ [x EXCEPT !.running = FALSE] \in Containers
                            /\ [x EXCEPT !.running = FALSE].id = x.id
                            /\ [x EXCEPT !.running = FALSE].label = x.label
  BY DEF Containers
<1>3. volumes' = volumes /\ networks' = networks
  BY DEF stop
<1>4. containers \subseteq Containers /\ ContainersOwned(containers)
  BY DEF RuntimeSound, RuntimeTypeOK
<1>5. \A y \in containers' :
        /\ y \in Containers
        /\ \E x \in containers : y.id = x.id /\ y.label = x.label
  <2>1. \A y \in containers' : \E x \in containers :
          y = x \/ y = [x EXCEPT !.running = FALSE]
    BY <1>1
  <2> QED
    BY <2>1, <1>2, <1>4
<1>6. \A x, y : /\ y.id = x.id /\ y.label = x.label
                /\ ForeignContainer(x) \/ NodeContainer(x)
                => ForeignContainer(y) \/ NodeContainer(y)
  BY DEF ForeignContainer, NodeContainer
<1>7. ContainersOwned(containers')
  BY <1>4, <1>5, <1>6 DEF ContainersOwned
<1> QED
  BY <1>3, <1>5, <1>7 DEF RuntimeSound, RuntimeTypeOK, NamedNetworks

(* `container rm` only removes.                                              *)
LEMMA RemoveSound ==
  ASSUME RuntimeSound, NEW id, NEW r, NEW err, remove(id, r, err)
  PROVE  RuntimeSound'
<1>1. containers' \subseteq containers /\ volumes' = volumes /\ networks' = networks
  BY DEF remove
<1> QED
  BY <1>1 DEF RuntimeSound, RuntimeTypeOK, NamedNetworks, ContainersOwned, VolumesOwned

(* `volume create` adds a volume labelled with the cluster its name was      *)
(* derived from.                                                             *)
LEMMA VolumeCreateSound ==
  ASSUME RuntimeSound, NEW name \in VolumeNames, NEW label \in Clusters,
         name.owner = Sanitized[label],
         NEW r, NEW err, volumeCreate(name, label, r, err)
  PROVE  RuntimeSound'
<1>1. volumes' \subseteq volumes \cup
        {[name |-> name, label |-> label, booted |-> FALSE]}
  BY DEF volumeCreate
<1>2. [name |-> name, label |-> label, booted |-> FALSE] \in Volumes
  BY DEF Volumes
<1>3. containers' = containers /\ networks' = networks
  BY DEF volumeCreate
<1>4. VolumesOwned({[name |-> name, label |-> label, booted |-> FALSE]})
  BY DEF VolumesOwned
<1>5. VolumesOwned(volumes')
  BY <1>1, <1>4 DEF RuntimeSound, VolumesOwned
<1> QED
  BY <1>1, <1>2, <1>3, <1>5 DEF RuntimeSound, RuntimeTypeOK, NamedNetworks

(* `volume delete` only removes.                                             *)
LEMMA VolumeDeleteSound ==
  ASSUME RuntimeSound, NEW name, NEW r, NEW err, volumeDelete(name, r, err)
  PROVE  RuntimeSound'
<1>1. volumes' \subseteq volumes /\ containers' = containers /\ networks' = networks
  BY DEF volumeDelete
<1> QED
  BY <1>1 DEF RuntimeSound, RuntimeTypeOK, NamedNetworks, ContainersOwned, VolumesOwned

(* ensureNetwork adds a named network of some cluster, or nothing.           *)
LEMMA EnsureNetworkSound ==
  ASSUME RuntimeSound, NEW net \in {NetworkOf[c] : c \in Clusters} \cup {NoNetwork},
         NEW r, NEW err, ensureNetwork(net, r, err)
  PROVE  RuntimeSound'
<1>1. containers' = containers /\ volumes' = volumes
  BY DEF ensureNetwork, runtimeVars
<1>2. networks' \subseteq NamedNetworks
  BY DEF ensureNetwork, runtimeVars, IsBuiltIn, RuntimeSound, RuntimeTypeOK, NamedNetworks
<1> QED
  BY <1>1, <1>2 DEF RuntimeSound, RuntimeTypeOK, NamedNetworks

(* destroyNetwork only removes.                                              *)
LEMMA DestroyNetworkSound ==
  ASSUME RuntimeSound, NEW net, NEW r, NEW err, destroyNetwork(net, r, err)
  PROVE  RuntimeSound'
<1>1. containers' = containers /\ volumes' = volumes /\ networks' \subseteq networks
  BY DEF destroyNetwork, runtimeVars
<1> QED
  BY <1>1 DEF RuntimeSound, RuntimeTypeOK, NamedNetworks, ContainersOwned, VolumesOwned

-----------------------------------------------------------------------------
(* An invocation's own steps keep it sound.                                  *)

(* Replacing one invocation's locals by sound ones keeps all sound.          *)
LEMMA BecomeSound ==
  ASSUME ProcSound, NEW p \in Procs, NEW me, Sound(me), Become(p, me)
  PROVE  ProcSound'
<1>1. me \in Invocations
  BY DEF Sound
<1>2. proc' \in [Procs -> Invocations]
  BY <1>1 DEF ProcSound, Become
<1>3. \A q \in Procs : proc'[q] = IF q = p THEN me ELSE proc[q]
  BY DEF ProcSound, Become
<1> QED
  BY <1>2, <1>3 DEF ProcSound

(* What an invocation becomes when it goes on working for its cluster.       *)
LEMMA AdvanceSound ==
  ASSUME NEW me, Sound(me), NEW new \in Invocations,
         new.target = me.target, new.op = me.op,
         new.work = me.work \/ NodesOf(new.work, me.target),
         new.todo \subseteq me.todo, new.cur \subseteq me.todo \cup me.cur,
         new.vols \subseteq me.vols,
         new.pc \notin {"validate", "reflect"},
         new.pc \in CreatePhases => me.pc \in CreatePhases /\ new.bad = me.bad,
         new.pc \in DestroyPhases => me.pc \in DestroyPhases,
         new.pc \in SweepPhases => me.target \in Clusters,
         new.pc \in LoopPhases => new.pos <= Len(new.work)
  PROVE  Sound(new)
BY DEF Sound, OwnContainers, OwnVolumes

(* An error return of Create, or of Reflect, leaves sound locals.            *)
LEMMA FailSound ==
  ASSUME ProcSound, NEW p \in Procs, proc[p].pc \in CreatePhases \cup {"reflect"},
         NEW what \in {"request", "exists", "mkdir", "network", "dns", "check",
                       "stale", "create", "launch", "address", "reconcile",
                       "save", "talosconfig", "reflect"},
         Fail(p, what)
  PROVE  ProcSound'
<1> DEFINE me == proc[p]
           new == [me EXCEPT !.pc = "returned", !.bad = {what}]
<1>1. Sound(me) /\ me \in Invocations
  BY DEF ProcSound, Sound
<1>2. new \in Invocations
  BY <1>1, ZenonT(60) DEF Invocations
<1>3. /\ new.pc = "returned" /\ new.target = me.target /\ new.op = me.op
      /\ new.work = me.work /\ new.todo = me.todo /\ new.cur = me.cur
      /\ new.vols = me.vols
  BY <1>1 DEF Invocations
<1>4. "returned" \notin CreatePhases \cup DestroyPhases \cup SweepPhases \cup LoopPhases
  BY DEF CreatePhases, DestroyPhases, SweepPhases, LoopPhases
<1>5. Sound(new)
  <2> HIDE DEF me, new
  <2> QED
    BY <1>1, <1>2, <1>3, <1>4, AdvanceSound
<1> QED
  BY <1>5, BecomeSound DEF Fail

(* Moving on within Create, between phases that both have a node in hand.    *)
LEMMA GotoSound ==
  ASSUME ProcSound, NEW p \in Procs, proc[p].pc \in CreatePhases \ {"validate"},
         NEW phase \in (CreatePhases \ {"validate"}) \cup {"returned"},
         Goto(p, phase)
  PROVE  ProcSound'
<1> DEFINE me == proc[p]
           new == [me EXCEPT !.pc = phase]
<1>1. Sound(me) /\ me \in Invocations
  BY DEF ProcSound, Sound
<1>2. new \in Invocations
  BY <1>1 DEF Invocations
<1>3. /\ new.pc = phase /\ new.target = me.target /\ new.op = me.op
      /\ new.bad = me.bad /\ new.pos = me.pos
      /\ new.work = me.work /\ new.todo = me.todo /\ new.cur = me.cur
      /\ new.vols = me.vols
  BY <1>1 DEF Invocations
<1>4. me.pc \in CreatePhases /\ me.pc \in LoopPhases
      /\ phase \notin DestroyPhases \cup SweepPhases /\ phase \notin {"validate", "reflect"}
  BY DEF CreatePhases, DestroyPhases, SweepPhases, LoopPhases
<1>5. Sound(new)
  <2>1. me.pos <= Len(me.work)
    BY <1>1, <1>4 DEF Sound
  <2> HIDE DEF me, new
  <2> QED
    BY <1>1, <1>2, <1>3, <1>4, <2>1, AdvanceSound
<1> QED
  BY <1>5, BecomeSound DEF Goto

(* The loops over nodes and volumes, in Create and in the recorded pass.     *)
LoopPair(me, again, after) ==
  \/ me.pc \in CreatePhases /\ {again, after} \subseteq CreatePhases \ {"validate"}
  \/ me.pc = "delVol" /\ again \in {"stop", "delVol"} /\ after \in {"listC", "delNet"}

(* The next node exists when the loop goes on; the next phase has its own    *)
(* when the loop ends.                                                       *)
LEMMA NextNodeSound ==
  ASSUME NEW me, Sound(me), me.pc \in LoopPhases, me.target \in Clusters,
         NEW again, NEW after, LoopPair(me, again, after)
  PROVE  Sound(NextNode(me, again, after))
<1> DEFINE new == NextNode(me, again, after)
<1>1. me \in Invocations /\ me.pos \in Nat \ {0} /\ me.pos <= Len(me.work)
      /\ Len(me.work) \in Nat
  BY DEF Sound, Invocations
<1>2. /\ again \in {"idle", "returned"} \cup CreatePhases \cup DestroyPhases
      /\ after \in {"idle", "returned"} \cup CreatePhases \cup DestroyPhases
  BY DEF LoopPair, DestroyPhases
<1>3. new.pc \in {again, after} /\ new \in Invocations
  <2>1. CASE me.pos < Len(me.work)
    <3>1. new = [me EXCEPT !.pc = again, !.pos = me.pos + 1]
      BY <2>1 DEF NextNode
    <3>2. me.pos + 1 \in Nat \ {0} /\ me \in Invocations
      BY <1>1
    <3> HIDE DEF new
    <3> QED
      BY <1>2, <3>1, <3>2 DEF Invocations
  <2>2. CASE ~(me.pos < Len(me.work))
    <3>1. new = [me EXCEPT !.pc = after, !.pos = 1]
      BY <2>2 DEF NextNode
    <3>2. 1 \in Nat \ {0} /\ me \in Invocations
      BY <1>1
    <3> HIDE DEF new
    <3> QED
      BY <1>2, <3>1, <3>2 DEF Invocations
  <2> QED
    BY <2>1, <2>2
<1>4. /\ new.target = me.target /\ new.op = me.op /\ new.bad = me.bad
      /\ new.work = me.work /\ new.todo = me.todo /\ new.cur = me.cur
      /\ new.vols = me.vols
      /\ new.pos <= Len(me.work)
  BY <1>1 DEF Invocations, NextNode
<1>5. /\ new.pc \in CreatePhases => me.pc \in CreatePhases
      /\ new.pc \in DestroyPhases => me.pc \in DestroyPhases
      /\ new.pc \notin {"validate", "reflect"}
  <2> HIDE DEF new
  <2> QED
    BY <1>3 DEF LoopPair, CreatePhases, DestroyPhases
<1>6. Sound(new)
  <2> HIDE DEF new
  <2> QED
    BY <1>3, <1>4, <1>5, AdvanceSound
<1> QED
  BY <1>6

(* Likewise for the loop over a node's two volumes.                          *)
LEMMA NextVolumeSound ==
  ASSUME NEW me, Sound(me), me.pc \in LoopPhases, me.target \in Clusters,
         NEW same, NEW again, NEW after,
         LoopPair(me, same, after), LoopPair(me, again, after)
  PROVE  Sound(NextVolume(me, same, again, after))
<1>1. me \in Invocations /\ me.pos <= Len(me.work)
  BY DEF Sound
<1>2. CASE me.kind = "var"
  <2> DEFINE new == [me EXCEPT !.pc = same, !.kind = "system-state"]
  <2>1. same \in CreatePhases \cup DestroyPhases
    BY DEF LoopPair, DestroyPhases
  <2>2. new \in Invocations
    BY <1>1, <2>1 DEF Invocations, Kinds
  <2>3. /\ new.target = me.target /\ new.op = me.op /\ new.bad = me.bad
        /\ new.work = me.work /\ new.todo = me.todo /\ new.cur = me.cur
        /\ new.vols = me.vols /\ new.pc = same /\ new.pos = me.pos
    BY <1>1 DEF Invocations
  <2>4. /\ same \in CreatePhases => me.pc \in CreatePhases
        /\ same \in DestroyPhases => me.pc \in DestroyPhases
        /\ same \notin {"validate", "reflect"}
    BY DEF LoopPair, CreatePhases, DestroyPhases
  <2>5. Sound(new)
    <3> HIDE DEF new
    <3> QED
      BY <1>1, <2>2, <2>3, <2>4, AdvanceSound
  <2> QED
    BY <1>2, <2>5 DEF NextVolume
<1>3. CASE me.kind # "var"
  <2> DEFINE mid == [me EXCEPT !.kind = "var"]
  <2>1. mid \in Invocations
    BY <1>1 DEF Invocations, Kinds
  <2>2. /\ mid.target = me.target /\ mid.op = me.op /\ mid.bad = me.bad
        /\ mid.work = me.work /\ mid.todo = me.todo /\ mid.cur = me.cur
        /\ mid.vols = me.vols /\ mid.pc = me.pc /\ mid.pos = me.pos
    BY <1>1 DEF Invocations
  <2>3. me.pc \notin {"validate", "reflect"}
    BY DEF LoopPhases, CreatePhases
  <2>4. Sound(mid) /\ LoopPair(mid, again, after)
    <3>1. me.pc \in SweepPhases => me.target \in Clusters
      OBVIOUS
    <3> HIDE DEF mid
    <3> QED
      BY <1>1, <2>1, <2>2, <2>3, <3>1, AdvanceSound DEF LoopPair
  <2>5. Sound(NextNode(mid, again, after))
    <3> HIDE DEF mid
    <3> QED
      BY <2>2, <2>4, NextNodeSound
  <2> QED
    BY <1>3, <2>5 DEF NextVolume
<1> QED
  BY <1>2, <1>3

-----------------------------------------------------------------------------
(* Starting an invocation.                                                   *)

(* The history may be any set of operations.                                 *)
LEMMA RivalsSound ==
  ASSUME NEW me, Sound(me), NEW set \in SUBSET {"create", "destroy"}
  PROVE  Sound([me EXCEPT !.rivals = set])
<1> DEFINE new == [me EXCEPT !.rivals = set]
<1>1. me \in Invocations
  BY DEF Sound
<1>2. new \in Invocations
  BY <1>1 DEF Invocations
<1>3. /\ new.target = me.target /\ new.op = me.op /\ new.bad = me.bad
      /\ new.work = me.work /\ new.todo = me.todo /\ new.cur = me.cur
      /\ new.vols = me.vols /\ new.pc = me.pc /\ new.pos = me.pos
  BY <1>1 DEF Invocations
<1> HIDE DEF new
<1>4. Sound(new)
  BY <1>2, <1>3 DEF Sound
<1> QED
  BY <1>4 DEF new

(* Starting an invocation keeps everyone sound, those that meet it           *)
(* included.                                                                 *)
LEMMA BeginSound ==
  ASSUME ProcSound, NEW p \in Procs, NEW me, Sound(me),
         me.op \in {"create", "destroy"}, Begin(p, me)
  PROVE  ProcSound'
<1> DEFINE others == {proc[o].op : o \in {s \in Procs \ {p} :
                        Running(s) /\ Meets(proc[s].target, me.target)}}
<1>1. \A q \in Procs : Sound(proc[q]) /\ proc[q] \in Invocations
  BY DEF ProcSound, Sound
<1>2. \A q \in Procs : Running(q) => proc[q].op \in {"create", "destroy"}
  <2>1. \A q \in Procs : Running(q) => proc[q].pc \in CreatePhases \cup DestroyPhases
    BY <1>1 DEF Running, Invocations
  <2> QED
    BY <1>1, <2>1 DEF Sound
<1>3. others \in SUBSET {"create", "destroy"}
  BY <1>2
<1>4. \A q \in Procs : proc[q].rivals \cup {me.op} \in SUBSET {"create", "destroy"}
  <2>1. \A q \in Procs : proc[q].rivals \in SUBSET {"create", "destroy"}
    BY <1>1 DEF Invocations
  <2> QED
    BY <2>1
<1>5. \A q \in Procs :
        \/ proc'[q] = [me EXCEPT !.rivals = others]
        \/ proc'[q] = [proc[q] EXCEPT !.rivals = proc[q].rivals \cup {me.op}]
        \/ proc'[q] = proc[q]
  BY DEF Begin
<1> HIDE DEF others
<1>6. \A q \in Procs : Sound(proc'[q])
  <2> SUFFICES ASSUME NEW q \in Procs
               PROVE  Sound(proc'[q])
    OBVIOUS
  <2>1. CASE proc'[q] = [me EXCEPT !.rivals = others]
    BY <1>3, <2>1, RivalsSound
  <2>2. CASE proc'[q] = [proc[q] EXCEPT !.rivals = proc[q].rivals \cup {me.op}]
    BY <1>1, <1>4, <2>2, RivalsSound
  <2>3. CASE proc'[q] = proc[q]
    BY <1>1, <2>3
  <2> QED
    BY <1>5, <2>1, <2>2, <2>3
<1>7. proc' = [q \in Procs |-> proc'[q]]
  BY DEF Begin
<1>8. \A q \in Procs : proc'[q] \in Invocations
  BY <1>6 DEF Sound
<1> QED
  BY <1>6, <1>7, <1>8 DEF ProcSound

(* A request's nodes are NodeInfos of its cluster.                           *)
LEMMA RequestWork ==
  ASSUME NEW c \in Clusters, NEW shape \in Shapes, NEW domain \in Domains
  PROVE  LET work == [i \in 1 .. shape.controlplanes + shape.workers |->
                        nodeFQDN(orderedReqs(c, shape)[i], domain)]
         IN work \in Seq(NodeInfos) /\ NodesOf(work, c)
<1> DEFINE n == shape.controlplanes + shape.workers
           work == [i \in 1 .. n |-> nodeFQDN(orderedReqs(c, shape)[i], domain)]
<1>1. shape.controlplanes \in Nat /\ shape.workers \in Nat /\ n \in Nat
  BY ProvisionerAssumption DEF Shape
<1>2. \A i \in 1 .. n : /\ orderedReqs(c, shape)[i] \in Nodes
                        /\ orderedReqs(c, shape)[i].cluster = c
  <2> SUFFICES ASSUME NEW i \in 1 .. n
               PROVE  /\ orderedReqs(c, shape)[i] \in Nodes
                      /\ orderedReqs(c, shape)[i].cluster = c
    OBVIOUS
  <2>1. CASE i <= shape.controlplanes
    <3>1. orderedReqs(c, shape)[i] = [cluster |-> c, role |-> "controlplane", index |-> i]
      BY <2>1 DEF orderedReqs
    <3> QED
      BY <1>1, <3>1 DEF Nodes, Roles
  <2>2. CASE ~(i <= shape.controlplanes)
    <3>1. orderedReqs(c, shape)[i] =
            [cluster |-> c, role |-> "worker", index |-> i - shape.controlplanes]
      BY <2>2 DEF orderedReqs
    <3>2. i - shape.controlplanes \in Nat \ {0}
      BY <1>1, <2>2
    <3> QED
      BY <3>1, <3>2 DEF Nodes, Roles
  <2> QED
    BY <2>1, <2>2
<1>3. \A i \in 1 .. n : work[i] \in NodeInfos /\ work[i].name.cluster = c
  BY <1>2 DEF nodeFQDN, NodeInfos
<1>4. work \in [1 .. n -> NodeInfos] /\ DOMAIN work = 1 .. n
  BY <1>3
<1> HIDE DEF work, n
<1>5. work \in Seq(NodeInfos)
  BY <1>1, <1>4
<1>6. NodesOf(work, c)
  BY <1>3, <1>4 DEF NodesOf
<1> QED
  BY <1>5, <1>6 DEF work, n

(* An empty slot is sound.                                                   *)
LEMMA IdleSound == Sound(Idle)
<1>1. Idle \in Invocations
  BY DEF Idle, Invocations, Kinds
<1>2. /\ Idle.pc = "idle" /\ Idle.work = <<>> /\ Idle.todo = {} /\ Idle.cur = {}
      /\ Idle.vols = {}
  BY DEF Idle
<1>3. "idle" \notin CreatePhases \cup DestroyPhases \cup SweepPhases \cup LoopPhases
      /\ "idle" # "validate"
  BY DEF CreatePhases, DestroyPhases, SweepPhases, LoopPhases
<1>4. DOMAIN <<>> = {}
  OBVIOUS
<1> QED
  BY <1>1, <1>2, <1>3, <1>4 DEF Sound, NodesOf, OwnContainers, OwnVolumes

(* A create starts with the nodes of its request.                            *)
LEMMA StartCreateSound ==
  ASSUME IInv, NEW p \in Procs, StartCreate(p)
  PROVE  ProcSound'
<1>1. PICK c \in Clusters, shape \in Shapes, domain \in Domains, cli \in CliPresent :
        Begin(p, [Idle EXCEPT
          !.op = "create", !.target = c, !.domain = domain, !.cli = cli,
          !.pc = "validate", !.net = NetworkOf[c],
          !.work = [i \in 1 .. shape.controlplanes + shape.workers |->
                      nodeFQDN(orderedReqs(c, shape)[i], domain)]])
  BY DEF StartCreate
<1> DEFINE work == [i \in 1 .. shape.controlplanes + shape.workers |->
                      nodeFQDN(orderedReqs(c, shape)[i], domain)]
           me == [Idle EXCEPT
             !.op = "create", !.target = c, !.domain = domain, !.cli = cli,
             !.pc = "validate", !.net = NetworkOf[c], !.work = work]
<1>2. work \in Seq(NodeInfos) /\ NodesOf(work, c)
  BY RequestWork
<1> HIDE DEF work
<1>3. cli \in BOOLEAN
  BY ProvisionerAssumption
<1>4. Idle \in Invocations
  BY IdleSound DEF Sound
<1>5. me \in Invocations
  <2>1. /\ "validate" \in {"idle", "returned"} \cup CreatePhases \cup DestroyPhases
        /\ NetworkOf[c] \in {NetworkOf[d] : d \in Clusters} \cup {NoNetwork}
        /\ c \in Clusters \cup {EmptyName} /\ domain \in Domains \cup {NoDomain}
    BY DEF CreatePhases
  <2>2. work \in Seq(NodeInfos)
    BY <1>2
  <2> QED
    BY <1>3, <1>4, <2>1, <2>2, ZenonT(60) DEF Invocations
<1>6. /\ me.op = "create" /\ me.target = c /\ me.pc = "validate" /\ me.work = work
      /\ me.pos = 1 /\ me.todo = {} /\ me.cur = {} /\ me.vols = {} /\ me.bad = {}
  BY DEF Idle
<1>7. Sound(me)
  <2> HIDE DEF me
  <2> QED
    BY <1>2, <1>5, <1>6
       DEF Sound, OwnContainers, OwnVolumes, DestroyPhases, SweepPhases, LoopPhases
<1>8. Begin(p, me)
  BY <1>1 DEF work
<1>9. ProcSound
  BY DEF IInv
<1> HIDE DEF me
<1> QED
  BY <1>6, <1>7, <1>8, <1>9, BeginSound

(* A destroy starts with no nodes.                                           *)
LEMMA StartDestroySound ==
  ASSUME IInv, NEW p \in Procs, StartDestroy(p)
  PROVE  ProcSound'
<1>1. PICK c \in DestroyTargets, cli \in CliPresent :
        Begin(p, [Idle EXCEPT !.op = "destroy", !.target = c, !.cli = cli,
                              !.pc = "reflect"])
  BY DEF StartDestroy
<1> DEFINE me == [Idle EXCEPT !.op = "destroy", !.target = c, !.cli = cli,
                              !.pc = "reflect"]
<1>2. c \in Clusters \cup {EmptyName} /\ cli \in BOOLEAN
  BY ProvisionerAssumption
<1>3. Idle \in Invocations
  BY IdleSound DEF Sound
<1>4. me \in Invocations
  BY <1>2, <1>3, ZenonT(60) DEF Invocations, DestroyPhases
<1>5. /\ me.op = "destroy" /\ me.target = c /\ me.pc = "reflect" /\ me.work = <<>>
      /\ me.pos = 1 /\ me.todo = {} /\ me.cur = {} /\ me.vols = {}
  BY DEF Idle
<1>6. Sound(me)
  <2>1. NodesOf(<<>>, c)
    BY DEF NodesOf
  <2> HIDE DEF me
  <2> QED
    BY <1>4, <1>5, <2>1
       DEF Sound, OwnContainers, OwnVolumes, CreatePhases, SweepPhases, LoopPhases
<1>7. ProcSound /\ Begin(p, me)
  BY <1>1 DEF IInv
<1> HIDE DEF me
<1> QED
  BY <1>5, <1>6, <1>7, BeginSound

-----------------------------------------------------------------------------
(* What a loop works on is the invocation's own.                             *)

(* In a loop phase there is a current node, it is the target cluster's,      *)
(* and so is the volume derived from it.                                     *)
LEMMA InTheLoop ==
  ASSUME ProcSound, NEW p \in Procs, proc[p].pc \in LoopPhases
  PROVE  /\ ThisNode(p) \in NodeInfos
         /\ ThisNode(p).name.cluster = proc[p].target
         /\ proc[p].target \in Clusters
         /\ ThisVolume(p) \in VolumeNames
         /\ ThisVolume(p).owner = Sanitized[proc[p].target]
<1> DEFINE me == proc[p]
<1>1. /\ me \in Invocations /\ me.pos <= Len(me.work)
      /\ NodesOf(me.work, me.target)
  BY DEF ProcSound, Sound
<1>2. me.work \in Seq(NodeInfos) /\ me.pos \in Nat \ {0} /\ me.kind \in Kinds
  BY <1>1 DEF Invocations
<1>3. me.pos \in DOMAIN me.work /\ me.work[me.pos] \in NodeInfos
  BY <1>1, <1>2
<1>4. ThisNode(p) \in NodeInfos /\ ThisNode(p).name.cluster = me.target
  BY <1>1, <1>3 DEF ThisNode, NodesOf
<1>5. ThisNode(p).name \in Nodes
  BY <1>4 DEF NodeInfos
<1>6. me.target \in Clusters
  BY <1>4, <1>5 DEF Nodes
<1>7. /\ ThisNode(p).name.role \in Roles
      /\ ThisNode(p).name.index \in Nat \ {0}
  BY <1>5 DEF Nodes
<1>8. ThisVolume(p) = [owner |-> Sanitized[me.target], role |-> ThisNode(p).name.role,
                       index |-> ThisNode(p).name.index, kind |-> me.kind]
  BY <1>4 DEF ThisVolume, nodeVolumeName
<1>9. ThisVolume(p) \in VolumeNames /\ ThisVolume(p).owner = Sanitized[me.target]
  BY <1>2, <1>6, <1>7, <1>8 DEF VolumeNames
<1> QED
  BY <1>4, <1>6, <1>9

-----------------------------------------------------------------------------
(* The state directory's operations keep its part of the invariant.          *)

(* A missing record and a torn one list no nodes.                            *)
LEMMA EmptyRecords ==
  /\ NoRecord \in Records /\ NoRecord.nodes = <<>>
  /\ TornRecord \in Records /\ TornRecord.nodes = <<>>
  /\ \A c : NodesOf(<<>>, c)
<1>1. <<>> \in Seq(NodeInfos)
  OBVIOUS
<1>2. NoRecord \in Records /\ NoRecord.nodes = <<>>
  BY <1>1 DEF NoRecord, Records
<1>3. TornRecord \in Records /\ TornRecord.nodes = <<>>
  BY <1>1 DEF TornRecord, NoRecord, Records
<1> QED
  BY <1>2, <1>3 DEF NodesOf

(* The runtime's part depends on the runtime alone.                          *)
LEMMA RuntimeUntouched ==
  ASSUME RuntimeSound, UNCHANGED runtimeVars
  PROVE  RuntimeSound'
BY DEF RuntimeSound, RuntimeTypeOK, runtimeVars, NamedNetworks

(* The state directory's part depends on the files alone.                    *)
LEMMA StateUntouched ==
  ASSUME StateSound, UNCHANGED stateVars
  PROVE  StateSound'
BY DEF StateSound, StateTypeOK, stateVars

(* MkdirAll adds a directory of some cluster.                                *)
LEMMA MakeDirSound ==
  ASSUME StateSound, NEW c \in Clusters, NEW r, NEW err, MakeDir(c, r, err)
  PROVE  StateSound'
BY DEF MakeDir, StateSound, StateTypeOK

(* A record rewritten to one of its own cluster's nodes.                     *)
LEMMA RecordSound ==
  ASSUME StateSound, dirs' = dirs, NEW c \in Clusters, NEW record \in Records,
         NodesOf(record.nodes, c), yaml' \in {yaml, [yaml EXCEPT ![c] = record]}
  PROVE  StateSound'
<1>1. yaml \in [Clusters -> Records]
  BY DEF StateSound, StateTypeOK
<1>2. yaml' \in [Clusters -> Records]
  BY <1>1
<1>3. \A d \in Clusters : yaml'[d] = yaml[d] \/ (d = c /\ yaml'[d] = record)
  BY <1>1
<1>4. \A d \in Clusters : NodesOf(yaml'[d].nodes, d)
  BY <1>3 DEF StateSound
<1> QED
  BY <1>2, <1>4 DEF StateSound, StateTypeOK

(* os.Create leaves a record without nodes.                                  *)
LEMMA OpenRecordSound ==
  ASSUME StateSound, NEW c \in Clusters, NEW r, NEW err, OpenRecord(c, r, err)
  PROVE  StateSound'
<1>1. dirs' = dirs /\ yaml' \in {yaml, [yaml EXCEPT ![c] = TornRecord]}
  BY DEF OpenRecord
<1> QED
  BY <1>1, EmptyRecords, RecordSound

(* The encoder writes the nodes the create launched.                         *)
LEMMA WriteRecordSound ==
  ASSUME StateSound, NEW c \in Clusters, NEW nodes \in Seq(NodeInfos),
         NodesOf(nodes, c), NEW r, NEW err, WriteRecord(c, nodes, r, err)
  PROVE  StateSound'
<1> DEFINE record == [status |-> "saved", nodes |-> nodes, network |-> NetworkOf[c]]
<1>1. dirs' = dirs /\ yaml' \in {yaml, [yaml EXCEPT ![c] = record]}
  BY DEF WriteRecord
<1>2. record \in Records /\ record.nodes = nodes
  BY DEF Records
<1> HIDE DEF record
<1> QED
  BY <1>1, <1>2, RecordSound

(* Removed records list no nodes.                                            *)
LEMMA ForgetSound ==
  ASSUME StateSound, NEW name, dirs' \subseteq dirs,
         yaml' = [c \in Clusters |-> IF c \in clusterStatePath(name)
                                       THEN NoRecord ELSE yaml[c]]
  PROVE  StateSound'
<1>1. \A c \in Clusters : yaml'[c] \in {NoRecord, yaml[c]}
  OBVIOUS
<1>2. \A c \in Clusters : yaml[c] \in Records /\ NodesOf(yaml[c].nodes, c)
  BY DEF StateSound, StateTypeOK
<1>3. \A c \in Clusters : yaml'[c] \in Records /\ NodesOf(yaml'[c].nodes, c)
  BY <1>1, <1>2, EmptyRecords
<1>4. yaml' = [c \in Clusters |-> yaml'[c]]
  OBVIOUS
<1> QED
  BY <1>3, <1>4 DEF StateSound, StateTypeOK

(* RemoveAll's first half removes records.                                   *)
LEMMA RemoveRecordSound ==
  ASSUME StateSound, NEW name, NEW r, NEW err, RemoveRecord(name, r, err)
  PROVE  StateSound'
<1>1. CASE err
  BY <1>1, StateUntouched DEF RemoveRecord, stateVars
<1>2. CASE ~err
  BY <1>2, ForgetSound DEF RemoveRecord
<1> QED
  BY <1>1, <1>2

(* RemoveAll's second half removes the directory and what is left in it.     *)
LEMMA RemoveDirSound ==
  ASSUME StateSound, NEW name, NEW r, NEW err, RemoveDir(name, r, err)
  PROVE  StateSound'
<1>1. CASE err
  BY <1>1, StateUntouched DEF RemoveDir
<1>2. CASE ~err
  BY <1>2, ForgetSound DEF RemoveDir
<1> QED
  BY <1>1, <1>2

-----------------------------------------------------------------------------
(* Create's steps keep the invariant.                                        *)

(* A request that passes has a node for every later phase to work on.        *)
LEMMA ValidateSound ==
  ASSUME IInv, NEW p \in Procs, ValidateClusterRequest(p)
  PROVE  IInv'
<1>1. ProcSound /\ RuntimeSound' /\ StateSound'
  BY RuntimeUntouched, StateUntouched DEF IInv, ValidateClusterRequest
<1>2. proc[p].pc = "validate" /\ proc[p].pc \in CreatePhases
  BY DEF ValidateClusterRequest, CreatePhases
<1>3. CASE Fail(p, "request")
  BY <1>1, <1>2, <1>3, FailSound DEF IInv
<1>4. CASE \E i \in DOMAIN proc[p].work : proc[p].work[i].name.role = "controlplane"
  <2> DEFINE me == proc[p]
             new == [me EXCEPT !.pc = "stat"]
  <2>1. me \in Invocations /\ Sound(me)
    BY <1>1 DEF ProcSound, Sound
  <2>2. me.work \in Seq(NodeInfos)
    BY <2>1 DEF Invocations
  <2>3. 1 <= Len(me.work)
    BY <1>4, <2>2
  <2>4. me.pos <= Len(me.work)
    BY <1>2, <2>1, <2>3 DEF Sound
  <2>5. new \in Invocations
    BY <2>1 DEF Invocations, CreatePhases
  <2>6. /\ new.target = me.target /\ new.op = me.op /\ new.bad = me.bad
        /\ new.work = me.work /\ new.todo = me.todo /\ new.cur = me.cur
        /\ new.vols = me.vols /\ new.pc = "stat" /\ new.pos = me.pos
    BY <2>1 DEF Invocations
  <2>7. "stat" \notin DestroyPhases \cup SweepPhases
    BY DEF DestroyPhases, SweepPhases
  <2>8. Sound(new)
    <3> HIDE DEF me, new
    <3>1. me.pc \in CreatePhases
      BY <1>2 DEF me
    <3> QED
      BY <2>1, <2>4, <2>5, <2>6, <2>7, <3>1, AdvanceSound
  <2>9. Become(p, new)
    BY <1>2, <1>4 DEF ValidateClusterRequest, Goto
  <2> QED
    BY <1>1, <2>8, <2>9, BecomeSound DEF IInv
<1> QED
  BY <1>3, <1>4 DEF ValidateClusterRequest

(* A step of Create past the request's check goes on or gives up.            *)
LEMMA CreateContext ==
  ASSUME IInv, NEW p \in Procs, proc[p].pc \in CreatePhases \ {"validate"}
  PROVE  /\ RuntimeSound /\ StateSound /\ ProcSound
         /\ Sound(proc[p]) /\ proc[p] \in Invocations
         /\ proc[p].pc \in LoopPhases
         /\ proc[p].target \in Clusters
         /\ ThisNode(p) \in NodeInfos /\ ThisNode(p).name.cluster = proc[p].target
         /\ ThisVolume(p) \in VolumeNames
         /\ ThisVolume(p).owner = Sanitized[proc[p].target]
<1>1. ProcSound /\ Sound(proc[p]) /\ proc[p] \in Invocations
  BY DEF IInv, ProcSound, Sound
<1>2. proc[p].pc \in LoopPhases
  BY DEF LoopPhases
<1> QED
  BY <1>1, <1>2, InTheLoop DEF IInv

(* NewState's stat refuses or goes on.                                       *)
LEMMA NewStateStatSound ==
  ASSUME IInv, NEW p \in Procs, NewStateStat(p)
  PROVE  IInv'
<1>1. proc[p].pc \in CreatePhases \ {"validate"} /\ "mkdir" \in CreatePhases \ {"validate"}
  BY DEF NewStateStat, CreatePhases
<1>2. RuntimeSound' /\ StateSound'
  BY RuntimeUntouched, StateUntouched DEF IInv, NewStateStat, StatDir
<1>3. Fail(p, "exists") \/ Goto(p, "mkdir")
  BY DEF NewStateStat
<1> QED
  BY <1>1, <1>2, <1>3, CreateContext, FailSound, GotoSound DEF IInv

(* NewState's mkdir refuses or goes on, the directory being the target's.    *)
LEMMA NewStateMkdirSound ==
  ASSUME IInv, NEW p \in Procs, NewStateMkdir(p)
  PROVE  IInv'
<1>1. proc[p].pc \in CreatePhases \ {"validate"} /\ "network" \in CreatePhases \ {"validate"}
  BY DEF NewStateMkdir, CreatePhases
<1>2. PICK r \in FileOps, err \in BOOLEAN : MakeDir(proc[p].target, r, err)
  BY DEF NewStateMkdir
<1>3. RuntimeSound' /\ StateSound'
  BY <1>1, <1>2, CreateContext, RuntimeUntouched, MakeDirSound DEF NewStateMkdir
<1>4. Fail(p, "mkdir") \/ Goto(p, "network")
  BY DEF NewStateMkdir
<1> QED
  BY <1>1, <1>3, <1>4, CreateContext, FailSound, GotoSound DEF IInv

(* The step of ensureNetwork, on the request's network.                      *)
LEMMA EnsureNetworkStepSound ==
  ASSUME IInv, NEW p \in Procs, EnsureNetwork(p)
  PROVE  IInv'
<1>1. /\ proc[p].pc \in CreatePhases \ {"validate"}
      /\ {"volExists", "dns"} \subseteq CreatePhases \ {"validate"}
  BY DEF EnsureNetwork, CreatePhases
<1>2. PICK r \in Execs(p), err \in BOOLEAN : ensureNetwork(proc[p].net, r, err)
  BY DEF EnsureNetwork
<1>3. proc[p].net \in {NetworkOf[c] : c \in Clusters} \cup {NoNetwork}
  BY <1>1, CreateContext DEF Invocations
<1>4. RuntimeSound' /\ StateSound'
  BY <1>1, <1>2, <1>3, CreateContext, EnsureNetworkSound, StateUntouched
     DEF EnsureNetwork
<1>5. \/ Fail(p, "network")
      \/ \E phase \in {"volExists", "dns"} : Goto(p, phase)
  BY DEF EnsureNetwork
<1> QED
  BY <1>1, <1>4, <1>5, CreateContext, FailSound, GotoSound DEF IInv

(* The resolver precheck reads only.                                         *)
LEMMA CheckDNSDomainSound ==
  ASSUME IInv, NEW p \in Procs, CheckDNSDomain(p)
  PROVE  IInv'
<1>1. /\ proc[p].pc \in CreatePhases \ {"validate"}
      /\ "volExists" \in CreatePhases \ {"validate"}
  BY DEF CheckDNSDomain, CreatePhases
<1>2. RuntimeSound' /\ StateSound'
  BY RuntimeUntouched, StateUntouched DEF IInv, CheckDNSDomain
<1>3. Fail(p, "dns") \/ Goto(p, "volExists")
  BY DEF CheckDNSDomain
<1> QED
  BY <1>1, <1>2, <1>3, CreateContext, FailSound, GotoSound DEF IInv

(* The volume check reads only.                                              *)
LEMMA CheckVolumeSound ==
  ASSUME IInv, NEW p \in Procs, CheckVolume(p)
  PROVE  IInv'
<1>1. /\ proc[p].pc \in CreatePhases \ {"validate"}
      /\ "volCreate" \in CreatePhases \ {"validate"}
  BY DEF CheckVolume, CreatePhases
<1>2. RuntimeSound' /\ StateSound'
  BY RuntimeUntouched, StateUntouched DEF IInv, CheckVolume, volumeExists
<1>3. Goto(p, "volCreate") \/ Fail(p, "stale") \/ Fail(p, "check")
  BY DEF CheckVolume
<1> QED
  BY <1>1, <1>2, <1>3, CreateContext, FailSound, GotoSound DEF IInv

(* prepareNodeVolumes creates a volume named and labelled for the target.    *)
LEMMA CreateVolumeSound ==
  ASSUME IInv, NEW p \in Procs, CreateVolume(p)
  PROVE  IInv'
<1>1. proc[p].pc \in CreatePhases \ {"validate"}
  BY DEF CreateVolume, CreatePhases
<1>2. PICK r \in Execs(p), err \in BOOLEAN :
        volumeCreate(ThisVolume(p), proc[p].target, r, err)
  BY DEF CreateVolume
<1>3. RuntimeSound' /\ StateSound'
  BY <1>1, <1>2, CreateContext, VolumeCreateSound, StateUntouched DEF CreateVolume
<1>4. \/ Fail(p, "create")
      \/ Become(p, NextVolume(proc[p], "volExists", "volExists", "launch"))
  BY DEF CreateVolume
<1>5. LoopPair(proc[p], "volExists", "launch")
  BY <1>1 DEF LoopPair, CreatePhases
<1>6. Sound(NextVolume(proc[p], "volExists", "volExists", "launch"))
  BY <1>1, <1>5, CreateContext, NextVolumeSound
<1> QED
  BY <1>1, <1>3, <1>4, <1>6, CreateContext, FailSound, BecomeSound DEF IInv

(* createNode launches the current node of the target.                       *)
LEMMA LaunchSound ==
  ASSUME IInv, NEW p \in Procs, Launch(p)
  PROVE  IInv'
<1>1. /\ proc[p].pc \in CreatePhases \ {"validate"}
      /\ "address" \in CreatePhases \ {"validate"}
  BY DEF Launch, CreatePhases
<1>2. PICK r \in Execs(p), err \in BOOLEAN : runNode(ThisNode(p), r, err)
  BY DEF Launch
<1>3. RuntimeSound' /\ StateSound'
  BY <1>1, <1>2, CreateContext, RunNodeSound, StateUntouched DEF Launch
<1>4. Fail(p, "launch") \/ Goto(p, "address")
  BY DEF Launch
<1> QED
  BY <1>1, <1>3, <1>4, CreateContext, FailSound, GotoSound DEF IInv

(* Waiting for the address moves to the next node.                           *)
LEMMA WaitForIPv4Sound ==
  ASSUME IInv, NEW p \in Procs, WaitForIPv4(p)
  PROVE  IInv'
<1>1. proc[p].pc \in CreatePhases \ {"validate"}
  BY DEF WaitForIPv4, CreatePhases
<1>2. RuntimeSound' /\ StateSound'
  BY RuntimeUntouched, StateUntouched DEF IInv, WaitForIPv4
<1>3. \/ Fail(p, "address")
      \/ Become(p, NextNode(proc[p], "launch", "reconcile"))
  BY DEF WaitForIPv4
<1>4. LoopPair(proc[p], "launch", "reconcile")
  BY <1>1 DEF LoopPair, CreatePhases
<1>5. Sound(NextNode(proc[p], "launch", "reconcile"))
  BY <1>1, <1>4, CreateContext, NextNodeSound
<1> QED
  BY <1>1, <1>2, <1>3, <1>5, CreateContext, FailSound, BecomeSound DEF IInv

(* Applying a node's config moves to the next node or gives up.              *)
LEMMA ReconcileConfigsSound ==
  ASSUME IInv, NEW p \in Procs, ReconcileConfigs(p)
  PROVE  IInv'
<1>1. proc[p].pc \in CreatePhases \ {"validate"}
  BY DEF ReconcileConfigs, CreatePhases
<1>2. RuntimeSound' /\ StateSound'
  BY RuntimeUntouched, StateUntouched DEF IInv, ReconcileConfigs
<1>3. \/ Fail(p, "reconcile")
      \/ Become(p, NextNode(proc[p], "reconcile", "saveOpen"))
  BY DEF ReconcileConfigs
<1>4. LoopPair(proc[p], "reconcile", "saveOpen")
  BY <1>1 DEF LoopPair, CreatePhases
<1>5. Sound(NextNode(proc[p], "reconcile", "saveOpen"))
  BY <1>1, <1>4, CreateContext, NextNodeSound
<1> QED
  BY <1>1, <1>2, <1>3, <1>5, CreateContext, FailSound, BecomeSound DEF IInv

(* Save's first half truncates the target's record.                          *)
LEMMA SaveOpenSound ==
  ASSUME IInv, NEW p \in Procs, SaveOpen(p)
  PROVE  IInv'
<1>1. /\ proc[p].pc \in CreatePhases \ {"validate"}
      /\ "saveWrite" \in CreatePhases \ {"validate"}
  BY DEF SaveOpen, CreatePhases
<1>2. PICK r \in FileOps, err \in BOOLEAN : OpenRecord(proc[p].target, r, err)
  BY DEF SaveOpen
<1>3. RuntimeSound' /\ StateSound'
  BY <1>1, <1>2, CreateContext, RuntimeUntouched, OpenRecordSound DEF SaveOpen
<1>4. Fail(p, "save") \/ Goto(p, "saveWrite")
  BY DEF SaveOpen
<1> QED
  BY <1>1, <1>3, <1>4, CreateContext, FailSound, GotoSound DEF IInv

(* Save's second half writes the target's nodes.                             *)
LEMMA SaveWriteSound ==
  ASSUME IInv, NEW p \in Procs, SaveWrite(p)
  PROVE  IInv'
<1>1. /\ proc[p].pc \in CreatePhases \ {"validate"}
      /\ "talosconfig" \in CreatePhases \ {"validate"}
  BY DEF SaveWrite, CreatePhases
<1>2. PICK r \in FileOps, err \in BOOLEAN :
        WriteRecord(proc[p].target, proc[p].work, r, err)
  BY DEF SaveWrite
<1>3. proc[p].work \in Seq(NodeInfos) /\ NodesOf(proc[p].work, proc[p].target)
  BY <1>1, CreateContext DEF Sound, Invocations
<1>4. RuntimeSound' /\ StateSound'
  BY <1>1, <1>2, <1>3, CreateContext, RuntimeUntouched, WriteRecordSound DEF SaveWrite
<1>5. Fail(p, "save") \/ Goto(p, "talosconfig")
  BY DEF SaveWrite
<1> QED
  BY <1>1, <1>4, <1>5, CreateContext, FailSound, GotoSound DEF IInv

(* Saving the talosconfig may make the target's directory again.             *)
LEMMA SaveTalosconfigSound ==
  ASSUME IInv, NEW p \in Procs, SaveTalosconfig(p)
  PROVE  IInv'
<1>1. proc[p].pc \in CreatePhases \ {"validate"}
  BY DEF SaveTalosconfig, CreatePhases
<1>2. PICK r \in FileOps, err \in BOOLEAN : MakeDir(proc[p].target, r, err)
  BY DEF SaveTalosconfig
<1>3. RuntimeSound' /\ StateSound'
  BY <1>1, <1>2, CreateContext, RuntimeUntouched, MakeDirSound DEF SaveTalosconfig
<1>4. Fail(p, "talosconfig") \/ Goto(p, "returned")
  BY DEF SaveTalosconfig
<1> QED
  BY <1>1, <1>3, <1>4, CreateContext, FailSound, GotoSound DEF IInv

(* Every step of Create keeps the invariant.                                 *)
LEMMA CreateStepSound ==
  ASSUME IInv, NEW p \in Procs, CreateStep(p)
  PROVE  IInv'
BY ValidateSound, NewStateStatSound, NewStateMkdirSound, EnsureNetworkStepSound,
   CheckDNSDomainSound, CheckVolumeSound, CreateVolumeSound, LaunchSound,
   WaitForIPv4Sound, ReconcileConfigsSound, SaveOpenSound, SaveWriteSound,
   SaveTalosconfigSound
   DEF CreateStep

-----------------------------------------------------------------------------
(* Destroy's steps keep the invariant.                                       *)

(* Where the sweep starts: at its lists, or past them for the empty name.    *)
LEMMA SweepPhase ==
  ASSUME NEW name
  PROVE  /\ Sweep(name) \in {"listC", "delNet"}
         /\ Sweep(name) = "listC" => name # EmptyName
BY DEF Sweep

(* Reflect takes over the record's nodes, which are the target's, or none.   *)
LEMMA ReflectSound ==
  ASSUME IInv, NEW p \in Procs, Reflect(p)
  PROVE  IInv'
<1> DEFINE me == proc[p]
           record == ReadState(me.target)
           phase == IF record.nodes = <<>> THEN Sweep(me.target) ELSE "stop"
           new == [me EXCEPT !.work = record.nodes, !.net = record.network,
                             !.pc = phase]
<1>1. /\ RuntimeSound' /\ StateSound' /\ ProcSound /\ me.pc = "reflect"
      /\ Sound(me) /\ me \in Invocations
  BY RuntimeUntouched, StateUntouched DEF IInv, Reflect, ProcSound, Sound
<1>2. CASE Fail(p, "reflect")
  BY <1>1, <1>2, FailSound DEF IInv
<1>3. CASE Become(p, new)
  <2>1. me.target \in Clusters \cup {EmptyName} /\ me.pos \in Nat \ {0}
    BY <1>1 DEF Invocations
  <2>2. record \in Records /\ NodesOf(record.nodes, me.target)
    BY <2>1, EmptyRecords DEF ReadState, IInv, StateSound, StateTypeOK
  <2>3. /\ record.nodes \in Seq(NodeInfos)
        /\ record.network \in {NetworkOf[c] : c \in Clusters} \cup {NoNetwork}
    BY <2>2 DEF Records
  <2>4. phase \in {"listC", "delNet", "stop"} /\ (phase = "listC" => me.target \in Clusters)
    BY <2>1, SweepPhase
  <2>5. phase = "stop" => record.nodes # <<>>
    BY SweepPhase
  <2>6. me.pc \in DestroyPhases /\ phase \in DestroyPhases
    BY <1>1, <2>4 DEF DestroyPhases
  <2> HIDE DEF record, phase
  <2>7. new \in Invocations
    BY <1>1, <2>3, <2>6 DEF Invocations
  <2>8. /\ new.target = me.target /\ new.op = me.op /\ new.bad = me.bad
        /\ new.work = record.nodes /\ new.todo = me.todo /\ new.cur = me.cur
        /\ new.vols = me.vols /\ new.pc = phase /\ new.pos = me.pos
    BY <1>1 DEF Invocations
  <2>9. me.pos = 1
    BY <1>1 DEF Sound
  <2>10. phase \in LoopPhases => me.pos <= Len(record.nodes)
    BY <2>3, <2>4, <2>5, <2>9 DEF LoopPhases, CreatePhases
  <2>11. phase \notin CreatePhases /\ phase \notin {"validate", "reflect"}
         /\ (phase \in SweepPhases => me.target \in Clusters)
    BY <2>4 DEF CreatePhases, SweepPhases
  <2>12. Sound(new)
    <3> HIDE DEF me, new
    <3> QED
      BY <1>1, <2>2, <2>6, <2>7, <2>8, <2>10, <2>11, AdvanceSound
  <2> QED
    BY <1>1, <1>3, <2>12, BecomeSound DEF IInv
<1> QED
  BY <1>2, <1>3 DEF Reflect

(* What a step of Destroy changes besides the runtime: a loop's or sweep's   *)
(* bookkeeping, and the errors noted.                                        *)
LEMMA DestroyContext ==
  ASSUME IInv, NEW p \in Procs, proc[p].pc \in DestroyPhases
  PROVE  /\ RuntimeSound /\ StateSound /\ ProcSound
         /\ Sound(proc[p]) /\ proc[p] \in Invocations
         /\ proc[p].pc \in LoopPhases =>
              /\ proc[p].target \in Clusters /\ proc[p].pos <= Len(proc[p].work)
              /\ ThisNode(p) \in NodeInfos /\ ThisNode(p).name.cluster = proc[p].target
              /\ ThisVolume(p) \in VolumeNames
              /\ ThisVolume(p).owner = Sanitized[proc[p].target]
         /\ proc[p].pc \in SweepPhases => proc[p].target \in Clusters
         /\ proc[p].todo \in SUBSET NodeInfos /\ proc[p].cur \in SUBSET NodeInfos
         /\ proc[p].vols \in SUBSET VolumeNames
<1>1. ProcSound /\ Sound(proc[p]) /\ proc[p] \in Invocations
  BY DEF IInv, ProcSound, Sound
<1>2. /\ OwnContainers(proc[p].todo, proc[p].target)
      /\ OwnContainers(proc[p].cur, proc[p].target)
      /\ proc[p].pc \in SweepPhases => proc[p].target \in Clusters
      /\ proc[p].pc \in LoopPhases => proc[p].pos <= Len(proc[p].work)
  BY <1>1 DEF Sound
<1>3. proc[p].vols \in SUBSET VolumeNames
  BY <1>1 DEF Invocations
<1> QED
  BY <1>1, <1>2, <1>3, InTheLoop DEF IInv, OwnContainers

(* The recorded pass stops the current node and notes a failure.             *)
LEMMA StopRecordedSound ==
  ASSUME IInv, NEW p \in Procs, StopRecorded(p)
  PROVE  IInv'
<1> DEFINE me == proc[p]
<1>1. /\ me.pc \in DestroyPhases /\ me.pc \in LoopPhases
      /\ "rm" \in DestroyPhases
      /\ "rm" \notin CreatePhases \cup SweepPhases \cup {"validate", "reflect"}
  BY DEF StopRecorded, DestroyPhases, LoopPhases, CreatePhases, SweepPhases
<1>2. PICK r \in Execs(p), err \in BOOLEAN :
        /\ stop(ThisNode(p), r, err)
        /\ Become(p, [me EXCEPT !.pc = "rm", !.badC = Note(err, @, ThisNode(p))])
  BY DEF StopRecorded
<1>3. RuntimeSound' /\ StateSound'
  BY <1>1, <1>2, DestroyContext, StopSound, StateUntouched DEF StopRecorded
<1> DEFINE badC == Note(err, me.badC, ThisNode(p))
           new == [me EXCEPT !.pc = "rm", !.badC = badC]
<1>4. me \in Invocations /\ ThisNode(p) \in NodeInfos \cup Foreign
      /\ me.badC \in SUBSET (NodeInfos \cup Foreign)
  BY <1>1, DestroyContext DEF Invocations
<1>5. badC \in SUBSET (NodeInfos \cup Foreign)
  BY <1>4 DEF Note
<1> HIDE DEF badC
<1>6. new \in Invocations
  BY <1>1, <1>4, <1>5 DEF Invocations
<1>7. /\ new.target = me.target /\ new.op = me.op /\ new.bad = me.bad
      /\ new.work = me.work /\ new.todo = me.todo /\ new.cur = me.cur
      /\ new.vols = me.vols /\ new.pc = "rm" /\ new.pos = me.pos
  BY <1>4 DEF Invocations
<1>8. Sound(new)
  <2>1. Sound(me) /\ me.pos <= Len(me.work)
    BY <1>1, DestroyContext
  <2> HIDE DEF me, new
  <2> QED
    BY <1>1, <1>6, <1>7, <2>1, AdvanceSound
<1>9. Become(p, new)
  BY <1>2 DEF badC
<1> QED
  BY <1>1, <1>3, <1>8, <1>9, DestroyContext, BecomeSound DEF IInv

(* It removes the current node and notes a failure.                          *)
LEMMA RemoveRecordedSound ==
  ASSUME IInv, NEW p \in Procs, RemoveRecorded(p)
  PROVE  IInv'
<1> DEFINE me == proc[p]
<1>1. /\ me.pc \in DestroyPhases /\ me.pc \in LoopPhases
      /\ "delVol" \in DestroyPhases
      /\ "delVol" \notin CreatePhases \cup SweepPhases \cup {"validate", "reflect"}
  BY DEF RemoveRecorded, DestroyPhases, LoopPhases, CreatePhases, SweepPhases
<1>2. PICK r \in Execs(p), err \in BOOLEAN :
        /\ remove(ThisNode(p), r, err)
        /\ Become(p, [me EXCEPT !.pc = "delVol", !.badC = Note(err, @, ThisNode(p))])
  BY DEF RemoveRecorded
<1>3. RuntimeSound' /\ StateSound'
  BY <1>1, <1>2, DestroyContext, RemoveSound, StateUntouched DEF RemoveRecorded
<1> DEFINE badC == Note(err, me.badC, ThisNode(p))
           new == [me EXCEPT !.pc = "delVol", !.badC = badC]
<1>4. me \in Invocations /\ ThisNode(p) \in NodeInfos \cup Foreign
      /\ me.badC \in SUBSET (NodeInfos \cup Foreign)
  BY <1>1, DestroyContext DEF Invocations
<1>5. badC \in SUBSET (NodeInfos \cup Foreign)
  BY <1>4 DEF Note
<1> HIDE DEF badC
<1>6. new \in Invocations
  BY <1>1, <1>4, <1>5 DEF Invocations
<1>7. /\ new.target = me.target /\ new.op = me.op /\ new.bad = me.bad
      /\ new.work = me.work /\ new.todo = me.todo /\ new.cur = me.cur
      /\ new.vols = me.vols /\ new.pc = "delVol" /\ new.pos = me.pos
  BY <1>4 DEF Invocations
<1>8. Sound(new)
  <2>1. Sound(me) /\ me.pos <= Len(me.work)
    BY <1>1, DestroyContext
  <2> HIDE DEF me, new
  <2> QED
    BY <1>1, <1>6, <1>7, <2>1, AdvanceSound
<1>9. Become(p, new)
  BY <1>2 DEF badC
<1> QED
  BY <1>1, <1>3, <1>8, <1>9, DestroyContext, BecomeSound DEF IInv

(* It deletes the current volume, notes a failure, and goes on to the next   *)
(* volume, the next node, or the sweep.                                      *)
LEMMA DeleteRecordedVolumeSound ==
  ASSUME IInv, NEW p \in Procs, DeleteRecordedVolume(p)
  PROVE  IInv'
<1> DEFINE me == proc[p]
<1>1. /\ me.pc = "delVol" /\ me.pc \in DestroyPhases /\ me.pc \in LoopPhases
      /\ me.pc \notin CreatePhases \cup SweepPhases \cup {"validate", "reflect"}
  BY DEF DeleteRecordedVolume, DestroyPhases, LoopPhases, CreatePhases, SweepPhases
<1>2. PICK r \in Execs(p), err \in BOOLEAN :
        /\ volumeDelete(ThisVolume(p), r, err)
        /\ Become(p, NextVolume([me EXCEPT !.badV = Note(err, @, ThisVolume(p))],
                                "delVol", "stop", Sweep(me.target)))
  BY DEF DeleteRecordedVolume
<1>3. RuntimeSound' /\ StateSound'
  BY <1>1, <1>2, DestroyContext, VolumeDeleteSound, StateUntouched
     DEF DeleteRecordedVolume
<1> DEFINE badV == Note(err, me.badV, ThisVolume(p))
           mid == [me EXCEPT !.badV = badV]
<1>4. me \in Invocations /\ ThisVolume(p) \in VolumeNames
      /\ me.badV \in SUBSET VolumeNames
  BY <1>1, DestroyContext DEF Invocations
<1>5. badV \in SUBSET VolumeNames
  BY <1>4 DEF Note
<1> HIDE DEF badV
<1>6. mid \in Invocations
  BY <1>4, <1>5 DEF Invocations
<1>7. /\ mid.target = me.target /\ mid.op = me.op /\ mid.bad = me.bad
      /\ mid.work = me.work /\ mid.todo = me.todo /\ mid.cur = me.cur
      /\ mid.vols = me.vols /\ mid.pc = me.pc /\ mid.pos = me.pos
  BY <1>4 DEF Invocations
<1>8. Sound(mid)
  <2>1. Sound(me) /\ me.pos <= Len(me.work)
    BY <1>1, DestroyContext
  <2> HIDE DEF me, mid
  <2> QED
    BY <1>1, <1>6, <1>7, <2>1, AdvanceSound
<1>9. /\ mid.pc \in LoopPhases /\ mid.target \in Clusters
      /\ LoopPair(mid, "delVol", Sweep(me.target)) /\ LoopPair(mid, "stop", Sweep(me.target))
  BY <1>1, <1>7, DestroyContext, SweepPhase DEF LoopPair
<1>10. Become(p, NextVolume(mid, "delVol", "stop", Sweep(me.target)))
  BY <1>2 DEF badV
<1> HIDE DEF mid
<1>11. Sound(NextVolume(mid, "delVol", "stop", Sweep(me.target)))
  BY <1>8, <1>9, NextVolumeSound
<1> QED
  BY <1>1, <1>3, <1>10, <1>11, DestroyContext, BecomeSound DEF IInv

(* What carries the target's label is a node of the target: a container      *)
(* without a label reads as the empty name, which no sweep asks for.         *)
LEMMA ListContainersSound ==
  ASSUME IInv, NEW p \in Procs, ListContainers(p)
  PROVE  IInv'
<1> DEFINE me == proc[p]
           ids == containersMatchingLabel(me.target)
<1>1. /\ me.pc = "listC" /\ me.pc \in DestroyPhases /\ me.pc \in SweepPhases
      /\ {"listV", "sweepStop"} \subseteq DestroyPhases
      /\ {"listV", "sweepStop"} \cap (CreatePhases \cup LoopPhases \cup {"validate", "reflect"}) = {}
  BY DEF ListContainers, DestroyPhases, LoopPhases, CreatePhases, SweepPhases
<1>2. RuntimeSound' /\ StateSound'
  BY <1>1, DestroyContext, RuntimeUntouched, StateUntouched DEF ListContainers
<1>3. Sound(me) /\ me \in Invocations /\ me.target \in Clusters /\ RuntimeSound
  BY <1>1, DestroyContext
<1>4. OwnContainers(ids, me.target)
  <2> SUFFICES ASSUME NEW x \in containers, x.label = me.target
               PROVE  x.id \in NodeInfos /\ x.id.name.cluster = me.target
    BY DEF OwnContainers, containersMatchingLabel
  <2>1. me.target # EmptyName
    BY <1>3, IdentityAssumption
  <2>2. ForeignContainer(x) \/ NodeContainer(x)
    BY <1>3 DEF RuntimeSound, ContainersOwned
  <2> QED
    BY <2>1, <2>2 DEF ForeignContainer, NodeContainer
<1>5. ids \in SUBSET (NodeInfos \cup Foreign)
  BY <1>4 DEF OwnContainers
<1> HIDE DEF ids
<1>6. CASE Become(p, [me EXCEPT !.pc = "listV", !.bad = me.bad \cup {"listC"}])
  <2> DEFINE new == [me EXCEPT !.pc = "listV", !.bad = me.bad \cup {"listC"}]
  <2>1. new \in Invocations
    BY <1>1, <1>3 DEF Invocations
  <2>2. /\ new.target = me.target /\ new.op = me.op
        /\ new.work = me.work /\ new.todo = me.todo /\ new.cur = me.cur
        /\ new.vols = me.vols /\ new.pc = "listV" /\ new.pos = me.pos
    BY <1>3 DEF Invocations
  <2>3. Sound(new)
    <3> HIDE DEF me, new
    <3> QED
      BY <1>1, <1>3, <2>1, <2>2, AdvanceSound
  <2> QED
    BY <1>1, <1>2, <1>6, <2>3, DestroyContext, BecomeSound DEF IInv
<1>7. ASSUME NEW phase \in {"listV", "sweepStop"},
             Become(p, [me EXCEPT !.todo = ids, !.pc = phase])
      PROVE  IInv'
  <2> DEFINE new == [me EXCEPT !.todo = ids, !.pc = phase]
  <2>1. new \in Invocations
    BY <1>1, <1>3, <1>5 DEF Invocations
  <2>2. /\ new.target = me.target /\ new.op = me.op /\ new.bad = me.bad
        /\ new.work = me.work /\ new.todo = ids /\ new.cur = me.cur
        /\ new.vols = me.vols /\ new.pc = phase /\ new.pos = me.pos
    BY <1>3 DEF Invocations
  <2>3. Sound(new)
    <3>1. me.op = "destroy" /\ NodesOf(me.work, me.target)
          /\ OwnContainers(me.cur, me.target) /\ OwnVolumes(me.vols, me.target)
      BY <1>1, <1>3 DEF Sound
    <3> HIDE DEF me, new
    <3> QED
      BY <1>1, <1>3, <1>4, <2>1, <2>2, <3>1 DEF Sound
  <2> QED
    BY <1>1, <1>2, <1>7, <2>3, DestroyContext, BecomeSound DEF IInv
<1> QED
  BY <1>6, <1>7 DEF ListContainers, ids

(* The sweep stops one of the listed containers.                             *)
LEMMA SweepStopSound ==
  ASSUME IInv, NEW p \in Procs, SweepStop(p)
  PROVE  IInv'
<1> DEFINE me == proc[p]
<1>1. /\ me.pc \in DestroyPhases /\ me.pc \in SweepPhases
      /\ "sweepRm" \in DestroyPhases
      /\ "sweepRm" \notin CreatePhases \cup LoopPhases \cup {"validate", "reflect"}
  BY DEF SweepStop, DestroyPhases, LoopPhases, CreatePhases, SweepPhases
<1>2. PICK id \in me.todo, r \in Execs(p), err \in BOOLEAN :
        /\ stop(id, r, err)
        /\ Become(p, [me EXCEPT !.pc = "sweepRm", !.cur = {id},
                                !.badC = Note(err, @, id)])
  BY DEF SweepStop
<1>3. RuntimeSound' /\ StateSound'
  BY <1>1, <1>2, DestroyContext, StopSound, StateUntouched DEF SweepStop
<1> DEFINE badC == Note(err, me.badC, id)
           new == [me EXCEPT !.pc = "sweepRm", !.cur = {id}, !.badC = badC]
<1>4. me \in Invocations /\ id \in NodeInfos \cup Foreign
      /\ me.badC \in SUBSET (NodeInfos \cup Foreign)
  BY <1>1, DestroyContext DEF Invocations
<1>5. badC \in SUBSET (NodeInfos \cup Foreign) /\ {id} \in SUBSET (NodeInfos \cup Foreign)
  BY <1>4 DEF Note
<1> HIDE DEF badC
<1>6. new \in Invocations
  BY <1>1, <1>4, <1>5 DEF Invocations
<1>7. /\ new.target = me.target /\ new.op = me.op /\ new.bad = me.bad
      /\ new.work = me.work /\ new.todo = me.todo /\ new.cur = {id}
      /\ new.vols = me.vols /\ new.pc = "sweepRm"
  BY <1>4 DEF Invocations
<1>8. Sound(new)
  <2>1. Sound(me) /\ me.target \in Clusters
    BY <1>1, DestroyContext
  <2>2. {id} \subseteq me.todo \cup me.cur
    BY <1>2
  <2> HIDE DEF me, new
  <2> QED
    BY <1>1, <1>6, <1>7, <2>1, <2>2, AdvanceSound
<1>9. Become(p, new)
  BY <1>2 DEF badC
<1> QED
  BY <1>1, <1>3, <1>8, <1>9, DestroyContext, BecomeSound DEF IInv

(* It removes the one it stopped.                                            *)
LEMMA SweepRemoveSound ==
  ASSUME IInv, NEW p \in Procs, SweepRemove(p)
  PROVE  IInv'
<1> DEFINE me == proc[p]
<1>1. /\ me.pc \in DestroyPhases /\ me.pc \in SweepPhases
      /\ {"listV", "sweepStop"} \subseteq DestroyPhases
      /\ {"listV", "sweepStop"} \cap (CreatePhases \cup LoopPhases \cup {"validate", "reflect"}) = {}
  BY DEF SweepRemove, DestroyPhases, LoopPhases, CreatePhases, SweepPhases
<1>2. PICK id \in me.cur, r \in Execs(p), err \in BOOLEAN :
        /\ remove(id, r, err)
        /\ Become(p, [me EXCEPT
             !.pc = IF me.todo = {id} THEN "listV" ELSE "sweepStop",
             !.cur = {}, !.todo = @ \ {id}, !.badC = Note(err, @, id)])
  BY DEF SweepRemove
<1>3. RuntimeSound' /\ StateSound'
  BY <1>1, <1>2, DestroyContext, RemoveSound, StateUntouched DEF SweepRemove
<1> DEFINE badC == Note(err, me.badC, id)
           phase == IF me.todo = {id} THEN "listV" ELSE "sweepStop"
           new == [me EXCEPT !.pc = phase, !.cur = {}, !.todo = me.todo \ {id},
                             !.badC = badC]
<1>4. me \in Invocations /\ id \in NodeInfos \cup Foreign
      /\ me.badC \in SUBSET (NodeInfos \cup Foreign)
      /\ me.todo \ {id} \in SUBSET (NodeInfos \cup Foreign)
  BY <1>1, DestroyContext DEF Invocations
<1>5. badC \in SUBSET (NodeInfos \cup Foreign) /\ phase \in {"listV", "sweepStop"}
  BY <1>4 DEF Note
<1>6. Become(p, new)
  BY <1>2
<1> HIDE DEF badC, phase
<1>7. new \in Invocations
  <2>1. phase \in {"idle", "returned"} \cup CreatePhases \cup DestroyPhases
    BY <1>1, <1>5
  <2>2. me \in Invocations
    BY <1>4
  <2> HIDE DEF me
  <2> QED
    BY <1>4, <1>5, <2>1, <2>2 DEF Invocations
<1>8. /\ new.target = me.target /\ new.op = me.op /\ new.bad = me.bad
      /\ new.work = me.work /\ new.todo = me.todo \ {id} /\ new.cur = {}
      /\ new.vols = me.vols /\ new.pc = phase
  BY <1>4 DEF Invocations
<1>9. Sound(new)
  <2>1. Sound(me) /\ me.target \in Clusters
    BY <1>1, DestroyContext
  <2> HIDE DEF me, new
  <2> QED
    BY <1>1, <1>5, <1>7, <1>8, <2>1, AdvanceSound
<1> QED
  BY <1>1, <1>3, <1>6, <1>9, DestroyContext, BecomeSound DEF IInv

(* A volume with the target's label has the target's name in it.             *)
LEMMA ListVolumesSound ==
  ASSUME IInv, NEW p \in Procs, ListVolumes(p)
  PROVE  IInv'
<1> DEFINE me == proc[p]
           names == volumesMatchingLabel(me.target)
<1>1. /\ me.pc = "listV" /\ me.pc \in DestroyPhases /\ me.pc \in SweepPhases
      /\ {"delNet", "sweepVol"} \subseteq DestroyPhases
      /\ {"delNet", "sweepVol"} \cap (CreatePhases \cup LoopPhases \cup {"validate", "reflect"}) = {}
  BY DEF ListVolumes, DestroyPhases, LoopPhases, CreatePhases, SweepPhases
<1>2. RuntimeSound' /\ StateSound'
  BY <1>1, DestroyContext, RuntimeUntouched, StateUntouched DEF ListVolumes
<1>3. Sound(me) /\ me \in Invocations /\ me.target \in Clusters /\ RuntimeSound
  BY <1>1, DestroyContext
<1>4. OwnVolumes(names, me.target)
  BY <1>3 DEF RuntimeSound, VolumesOwned, OwnVolumes, volumesMatchingLabel
<1>5. names \in SUBSET VolumeNames
  BY <1>3 DEF RuntimeSound, RuntimeTypeOK, Volumes, volumesMatchingLabel
<1> HIDE DEF names
<1>6. CASE Become(p, [me EXCEPT !.pc = "delNet", !.bad = me.bad \cup {"listV"}])
  <2> DEFINE new == [me EXCEPT !.pc = "delNet", !.bad = me.bad \cup {"listV"}]
  <2>1. new \in Invocations
    BY <1>1, <1>3 DEF Invocations
  <2>2. /\ new.target = me.target /\ new.op = me.op
        /\ new.work = me.work /\ new.todo = me.todo /\ new.cur = me.cur
        /\ new.vols = me.vols /\ new.pc = "delNet"
    BY <1>3 DEF Invocations
  <2>3. Sound(new)
    <3> HIDE DEF me, new
    <3> QED
      BY <1>1, <1>3, <2>1, <2>2, AdvanceSound
  <2> QED
    BY <1>1, <1>2, <1>6, <2>3, DestroyContext, BecomeSound DEF IInv
<1>7. ASSUME NEW phase \in {"delNet", "sweepVol"},
             Become(p, [me EXCEPT !.vols = names, !.pc = phase])
      PROVE  IInv'
  <2> DEFINE new == [me EXCEPT !.vols = names, !.pc = phase]
  <2>1. new \in Invocations
    BY <1>1, <1>3, <1>5 DEF Invocations
  <2>2. /\ new.target = me.target /\ new.op = me.op /\ new.bad = me.bad
        /\ new.work = me.work /\ new.todo = me.todo /\ new.cur = me.cur
        /\ new.vols = names /\ new.pc = phase
    BY <1>3 DEF Invocations
  <2>3. Sound(new)
    <3>1. me.op = "destroy" /\ NodesOf(me.work, me.target)
          /\ OwnContainers(me.cur, me.target) /\ OwnContainers(me.todo, me.target)
      BY <1>1, <1>3 DEF Sound
    <3> HIDE DEF me, new
    <3> QED
      BY <1>1, <1>3, <1>4, <2>1, <2>2, <3>1 DEF Sound
  <2> QED
    BY <1>1, <1>2, <1>7, <2>3, DestroyContext, BecomeSound DEF IInv
<1> QED
  BY <1>6, <1>7 DEF ListVolumes, names

(* The sweep deletes one of the listed volumes.                              *)
LEMMA SweepVolumeSound ==
  ASSUME IInv, NEW p \in Procs, SweepVolume(p)
  PROVE  IInv'
<1> DEFINE me == proc[p]
<1>1. /\ me.pc \in DestroyPhases /\ me.pc \in SweepPhases
      /\ {"delNet", "sweepVol"} \subseteq DestroyPhases
      /\ {"delNet", "sweepVol"} \cap (CreatePhases \cup LoopPhases \cup {"validate", "reflect"}) = {}
  BY DEF SweepVolume, DestroyPhases, LoopPhases, CreatePhases, SweepPhases
<1>2. PICK name \in me.vols, r \in Execs(p), err \in BOOLEAN :
        /\ volumeDelete(name, r, err)
        /\ Become(p, [me EXCEPT
             !.pc = IF me.vols = {name} THEN "delNet" ELSE "sweepVol",
             !.vols = @ \ {name}, !.badV = Note(err, @, name)])
  BY DEF SweepVolume
<1>3. RuntimeSound' /\ StateSound'
  BY <1>1, <1>2, DestroyContext, VolumeDeleteSound, StateUntouched DEF SweepVolume
<1> DEFINE badV == Note(err, me.badV, name)
           phase == IF me.vols = {name} THEN "delNet" ELSE "sweepVol"
           new == [me EXCEPT !.pc = phase, !.vols = me.vols \ {name}, !.badV = badV]
<1>4. me \in Invocations /\ name \in VolumeNames
      /\ me.badV \in SUBSET VolumeNames
      /\ me.vols \ {name} \in SUBSET VolumeNames
  BY <1>1, <1>2, DestroyContext DEF Invocations
<1>5. badV \in SUBSET VolumeNames /\ phase \in {"delNet", "sweepVol"}
  BY <1>4 DEF Note
<1>6. Become(p, new)
  BY <1>2
<1> HIDE DEF badV, phase
<1>7. new \in Invocations
  <2>1. phase \in {"idle", "returned"} \cup CreatePhases \cup DestroyPhases
    BY <1>1, <1>5
  <2>2. me \in Invocations
    BY <1>4
  <2> HIDE DEF me
  <2> QED
    BY <1>4, <1>5, <2>1, <2>2 DEF Invocations
<1>8. /\ new.target = me.target /\ new.op = me.op /\ new.bad = me.bad
      /\ new.work = me.work /\ new.todo = me.todo /\ new.cur = me.cur
      /\ new.vols = me.vols \ {name} /\ new.pc = phase
  BY <1>4 DEF Invocations
<1>9. Sound(new)
  <2>1. Sound(me) /\ me.target \in Clusters
    BY <1>1, DestroyContext
  <2> HIDE DEF me, new
  <2> QED
    BY <1>1, <1>5, <1>7, <1>8, <2>1, AdvanceSound
<1> QED
  BY <1>1, <1>3, <1>6, <1>9, DestroyContext, BecomeSound DEF IInv

(* The last three steps of Destroy only note errors.                         *)
LEMMA FinishSound ==
  ASSUME IInv, NEW p \in Procs, proc[p].pc \in DestroyPhases,
         NEW phase \in {"rmRecord", "rmDir", "returned"},
         NEW what \in {"network", "dir"}, NEW err,
         Become(p, [proc[p] EXCEPT !.pc = phase, !.bad = Note(err, proc[p].bad, what)])
  PROVE  ProcSound'
<1> DEFINE me == proc[p]
           bad == Note(err, me.bad, what)
           new == [me EXCEPT !.pc = phase, !.bad = bad]
<1>1. me \in Invocations /\ Sound(me) /\ ProcSound
  BY DestroyContext
<1>2. new \in Invocations
  <2>1. phase \in {"idle", "returned"} \cup CreatePhases \cup DestroyPhases
    BY DEF DestroyPhases
  <2>2. bad = me.bad \/ bad = me.bad \cup {what}
    BY DEF Note
  <2> HIDE DEF bad
  <2> QED
    BY <1>1, <2>1, <2>2 DEF Invocations
<1>3. /\ new.target = me.target /\ new.op = me.op
      /\ new.work = me.work /\ new.todo = me.todo /\ new.cur = me.cur
      /\ new.vols = me.vols /\ new.pc = phase
  BY <1>1 DEF Invocations
<1>4. phase \notin CreatePhases \cup LoopPhases \cup SweepPhases \cup {"validate", "reflect"}
  BY DEF CreatePhases, LoopPhases, SweepPhases
<1>5. Sound(new)
  <2>1. me.pc \in DestroyPhases
    OBVIOUS
  <2> HIDE DEF me, new
  <2> QED
    BY <1>1, <1>2, <1>3, <1>4, <2>1, AdvanceSound
<1> QED
  BY <1>1, <1>5, BecomeSound

(* The network step only removes a network.                                  *)
LEMMA DestroyNetworkStepSound ==
  ASSUME IInv, NEW p \in Procs, DestroyNetwork(p)
  PROVE  IInv'
<1>1. proc[p].pc \in DestroyPhases
  BY DEF DestroyNetwork, DestroyPhases
<1>2. PICK r \in Execs(p), err \in BOOLEAN :
        /\ destroyNetwork(proc[p].net, r, err)
        /\ Become(p, [proc[p] EXCEPT !.pc = "rmRecord",
                                     !.bad = Note(err, @, "network")])
  BY DEF DestroyNetwork
<1>3. RuntimeSound' /\ StateSound'
  BY <1>1, <1>2, DestroyContext, DestroyNetworkSound, StateUntouched DEF DestroyNetwork
<1> QED
  BY <1>1, <1>2, <1>3, FinishSound DEF IInv

(* RemoveAll begins.                                                         *)
LEMMA RemoveStateFilesSound ==
  ASSUME IInv, NEW p \in Procs, RemoveStateFiles(p)
  PROVE  IInv'
<1>1. proc[p].pc \in DestroyPhases
  BY DEF RemoveStateFiles, DestroyPhases
<1>2. PICK r \in FileOps, err \in BOOLEAN :
        /\ RemoveRecord(proc[p].target, r, err)
        /\ Become(p, [proc[p] EXCEPT !.pc = IF err THEN "returned" ELSE "rmDir",
                                     !.bad = Note(err, @, "dir")])
  BY DEF RemoveStateFiles
<1>3. RuntimeSound' /\ StateSound'
  BY <1>1, <1>2, DestroyContext, RuntimeUntouched, RemoveRecordSound
     DEF RemoveStateFiles
<1>4. PICK phase \in {"rmDir", "returned"} :
        Become(p, [proc[p] EXCEPT !.pc = phase, !.bad = Note(err, @, "dir")])
  BY <1>2
<1> QED
  BY <1>1, <1>3, <1>4, FinishSound DEF IInv

(* RemoveAll ends.                                                           *)
LEMMA RemoveStateDirSound ==
  ASSUME IInv, NEW p \in Procs, RemoveStateDir(p)
  PROVE  IInv'
<1>1. proc[p].pc \in DestroyPhases
  BY DEF RemoveStateDir, DestroyPhases
<1>2. PICK r \in FileOps, err \in BOOLEAN :
        /\ RemoveDir(proc[p].target, r, err)
        /\ Become(p, [proc[p] EXCEPT !.pc = "returned", !.bad = Note(err, @, "dir")])
  BY DEF RemoveStateDir
<1>3. RuntimeSound' /\ StateSound'
  BY <1>1, <1>2, DestroyContext, RuntimeUntouched, RemoveDirSound DEF RemoveStateDir
<1> QED
  BY <1>1, <1>2, <1>3, FinishSound DEF IInv

(* Every step of Destroy keeps the invariant.                                *)
LEMMA DestroyStepSound ==
  ASSUME IInv, NEW p \in Procs, DestroyStep(p)
  PROVE  IInv'
BY ReflectSound, StopRecordedSound, RemoveRecordedSound, DeleteRecordedVolumeSound,
   ListContainersSound, SweepStopSound, SweepRemoveSound, ListVolumesSound,
   SweepVolumeSound, DestroyNetworkStepSound, RemoveStateFilesSound, RemoveStateDirSound
   DEF DestroyStep

-----------------------------------------------------------------------------
(* The invariant holds from the start and is kept.                           *)

(* Foreign containers run, and nothing else is there.                        *)
LEMMA Initially == Init => IInv
<1> SUFFICES ASSUME Init
             PROVE  IInv
  OBVIOUS
<1>1. RuntimeSound
  <2>1. containers \subseteq Containers /\ ContainersOwned(containers)
    BY DEF Init, RuntimeInit, Containers, ContainersOwned, ForeignContainer
  <2> QED
    BY <2>1 DEF Init, RuntimeInit, RuntimeSound, RuntimeTypeOK, VolumesOwned
<1>2. StateSound
  <2>1. \A c \in Clusters : yaml[c] = NoRecord
    BY DEF Init, StateInit
  <2>2. yaml \in [Clusters -> Records]
    BY EmptyRecords DEF Init, StateInit
  <2>3. \A c \in Clusters : NodesOf(yaml[c].nodes, c)
    BY <2>1, EmptyRecords
  <2> QED
    BY <2>2, <2>3 DEF Init, StateInit, StateSound, StateTypeOK
<1>3. ProcSound
  <2>1. Idle \in Invocations
    BY IdleSound DEF Sound
  <2> QED
    BY <2>1, IdleSound DEF Init, ProcSound
<1> QED
  BY <1>1, <1>2, <1>3 DEF IInv

(* Every step of every invocation keeps the invariant, and so do kills.      *)
LEMMA Inductive == IInv /\ [Next]_vars => IInv'
<1> SUFFICES ASSUME IInv, [Next]_vars
             PROVE  IInv'
  OBVIOUS
<1>1. ASSUME UNCHANGED <<runtimeVars, stateVars>>, ProcSound'
      PROVE  IInv'
  BY <1>1, RuntimeUntouched, StateUntouched DEF IInv
<1>2. ASSUME NEW p \in Procs, Become(p, Idle), UNCHANGED <<runtimeVars, stateVars>>
      PROVE  IInv'
  BY <1>1, <1>2, IdleSound, BecomeSound DEF IInv
<1>3. ASSUME NEW p \in Procs, StartCreate(p)
      PROVE  IInv'
  BY <1>1, <1>3, StartCreateSound DEF StartCreate
<1>4. ASSUME NEW p \in Procs, StartDestroy(p)
      PROVE  IInv'
  BY <1>1, <1>4, StartDestroySound DEF StartDestroy
<1>5. ASSUME NEW p \in Procs, CreateStep(p) \/ DestroyStep(p)
      PROVE  IInv'
  BY <1>5, CreateStepSound, DestroyStepSound
<1>6. ASSUME NEW p \in Procs, Exit(p)
      PROVE  IInv'
  BY <1>2, <1>6 DEF Exit
<1>7. ASSUME NEW p \in Procs, Crash(p)
      PROVE  IInv'
  BY <1>2, <1>7 DEF Crash
<1>8. CASE UNCHANGED vars
  BY <1>1, <1>8 DEF vars, runtimeVars, stateVars, IInv, ProcSound
<1> QED
  BY <1>3, <1>4, <1>5, <1>6, <1>7, <1>8 DEF Next

(* Names, labels, records and what every invocation works on agree about     *)
(* whose they are, in every reachable state.                                 *)
THEOREM Ownership == Spec => []IInv
BY Initially, Inductive, PTL DEF Spec

(* The variables have their types throughout, whatever runs beside what.     *)
THEOREM TypeCorrect == Spec => []TypeOK
<1>1. IInv => TypeOK
  BY DEF IInv, RuntimeSound, StateSound, ProcSound, TypeOK
<1> QED
  BY <1>1, Ownership, PTL

-----------------------------------------------------------------------------
(* Nobody removes what is not his: the action property, for any number of    *)
(* clusters and invocations, provided their names stay apart.                *)

RemovesOwn(me) ==
  /\ \A x \in containers : x.id \notin {y.id : y \in containers'} =>
       me.op = "destroy" /\ me.target = x.label
  /\ \A v \in volumes : v.name \notin {w.name : w \in volumes'} =>
       me.op = "destroy" /\ me.target = v.label
  /\ \A x \in containers : x.id \in Foreign => x \in containers'

(* A container that goes, or a volume, is one the invocation removes.        *)
LEMMA RemoveOwn ==
  ASSUME IInv, NEW me, me.op = "destroy",
         NEW id \in NodeInfos, id.name.cluster = me.target,
         NEW r, NEW err, stop(id, r, err) \/ remove(id, r, err)
  PROVE  RemovesOwn(me)
<1>1. /\ volumes' = volumes
      /\ \A x \in containers : x.id # id => x \in containers'
  BY DEF stop, remove
<1>2. \A x \in containers : x.id = id => x.label = me.target
  <2> SUFFICES ASSUME NEW x \in containers, x.id = id
               PROVE  x.label = me.target
    OBVIOUS
  <2>1. ForeignContainer(x) \/ NodeContainer(x)
    BY DEF IInv, RuntimeSound, ContainersOwned
  <2> QED
    BY <2>1, ProvisionerAssumption DEF ForeignContainer, NodeContainer
<1>3. \A x \in containers : x.id \in Foreign => x.id # id
  BY ProvisionerAssumption
<1> QED
  BY <1>1, <1>2, <1>3 DEF RemovesOwn

(* A volume that goes carries the label its name was derived from, because   *)
(* no two clusters share a sanitized name.                                   *)
LEMMA DeleteOwn ==
  ASSUME SanitizedInjective, IInv, NEW me, me.op = "destroy",
         me.target \in Clusters,
         NEW name, name.owner = Sanitized[me.target],
         NEW r, NEW err, volumeDelete(name, r, err)
  PROVE  RemovesOwn(me)
<1>1. /\ containers' = containers
      /\ \A v \in volumes : v.name # name => v \in volumes'
  BY DEF volumeDelete
<1>2. \A v \in volumes : v.name = name => v.label = me.target
  <2>1. \A v \in volumes : v.label \in Clusters /\ v.name.owner = Sanitized[v.label]
    BY DEF IInv, RuntimeSound, RuntimeTypeOK, VolumesOwned, Volumes
  <2> QED
    BY <2>1 DEF SanitizedInjective
<1> QED
  BY <1>1, <1>2 DEF RemovesOwn

(* Every other step adds, or touches neither containers nor volumes.         *)
LEMMA KeepsAll ==
  ASSUME NEW me,
         \A x \in containers : x \in containers',
         {v.name : v \in volumes} \subseteq {w.name : w \in volumes'}
  PROVE  RemovesOwn(me)
BY DEF RemovesOwn

(* Nothing changed, nothing removed.                                         *)
LEMMA UntouchedKeepsAll ==
  ASSUME NEW me, UNCHANGED <<containers, volumes>>
  PROVE  RemovesOwn(me)
BY KeepsAll

(* No step of Create removes a container or a volume: it cleans nothing      *)
(* up.                                                                       *)
LEMMA CreateRemovesNothing ==
  ASSUME NEW p \in Procs, CreateStep(p)
  PROVE  RemovesOwn(proc[p])
<1>1. CASE CreateVolume(p)
  <2>1. containers' = containers /\ volumes \subseteq volumes'
    BY <1>1 DEF CreateVolume, volumeCreate
  <2> QED
    BY <2>1, KeepsAll
<1>2. CASE Launch(p)
  <2>1. PICK r \in Execs(p), err \in BOOLEAN : runNode(ThisNode(p), r, err)
    BY <1>2 DEF Launch
  <2>2. \A x \in containers : x \in containers'
    BY <2>1 DEF runNode
  <2>3. \A v : [v EXCEPT !.booted = TRUE].name = v.name
    OBVIOUS
  <2>4. \/ volumes' = volumes
        \/ volumes' = {IF v.name \in nodeVolumeNames(ThisNode(p).name)
                         THEN [v EXCEPT !.booted = TRUE] ELSE v : v \in volumes}
    BY <2>1 DEF runNode
  <2>5. \A v \in volumes : \E w \in volumes' : w.name = v.name
    BY <2>3, <2>4
  <2> QED
    BY <2>2, <2>5, KeepsAll
<1>3. CASE EnsureNetwork(p)
  <2>1. UNCHANGED <<containers, volumes>>
    BY <1>3 DEF EnsureNetwork, ensureNetwork, runtimeVars
  <2> QED
    BY <2>1, UntouchedKeepsAll
<1>4. CASE UNCHANGED runtimeVars
  BY <1>4, UntouchedKeepsAll DEF runtimeVars
<1> QED
  BY <1>1, <1>2, <1>3, <1>4
     DEF CreateStep, ValidateClusterRequest, NewStateStat, NewStateMkdir,
         CheckDNSDomain, CheckVolume, volumeExists, WaitForIPv4, ReconcileConfigs,
         SaveOpen, SaveWrite, SaveTalosconfig

(* A step of Destroy removes only what is labelled with its target: in the   *)
(* recorded pass by the record's nodes, in the sweep by the label.           *)
LEMMA DestroyRemovesOwn ==
  ASSUME SanitizedInjective, IInv, NEW p \in Procs, DestroyStep(p)
  PROVE  RemovesOwn(proc[p])
<1> DEFINE me == proc[p]
<1>1. me.pc \in DestroyPhases
  BY DEF DestroyStep, Reflect, StopRecorded, RemoveRecorded, DeleteRecordedVolume,
         ListContainers, SweepStop, SweepRemove, ListVolumes, SweepVolume,
         DestroyNetwork, RemoveStateFiles, RemoveStateDir, DestroyPhases
<1>2. /\ me.op = "destroy"
      /\ OwnContainers(me.todo, me.target) /\ OwnContainers(me.cur, me.target)
      /\ OwnVolumes(me.vols, me.target)
  BY <1>1, DestroyContext DEF Sound
<1>3. CASE StopRecorded(p) \/ RemoveRecorded(p)
  <2>1. me.pc \in LoopPhases
    BY <1>3 DEF StopRecorded, RemoveRecorded, LoopPhases
  <2>2. ThisNode(p) \in NodeInfos /\ ThisNode(p).name.cluster = me.target
    BY <1>1, <2>1, DestroyContext
  <2>3. PICK r \in Execs(p), err \in BOOLEAN :
        stop(ThisNode(p), r, err) \/ remove(ThisNode(p), r, err)
    BY <1>3 DEF StopRecorded, RemoveRecorded
  <2> QED
    BY <1>2, <2>2, <2>3, RemoveOwn
<1>4. CASE SweepStop(p) \/ SweepRemove(p)
  <2>1. PICK id \in me.todo \cup me.cur, r \in Execs(p), err \in BOOLEAN :
         stop(id, r, err) \/ remove(id, r, err)
    BY <1>4 DEF SweepStop, SweepRemove
  <2>2. id \in NodeInfos /\ id.name.cluster = me.target
    BY <1>2 DEF OwnContainers
  <2> QED
    BY <1>2, <2>1, <2>2, RemoveOwn
<1>5. CASE DeleteRecordedVolume(p)
  <2>1. me.pc \in LoopPhases
    BY <1>5 DEF DeleteRecordedVolume, LoopPhases
  <2>2. me.target \in Clusters /\ ThisVolume(p).owner = Sanitized[me.target]
    BY <1>1, <2>1, DestroyContext
  <2>3. PICK r \in Execs(p), err \in BOOLEAN :
        volumeDelete(ThisVolume(p), r, err)
    BY <1>5 DEF DeleteRecordedVolume
  <2> QED
    BY <1>2, <2>2, <2>3, DeleteOwn
<1>6. CASE SweepVolume(p)
  <2>1. me.pc \in SweepPhases
    BY <1>6 DEF SweepVolume, SweepPhases
  <2>2. me.target \in Clusters
    BY <1>1, <2>1, DestroyContext
  <2>3. PICK name \in me.vols, r \in Execs(p), err \in BOOLEAN : volumeDelete(name, r, err)
    BY <1>6 DEF SweepVolume
  <2> QED
    BY <1>2, <2>2, <2>3, DeleteOwn DEF OwnVolumes
<1>7. CASE DestroyNetwork(p)
  <2>1. UNCHANGED <<containers, volumes>>
    BY <1>7 DEF DestroyNetwork, destroyNetwork, runtimeVars
  <2> QED
    BY <2>1, UntouchedKeepsAll
<1>8. CASE UNCHANGED runtimeVars
  BY <1>8, UntouchedKeepsAll DEF runtimeVars
<1> QED
  BY <1>3, <1>4, <1>5, <1>6, <1>7, <1>8
     DEF DestroyStep, Reflect, ListContainers, ListVolumes, RemoveStateFiles,
         RemoveStateDir

(* Whatever an invocation's step is, it removes only its own.                *)
LEMMA StepRemovesOwn ==
  ASSUME SanitizedInjective, IInv, NEW p \in Procs,
         \/ StartCreate(p) \/ StartDestroy(p) \/ CreateStep(p) \/ DestroyStep(p)
         \/ Exit(p) \/ Crash(p)
  PROVE  RemovesOwn(proc[p])
<1>1. CASE StartCreate(p) \/ StartDestroy(p) \/ Exit(p) \/ Crash(p)
  <2>1. UNCHANGED <<containers, volumes>>
    BY <1>1 DEF StartCreate, StartDestroy, Exit, Crash, runtimeVars
  <2> QED
    BY <2>1, UntouchedKeepsAll
<1> QED
  BY <1>1, CreateRemovesNothing, DestroyRemovesOwn

(* However many creates and destroys of however many clusters overlap, fail  *)
(* or are killed, a container or volume goes only by a destroy of the        *)
(* cluster it is labelled with, and a container the provisioner did not      *)
(* create is never touched (node.go:87, destroy.go:107-112).                 *)
THEOREM Isolation ==
  ASSUME SanitizedInjective
  PROVE  Spec => OnlyOwnResourcesRemoved
<1> DEFINE Removals ==
             /\ \A x \in containers : x.id \notin {y.id : y \in containers'} =>
                  \E p \in Procs : proc[p].op = "destroy" /\ proc[p].target = x.label
             /\ \A v \in volumes : v.name \notin {w.name : w \in volumes'} =>
                  \E p \in Procs : proc[p].op = "destroy" /\ proc[p].target = v.label
             /\ \A x \in containers : x.id \in Foreign => x \in containers'
<1>1. IInv /\ [Next]_vars => Removals \/ UNCHANGED vars
  <2> SUFFICES ASSUME IInv, Next
               PROVE  Removals
    OBVIOUS
  <2>1. PICK p \in Procs : \/ StartCreate(p) \/ StartDestroy(p)
                           \/ CreateStep(p) \/ DestroyStep(p)
                           \/ Exit(p) \/ Crash(p)
    BY DEF Next
  <2>2. RemovesOwn(proc[p])
    BY <2>1, StepRemovesOwn
  <2> QED
    BY <2>2 DEF RemovesOwn
<1>2. IInv /\ [Next]_vars => [Removals]_vars
  BY <1>1
<1>3. Spec => [][Removals]_vars
  BY <1>2, Ownership, PTL DEF Spec
<1> QED
  BY <1>3 DEF OnlyOwnResourcesRemoved

-----------------------------------------------------------------------------
(* Who may refuse whom.                                                      *)

OwnRefusal(p) ==
  proc[p].pc = "volExists" /\ proc'[p].bad = {"stale"} =>
    \E v \in volumes : v.name = ThisVolume(p) /\ v.label = proc[p].target

(* Where an invocation's step leaves another one: at most its history grows. *)
LEMMA OthersKeep ==
  ASSUME IInv, NEW q \in Procs, NEW p \in Procs \ {q},
         \/ \E me : Become(q, me)
         \/ \E me : Begin(q, me)
  PROVE  \/ proc'[p] = proc[p]
         \/ \E set : proc'[p] = [proc[p] EXCEPT !.rivals = proc[p].rivals \cup set]
<1>1. proc \in [Procs -> Invocations]
  BY DEF IInv, ProcSound
<1>2. CASE \E me : Become(q, me)
  BY <1>1, <1>2 DEF Become
<1>3. CASE \E me : Begin(q, me)
  <2>1. PICK me : Begin(q, me)
    BY <1>3
  <2>2. \/ proc'[p] = proc[p]
        \/ proc'[p] = [proc[p] EXCEPT !.rivals = proc[p].rivals \cup {me.op}]
    BY <2>1 DEF Begin
  <2> QED
    BY <2>2
<1> QED
  BY <1>2, <1>3

(* Every step is some invocation starting, going on or ending.               *)
LEMMA NextIsOnes ==
  ASSUME NEW q \in Procs,
         \/ StartCreate(q) \/ StartDestroy(q) \/ CreateStep(q) \/ DestroyStep(q)
         \/ Exit(q) \/ Crash(q)
  PROVE  (\E me : Become(q, me)) \/ (\E me : Begin(q, me))
<1>1. CASE StartCreate(q)
  BY <1>1 DEF StartCreate
<1>2. CASE StartDestroy(q)
  BY <1>2 DEF StartDestroy
<1>3. CASE CreateStep(q)
  BY <1>3 DEF CreateStep, ValidateClusterRequest, NewStateStat, NewStateMkdir,
              EnsureNetwork, CheckDNSDomain, CheckVolume, CreateVolume, Launch,
              WaitForIPv4, ReconcileConfigs, SaveOpen, SaveWrite, SaveTalosconfig,
              Fail, Goto
<1>4. CASE DestroyStep(q)
  BY <1>4 DEF DestroyStep, Reflect, StopRecorded, RemoveRecorded,
              DeleteRecordedVolume, ListContainers, SweepStop, SweepRemove,
              ListVolumes, SweepVolume, DestroyNetwork, RemoveStateFiles,
              RemoveStateDir, Fail
<1>5. CASE Exit(q) \/ Crash(q)
  BY <1>5 DEF Exit, Crash
<1> QED
  BY <1>1, <1>2, <1>3, <1>4, <1>5

(* Only CheckVolume refuses with "stale", and the volume it saw has the      *)
(* name of this cluster's node, hence this cluster's label.                  *)
LEMMA StepRefusal ==
  ASSUME SanitizedInjective, IInv, NEW p \in Procs, NEW q \in Procs,
         \/ StartCreate(q) \/ StartDestroy(q) \/ CreateStep(q) \/ DestroyStep(q)
         \/ Exit(q) \/ Crash(q)
  PROVE  OwnRefusal(p)
<1> SUFFICES ASSUME proc[p].pc = "volExists", proc'[p].bad = {"stale"}
             PROVE  \E v \in volumes : v.name = ThisVolume(p) /\ v.label = proc[p].target
  BY DEF OwnRefusal
<1>1. /\ proc[p].pc \in CreatePhases \ {"validate"}
      /\ proc \in [Procs -> Invocations]
  BY DEF CreatePhases, IInv, ProcSound
<1>2. /\ proc[p] \in Invocations /\ proc[p].bad = {}
      /\ proc[p].target \in Clusters
      /\ ThisVolume(p).owner = Sanitized[proc[p].target]
  BY <1>1, CreateContext DEF Sound
<1>3. p = q
  <2> SUFFICES ASSUME p # q
               PROVE  FALSE
    OBVIOUS
  <2>1. \/ proc'[p] = proc[p]
        \/ \E set : proc'[p] = [proc[p] EXCEPT !.rivals = proc[p].rivals \cup set]
    BY NextIsOnes, OthersKeep
  <2>2. \A set : [proc[p] EXCEPT !.rivals = set].bad = proc[p].bad
    BY <1>2 DEF Invocations
  <2> QED
    BY <1>2, <2>1, <2>2
<1>4. CheckVolume(p)
  <2>1. Crash(p) => proc'[p] = Idle
    BY <1>1 DEF Crash, Become
  <2>2. Idle.bad = {}
    BY DEF Idle
  <2> QED
    BY <1>3, <2>1, <2>2
       DEF StartCreate, StartDestroy, Exit, CreateStep, DestroyStep,
           ValidateClusterRequest, NewStateStat, NewStateMkdir, EnsureNetwork,
           CheckDNSDomain, CreateVolume, Launch, WaitForIPv4, ReconcileConfigs,
           SaveOpen, SaveWrite, SaveTalosconfig, Reflect, StopRecorded,
           RemoveRecorded, DeleteRecordedVolume, ListContainers, SweepStop,
           SweepRemove, ListVolumes, SweepVolume, DestroyNetwork,
           RemoveStateFiles, RemoveStateDir
<1>5. PICK r \in Execs(p), answer \in {"present", "absent", "error"} :
        /\ volumeExists(ThisVolume(p), r, answer)
        /\ CASE answer = "absent"  -> Goto(p, "volCreate")
             [] answer = "present" -> Fail(p, "stale")
             [] answer = "error"   -> Fail(p, "check")
  BY <1>4 DEF CheckVolume
<1>6. answer = "present"
  <2>1. Goto(p, "volCreate") => proc'[p].bad = {}
    <3>1. [proc[p] EXCEPT !.pc = "volCreate"].bad = {}
      BY <1>2 DEF Invocations
    <3> QED
      BY <1>1, <3>1 DEF Goto, Become
  <2>2. Fail(p, "check") => proc'[p].bad = {"check"}
    <3>1. [proc[p] EXCEPT !.pc = "returned", !.bad = {"check"}].bad = {"check"}
      BY <1>2 DEF Invocations
    <3> QED
      BY <1>1, <3>1 DEF Fail, Become
  <2>3. {"check"} # {"stale"}
    OBVIOUS
  <2> QED
    BY <1>5, <2>1, <2>2, <2>3
<1>7. ThisVolume(p) \in VolumesNamed
  BY <1>5, <1>6 DEF volumeExists, Reply
<1>8. PICK v \in volumes : v.name = ThisVolume(p)
  BY <1>7 DEF VolumesNamed
<1>9. v.label \in Clusters /\ v.name.owner = Sanitized[v.label]
  BY DEF IInv, RuntimeSound, RuntimeTypeOK, VolumesOwned, Volumes
<1> QED
  BY <1>2, <1>8, <1>9 DEF SanitizedInjective

(* The refusal's advice helps: for any number of clusters and invocations,   *)
(* the volume that makes prepareNodeVolumes refuse carries the label of the  *)
(* cluster whose create it refuses, so its destroy sweeps it                 *)
(* (create.go:172-177).                                                      *)
THEOREM Refusal ==
  ASSUME SanitizedInjective
  PROVE  Spec => RefusedOnlyByOwnVolume
<1> DEFINE Refusals == \A p \in Procs : OwnRefusal(p)
<1>1. IInv /\ [Next]_vars => Refusals \/ UNCHANGED vars
  BY StepRefusal DEF Next
<1>2. IInv /\ [Next]_vars => [Refusals]_vars
  BY <1>1
<1>3. Spec => [][Refusals]_vars
  BY <1>2, Ownership, PTL DEF Spec
<1> QED
  BY <1>3 DEF RefusedOnlyByOwnVolume, OwnRefusal
=============================================================================
