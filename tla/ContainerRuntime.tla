-------------------------- MODULE ContainerRuntime --------------------------
(* Apple's container runtime as provider/apple/container.go and network.go   *)
(* drive it: every operation is one exec of the `container` CLI.  Each       *)
(* operator below is one Go wrapper together with the effect of the command  *)
(* it execs: r is how the exec went, err whether the wrapper returns an      *)
(* error after its own filtering of the CLI's answer.                        *)
EXTENDS NodeIdentity

CONSTANTS
  Foreign,         \* containers on the host that carry no talos label
  DefaultNetwork   \* the built-in network

VARIABLES
  containers,  \* what `container list --all` shows
  volumes,     \* what `container volume list` shows; booted: a node ran on it
  networks     \* the named networks that exist

runtimeVars == <<containers, volumes, networks>>

Containers == [id : NodeInfos \cup Foreign, label : Clusters \cup {EmptyName},
               running : BOOLEAN]
Volumes == [name : VolumeNames, label : Clusters, booted : BOOLEAN]
NamedNetworks == {NetworkOf[c] : c \in Clusters} \ {DefaultNetwork, NoNetwork}

RuntimeTypeOK ==
  /\ containers \subseteq Containers
  /\ volumes \subseteq Volumes
  /\ networks \subseteq NamedNetworks

RuntimeInit ==
  /\ containers = [id : Foreign, label : {EmptyName}, running : {TRUE}]
  /\ volumes = {}
  /\ networks = {}

(* How an exec can go: the command runs and answers; it fails and changes    *)
(* nothing; it takes effect and its answer is lost; the binary is missing.   *)
Outcomes == {"done", "fails", "lost", "noCli"}

(* The answer run() turns into an error text.  A missing binary reads        *)
(* "executable file not found in $PATH", which contains "not found".         *)
Reply(r, natural) ==
  CASE r = "done"  -> natural
    [] r = "noCli" -> "not found"
    [] OTHER       -> "other error"

Performed(r, natural) == r \in {"done", "lost"} /\ natural = "ok"

(* The filter of stop, remove, volumeDelete and destroyNetwork.              *)
NotIgnoredBroad(reply) ==  \* mutant: any refusal of the runtime is ignored
  reply \notin {"ok", "not found", "in use", "running"}
NotIgnored(reply) == reply \notin {"ok", "not found"}

ContainerIDs == {x.id : x \in containers}
VolumesNamed == {v.name : v \in volumes}

Mounts(x) == IF x.id \in Foreign THEN {} ELSE nodeVolumeNames(x.id.name)
Mounted == UNION {Mounts(x) : x \in containers}

-----------------------------------------------------------------------------
IsBuiltIn(net) == net \in {NoNetwork, DefaultNetwork}

(* container run --detach --name id --volume ... --label ... --network ...:  *)
(* creates and starts the container; it needs a free name, both its volumes  *)
(* and its network.                                                          *)
runNode(id, r, err) ==
  LET c == id.name.cluster
      net == NetworkOf[c]
      ready == /\ nodeVolumeNames(id.name) \subseteq VolumesNamed
               /\ IsBuiltIn(net) \/ net \in networks
      natural == IF id \in ContainerIDs THEN "exists"
                 ELSE IF ready THEN "ok" ELSE "missing"
  IN /\ err = (Reply(r, natural) # "ok")
     /\ IF Performed(r, natural)
          THEN /\ containers' = containers \cup
                     {[id |-> id, label |-> c, running |-> TRUE]}
               /\ volumes' = {IF v.name \in nodeVolumeNames(id.name)
                                THEN [v EXCEPT !.booted = TRUE] ELSE v :
                              v \in volumes}
          ELSE UNCHANGED <<containers, volumes>>
     /\ UNCHANGED networks

(* inspectIPv4 can find an address only while the container runs.            *)
IsRunning(id) == \E x \in containers : x.id = id /\ x.running

stop(id, r, err) ==
  LET natural == IF id \in ContainerIDs THEN "ok" ELSE "not found"
  IN /\ err = NotIgnored(Reply(r, natural))
     /\ containers' = IF Performed(r, natural)
                        THEN {IF x.id = id THEN [x EXCEPT !.running = FALSE]
                                           ELSE x : x \in containers}
                        ELSE containers
     /\ UNCHANGED <<volumes, networks>>

(* container rm refuses a running container.                                 *)
remove(id, r, err) ==
  LET natural == IF id \notin ContainerIDs THEN "not found"
                 ELSE IF IsRunning(id) THEN "running" ELSE "ok"
  IN /\ err = NotIgnored(Reply(r, natural))
     /\ containers' = IF Performed(r, natural)
                        THEN {x \in containers : x.id # id} ELSE containers
     /\ UNCHANGED <<volumes, networks>>

volumeCreateTolerant(name, label, r, err) ==  \* mutant: "exists" is no error
  /\ err = (Reply(r, "ok") # "ok")
  /\ volumes' = IF Performed(r, "ok") /\ name \notin VolumesNamed
                  THEN volumes \cup
                         {[name |-> name, label |-> label, booted |-> FALSE]}
                  ELSE volumes
  /\ UNCHANGED <<containers, networks>>

volumeCreateUnlabelled(name, label, r, err) ==  \* mutant: no --label
  volumeCreateTolerant(name, EmptyName, r, err)

volumeCreate(name, label, r, err) ==
  LET natural == IF name \in VolumesNamed THEN "exists" ELSE "ok"
  IN /\ err = (Reply(r, natural) # "ok")
     /\ volumes' = IF Performed(r, natural)
                     THEN volumes \cup
                            {[name |-> name, label |-> label, booted |-> FALSE]}
                     ELSE volumes
     /\ UNCHANGED <<containers, networks>>

(* The answers of volumeExists: (true, nil), (false, nil), (_, err).         *)
volumeExists(name, r, answer) ==
  LET reply == Reply(r, IF name \in VolumesNamed THEN "ok" ELSE "not found")
  IN /\ answer = (CASE reply = "ok"        -> "present"
                    [] reply = "not found" -> "absent"
                    [] OTHER               -> "error")
     /\ UNCHANGED runtimeVars

(* container volume delete refuses a volume some container mounts.           *)
volumeDelete(name, r, err) ==
  LET natural == IF name \notin VolumesNamed THEN "not found"
                 ELSE IF name \in Mounted THEN "in use" ELSE "ok"
  IN /\ err = NotIgnored(Reply(r, natural))
     /\ volumes' = IF Performed(r, natural)
                     THEN {v \in volumes : v.name # name} ELSE volumes
     /\ UNCHANGED <<containers, networks>>

(* The two lists are filtered by label on this side; a container without     *)
(* labels reads as EmptyName.  A failing list is an error, whatever it says. *)
ListFailsFiltered(r) == NotIgnored(Reply(r, "ok"))  \* mutant: ignores "not found"
ListFails(r) == Reply(r, "ok") # "ok"

containersMatchingLabel(label) == {x.id : x \in {y \in containers : y.label = label}}
volumesMatchingLabel(label) == {v.name : v \in {w \in volumes : w.label = label}}

-----------------------------------------------------------------------------
ensureNetwork(net, r, err) ==
  IF IsBuiltIn(net)
    THEN ~err /\ UNCHANGED runtimeVars
    ELSE LET natural == IF net \in networks THEN "already" ELSE "ok"
         IN /\ err = (Reply(r, natural) \notin {"ok", "already"})
            /\ networks' = IF Performed(r, natural)
                             THEN networks \cup {net} ELSE networks
            /\ UNCHANGED <<containers, volumes>>

(* container network delete refuses a network with containers attached.      *)
Attached(net) == \E x \in containers : x.label # EmptyName /\ NetworkOf[x.label] = net

destroyNetwork(net, r, err) ==
  IF IsBuiltIn(net)
    THEN ~err /\ UNCHANGED runtimeVars
    ELSE LET natural == IF net \notin networks THEN "not found"
                        ELSE IF Attached(net) THEN "in use" ELSE "ok"
         IN /\ err = NotIgnored(Reply(r, natural))
            /\ networks' = IF Performed(r, natural)
                             THEN networks \ {net} ELSE networks
            /\ UNCHANGED <<containers, volumes>>
=============================================================================
