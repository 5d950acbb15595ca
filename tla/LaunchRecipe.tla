---------------------------- MODULE LaunchRecipe -----------------------------
(* From aegis's flags to the arguments of `container run`: the node requests *)
(* that main.go:125-145 makes, and the names, limits and mounts that         *)
(* buildRunArgs (node.go:139) gives each node.  A name is a sequence of      *)
(* characters, where a word of lower-case letters counts as one; a path is a *)
(* sequence of names.                                                        *)
EXTENDS Integers, SequencesExt

CONSTANTS
  ClusterNames,   \* what -name may be given
  DNSDomains,     \* what -dns-domain may be given; <<>> is no domain
  Counts,         \* what -controlplanes and -workers may be given
  Memories,       \* what -cp-memory and -worker-memory may be given, in MB
  Indexes,        \* the decimal form of 1, 2, ...: a sequence of names
  Characters,     \* the characters and words that names are written in
  Words,          \* those of [a-z0-9-]
  Lower,          \* upper-case letter -> its lower case
  Overlays,       \* constants.Overlays: Talos's list of overlay paths
  Mib,            \* 1024 * 1024, scaled down
  HalfRange       \* 2^63, scaled down

ASSUME LaunchRecipeAssumption ==
  /\ Mib \in Nat \ {0} /\ HalfRange \in Nat \ {0}
  /\ Counts \subseteq Int /\ Memories \subseteq -HalfRange .. HalfRange - 1

Roles == {"controlplane", "worker"}

(* The letters' cases, and the words of the code's own formats.              *)
ASSUME AlphabetAssumption ==
  /\ Words \cup {"."} \subseteq Characters /\ "." \notin Words
  /\ Roles \cup {"-", "var", "system", "state"} \subseteq Words
  /\ Lower \in [DOMAIN Lower -> Words \ {"-"}] /\ DOMAIN Lower \cap Words = {}
  /\ ClusterNames \subseteq Seq(Characters) /\ DNSDomains \subseteq Seq(Characters)

(* Two numbers differ in decimal, which holds no role; no count is too high. *)
ASSUME IndexesAssumption ==
  /\ Indexes \in Seq(Seq(Words \ Roles))
  /\ \A i, j \in DOMAIN Indexes : Indexes[i] = Indexes[j] => i = j
  /\ \A count \in Counts : count <= Len(Indexes)

(* Of Talos's overlays only /opt lies above the image's CNI plugins.         *)
ASSUME OverlaysAssumption ==
  /\ Overlays \in Seq(Seq(STRING))
  /\ \A i \in DOMAIN Overlays :
       IsPrefix(Overlays[i], <<"opt", "cni", "bin">>) => Overlays[i] = <<"opt">>

VARIABLES
  pc,        \* "flags", "nodes", "launching", or how it ended
  flags,     \* the command line
  nodes,     \* []provision.NodeRequest
  launched   \* the arguments of the runs so far

vars == <<pc, flags, nodes, launched>>

-----------------------------------------------------------------------------
SanitizeDropping(s) ==  \* mutant: a character that is not valid is left out
  SelectSeq([i \in DOMAIN s |-> IF s[i] \in DOMAIN Lower THEN Lower[s[i]] ELSE s[i]],
            LAMBDA x : x \in Words)

(* Character by character: to lower case, and '-' for what a name cannot hold*)
sanitizeVolumeName(s) ==
  [i \in DOMAIN s |-> CASE s[i] \in DOMAIN Lower -> Lower[s[i]]
                        [] s[i] \in Words        -> s[i]
                        [] OTHER                 -> "-"]

NodeName(cluster, role, index) == cluster \o <<"-", role, "-">> \o index

nodeVolumeNames(cluster, node) ==
  LET base == cluster \o <<"-">> \o node
  IN <<sanitizeVolumeName(base \o <<"-", "var">>),
       sanitizeVolumeName(base \o <<"-", "system", "-", "state">>)>>

nodeFQDN(node, domain) == IF domain = <<>> THEN node ELSE node \o <<".">> \o domain

nodeTmpfsPathsAll ==  \* mutant: /opt as well
  <<<<"run">>, <<"system">>, <<"tmp">>>> \o Overlays

(* The paths once the loop has seen the first i overlays.                    *)
Appended[i \in 0 .. Len(Overlays)] ==
  IF i = 0 THEN <<<<"run">>, <<"system">>, <<"tmp">>>>
  ELSE IF Overlays[i] = <<"opt">> THEN Appended[i - 1]
  ELSE Append(Appended[i - 1], Overlays[i])

nodeTmpfsPaths == Appended[Len(Overlays)]

(* int64 arithmetic.                                                         *)
Int64(n) == ((n + HalfRange) % (2 * HalfRange)) - HalfRange

(* --memory only if positive; the quotient drops what is less than 1 MB.     *)
MemoryLimitDecimal(bytes) ==  \* mutant: 1000 * 1000, and a little less than Mib
  IF bytes > 0 THEN {bytes \div (Mib - 1)} ELSE {}
MemoryLimit(bytes) == IF bytes > 0 THEN {bytes \div Mib} ELSE {}

Tmpfs(path) == [target |-> path, volume |-> <<>>]
Mount(volume, path) == [target |-> path, volume |-> volume]

(* The mounts in the order of the arguments, in which the guest makes them.  *)
buildRunArgs(cluster, node, domain) ==
  LET volumes == nodeVolumeNames(cluster, node.name)
  IN [name   |-> nodeFQDN(node.name, domain),
      label  |-> cluster,
      memory |-> MemoryLimit(node.memory),
      mounts |-> [i \in DOMAIN nodeTmpfsPaths |-> Tmpfs(nodeTmpfsPaths[i])] \o
                 <<Mount(volumes[1], <<"var">>), Mount(volumes[2], <<"system", "state">>)>>]

-----------------------------------------------------------------------------
Flags == [name : ClusterNames, dnsDomain : DNSDomains,
          controlplanes : Counts, workers : Counts,
          cpMemory : Memories, workerMemory : Memories]

Init == pc = "flags" /\ flags \in Flags /\ nodes = <<>> /\ launched = <<>>

Requests(role, count, memory) ==
  [i \in 1 .. count |-> [name |-> NodeName(flags.name, role, Indexes[i]),
                         role |-> role, index |-> i, memory |-> Int64(memory * Mib)]]

(* make() panics on a negative capacity; a negative count alone makes none.  *)
MakeRequests ==
  /\ pc = "flags"
  /\ IF flags.controlplanes + flags.workers < 0
       THEN pc' = "panicked" /\ UNCHANGED nodes
       ELSE /\ pc' = "nodes"
            /\ nodes' = Requests("controlplane", flags.controlplanes, flags.cpMemory) \o
                        Requests("worker", flags.workers, flags.workerMemory)
  /\ UNCHANGED <<flags, launched>>

ValidateClusterRequest ==
  /\ pc = "nodes"
  /\ pc' = IF \E i \in DOMAIN nodes : nodes[i].role = "controlplane"
             THEN "launching" ELSE "refused"
  /\ UNCHANGED <<flags, nodes, launched>>

RunNode ==
  /\ pc = "launching" /\ Len(launched) < Len(nodes)
  /\ launched' = Append(launched,
       buildRunArgs(flags.name, nodes[Len(launched) + 1], flags.dnsDomain))
  /\ UNCHANGED <<pc, flags, nodes>>

Next == MakeRequests \/ ValidateClusterRequest \/ RunNode

Spec == Init /\ [][Next]_vars

-----------------------------------------------------------------------------
(* Two names that the sanitizer may not tell apart: as long as each other,   *)
(* and alike in every place but for case and for invalid characters.         *)
Letters == (Words \cup DOMAIN Lower) \ {"-"}
AlikeAt(x, y) ==
  LET low(z) == IF z \in DOMAIN Lower THEN Lower[z] ELSE z
  IN \/ low(x) = low(y)
     \/ x \notin Letters /\ y \notin Letters
Alike(s, t) == Len(s) = Len(t) /\ \A i \in DOMAIN s : AlikeAt(s[i], t[i])

(* Create and Destroy find a node by its name and its volumes' names, and    *)
(* nothing else keeps nodes apart (node.go:87): a node shares its container  *)
(* name with no other node of any cluster, and a volume only with the same   *)
(* node of a cluster whose name the sanitizer does not tell from its own.    *)
NamesApart ==
  \A n \in DOMAIN launched, cluster \in ClusterNames,
     role \in Roles, i \in DOMAIN Indexes :
    LET other == NodeName(cluster, role, Indexes[i])
        same == role = nodes[n].role /\ i = nodes[n].index
        mine == launched[n].mounts
    IN /\ \A domain \in DNSDomains :
            nodeFQDN(other, domain) = launched[n].name <=>
              same /\ cluster = flags.name /\ domain = flags.dnsDomain
       /\ \A k, l \in 1 .. 2 :
            mine[Len(mine) - 2 + k].volume = nodeVolumeNames(cluster, other)[l] <=>
              same /\ k = l /\ Alike(cluster, flags.name)

(* A node is launched with the memory that was asked for, to the MB, if that *)
(* many bytes are a number at all; it would be killed with less (node.go:147)*)
LimitAsAsked ==
  \A n \in DOMAIN launched :
    LET asked == IF nodes[n].role = "worker" THEN flags.workerMemory ELSE flags.cpMemory
    IN asked > 0 /\ asked * Mib < HalfRange => launched[n].memory = {asked}

(* What a path in the guest shows: the last mount made at or above it.       *)
Shown(mounts, path) ==
  LET over == {i \in DOMAIN mounts : IsPrefix(mounts[i].target, path)}
  IN IF over = {} THEN "image"
     ELSE LET last == CHOOSE i \in over : \A j \in over : j <= i
          IN IF mounts[last].volume = <<>> THEN "tmpfs" ELSE mounts[last].volume

(* What must survive a restart is on the node's volumes, each on its own,    *)
(* and the image's CNI plugins are not hidden (node.go:30-49).               *)
StateOnVolumes ==
  \A n \in DOMAIN launched :
    LET mounts == launched[n].mounts
        volumes == nodeVolumeNames(flags.name, nodes[n].name)
    IN /\ Shown(mounts, <<"var">>) = volumes[1]
       /\ Shown(mounts, <<"system", "state">>) = volumes[2]
       /\ Shown(mounts, <<"system">>) = "tmpfs"
       /\ Shown(mounts, <<"opt", "cni", "bin">>) = "image"
=============================================================================
