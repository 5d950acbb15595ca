---------------------------- MODULE NodeIdentity ----------------------------
(* The names the provisioner derives for a cluster's nodes and volumes:      *)
(* cmd/aegis/main.go builds the node names, provider/apple/node.go turns     *)
(* them into container IDs and volume names, provider/apple/create.go fixes  *)
(* the launch order.  A name is a record of the parts the string is built    *)
(* from; the one lossy step, sanitizeVolumeName, is the constant Sanitized.  *)
EXTENDS Naturals, Sequences

CONSTANTS
  Clusters,    \* the cluster names an operator passes with -name
  EmptyName,   \* the empty cluster name; also what a missing label reads as
  Sanitized,   \* cluster name -> its sanitized form (two names may share one)
  Domains,     \* the values of -dns-domain in use
  NoDomain,    \* the empty domain: bare node names, endpoint by IP
  NetworkOf,   \* cluster name -> the network its request names
  NoNetwork    \* the empty network name

ASSUME IdentityAssumption == EmptyName \notin Clusters

(* Two cluster names with one sanitized form share their volume names.       *)
SanitizedInjective ==
  \A c, d \in Clusters : Sanitized[c] = Sanitized[d] => c = d

Roles == {"controlplane", "worker"}
Kinds == {"var", "system-state"}

(* <cluster>-<role>-<index>                                                  *)
Nodes == [cluster : Clusters, role : Roles, index : Nat \ {0}]

(* A NodeInfo carries the bare name and the ID made from it and the domain:  *)
(* the record <name, domain> is both, and is also the container's ID.        *)
NodeInfos == [name : Nodes, domain : Domains]
nodeFQDN(node, domain) == [name |-> node, domain |-> domain]

(* Volume names come from the bare node name, whatever the domain is.        *)
nodeVolumeNameShared(node, kind) ==  \* mutant: the cluster is not in the name
  [owner |-> Sanitized[CHOOSE c \in Clusters : TRUE], role |-> node.role,
   index |-> node.index, kind |-> kind]
nodeVolumeName(node, kind) ==
  [owner |-> Sanitized[node.cluster], role |-> node.role,
   index |-> node.index, kind |-> kind]
nodeVolumeNames(node) == {nodeVolumeName(node, kind) : kind \in Kinds}

VolumeNames == [owner : {Sanitized[c] : c \in Clusters}, role : Roles,
                index : Nat \ {0}, kind : Kinds]

(* How many nodes of each role a request asks for.                           *)
Shape == [controlplanes : Nat, workers : Nat]

(* Launch order: the control planes, then the workers.                       *)
orderedReqs(c, shape) ==
  [i \in 1 .. shape.controlplanes + shape.workers |->
     IF i <= shape.controlplanes
       THEN [cluster |-> c, role |-> "controlplane", index |-> i]
       ELSE [cluster |-> c, role |-> "worker", index |-> i - shape.controlplanes]]
=============================================================================
