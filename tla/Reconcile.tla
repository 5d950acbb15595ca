----------------------------- MODULE Reconcile ------------------------------
(* The DHCP reconciliation inside one Create: nodes boot bare and get their  *)
(* addresses from vmnet (node.go), each config is patched with the endpoint  *)
(* that only then is known and applied to the address the node was seen at   *)
(* (reconcile.go).  A node that restarts comes back at another address and   *)
(* keeps its config, which lies on its volume.                               *)
EXTENDS Naturals, Sequences

CONSTANTS
  Reqs,       \* orderedReqs: the role of each node, control planes first
  Injected,   \* the requests with a Config and without SkipInjectingConfig
  Others,     \* nodes of other clusters, in maintenance mode, on the network
  Addrs,      \* the addresses of the vmnet subnet
  NoAddr,     \* not on the network
  SeedAddr,   \* the second address of the requested CIDR
  Faults,     \* what a call may do besides working: {"fails", "lost"} or less
  MaxMoves    \* how many restarts may fall into the create

ASSUME ReconcileAssumption ==
  /\ Reqs \in Seq({"controlplane", "worker"})
  /\ Len(Reqs) > 0 /\ Reqs[1] = "controlplane"
  /\ Injected \subseteq DOMAIN Reqs
  /\ Others \cap DOMAIN Reqs = {}
  /\ NoAddr \notin Addrs /\ SeedAddr \in Addrs
  /\ Faults \subseteq {"fails", "lost"}
  /\ MaxMoves \in Nat

Nodes == DOMAIN Reqs
VMs == Nodes \cup Others

VARIABLES
  dnsDomain, \* whether -dns-domain is set
  booted,    \* the nodes that have been launched
  addr,      \* the address each node has now
  config,    \* the machine config each node has taken
  resolver,  \* the host forwards the DNS domain to the container DNS
  pc, pos,   \* where Create is, and at which node
  ips,       \* the address each NodeInfo was recorded with
  late,      \* this applyConfig is past its deadline
  moves,     \* restarts during this create
  lost       \* history: nodes whose successful apply got no answer

hostVars == <<dnsDomain, booted, addr, config, resolver, moves>>
createVars == <<pc, pos, ips, late, lost>>
vars == <<hostVars, createVars>>

(* What an endpoint names: the container (its --name is its DNS name, which  *)
(* follows the container's address), or an address.                          *)
NameOf(v) == [kind |-> "name", of |-> v]
AddressOf(a) == [kind |-> "address", of |-> a]
Hosts == [kind : {"name"}, of : Nodes] \cup [kind : {"address"}, of : Addrs]

Configs == [req : Nodes, endpoint : Hosts,
            apiServerSANs : SUBSET Hosts, machineSANs : SUBSET Hosts]
NoConfig == [req |-> 0]

Over == {"created", "failed"}

Flags == dnsDomain \in BOOLEAN /\ resolver \in BOOLEAN /\ late \in BOOLEAN

TypeOK ==
  /\ Flags
  /\ booted \subseteq VMs
  /\ addr \in [VMs -> Addrs \cup {NoAddr}]
  /\ config \in [VMs -> Configs \cup {NoConfig}]
  /\ pc \in {"launch", "address", "distinct", "apply", "save"} \cup Over
  /\ pos \in Nodes
  /\ ips \in Seq(Addrs) /\ Len(ips) <= Len(Reqs)
  /\ moves \in 0 .. MaxMoves
  /\ lost \subseteq Nodes

Taken == {addr[v] : v \in VMs}

Init ==
  /\ dnsDomain \in BOOLEAN
  /\ booted = Others
  /\ addr = [v \in VMs |-> NoAddr]
  /\ config = [v \in VMs |-> NoConfig]
  /\ resolver = dnsDomain
  /\ pc = "launch" /\ pos = 1 /\ ips = <<>>
  /\ late = FALSE /\ moves = 0 /\ lost = {}

-----------------------------------------------------------------------------
(* The host.  vmnet hands out any free address and reserves none.            *)
Lease(v) ==
  /\ v \in booted /\ addr[v] = NoAddr
  /\ \E a \in Addrs \ Taken : addr' = [addr EXCEPT ![v] = a]
  /\ UNCHANGED <<dnsDomain, booted, config, resolver, moves, createVars>>

(* container stop, and start: the next lease may be another one.             *)
Restart(v) ==
  /\ addr[v] # NoAddr
  /\ pc \in Over \/ moves < MaxMoves
  /\ addr' = [addr EXCEPT ![v] = NoAddr]
  /\ moves' = IF pc \in Over THEN moves ELSE moves + 1
  /\ UNCHANGED <<dnsDomain, booted, config, resolver, createVars>>

(* A reboot of macOS takes the nodes down and the domain's pf rule with them,*)
(* until `container system dns create` is run again.                         *)
RebootHost ==
  /\ pc \in Over
  /\ addr' = [v \in VMs |-> NoAddr] /\ resolver' = FALSE
  /\ UNCHANGED <<dnsDomain, booted, config, moves, createVars>>

CreateDNSDomain ==
  /\ dnsDomain /\ ~resolver /\ resolver' = TRUE
  /\ UNCHANGED <<dnsDomain, booted, addr, config, moves, createVars>>

-----------------------------------------------------------------------------
(* Create                                                                    *)
Fail ==
  /\ pc' = "failed"
  /\ UNCHANGED <<hostVars, pos, ips, late, lost>>

NextNodePastTheLast(again, after) ==  \* mutant: the loop runs once too often
  /\ late' = FALSE
  /\ IF pos <= Len(Reqs) THEN pc' = again /\ pos' = pos + 1
                         ELSE pc' = after /\ pos' = 1

NextNode(again, after) ==
  /\ late' = FALSE
  /\ IF pos < Len(Reqs) THEN pc' = again /\ pos' = pos + 1
                        ELSE pc' = after /\ pos' = 1

Launch ==
  /\ pc = "launch"
  /\ \/ /\ booted' = booted \cup {pos}
        /\ pc' = "address"
        /\ UNCHANGED <<dnsDomain, addr, config, resolver, moves, pos, ips, late, lost>>
     \/ Fail

(* waitForIPv4, the single step that PollLoop justifies.                     *)
WaitForIPv4 ==
  /\ pc = "address"
  /\ \/ /\ addr[pos] # NoAddr
        /\ ips' = Append(ips, addr[pos])
        /\ NextNode("launch", "distinct")
        /\ UNCHANGED <<hostVars, lost>>
     \/ Fail

AssertNothing ==  \* mutant: shared addresses go unnoticed
  /\ pc = "distinct" /\ pc' = "apply"
  /\ UNCHANGED <<hostVars, pos, ips, late, lost>>

assertDistinctIPs ==
  /\ pc = "distinct"
  /\ IF \A i, j \in DOMAIN ips : ips[i] = ips[j] => i = j
       THEN pc' = "apply" /\ UNCHANGED <<hostVars, pos, ips, late, lost>>
       ELSE Fail

(* KubernetesEndpoint, and the endpoint of every config.                     *)
endpointOfNode(i) == IF dnsDomain THEN NameOf(i) ELSE AddressOf(ips[i])
endpoint == endpointOfNode(1)

(* The bundle is generated with a guess that no node need ever have.         *)
GetInClusterKubernetesControlPlaneEndpoint == AddressOf(SeedAddr)

generated(i) ==
  [req |-> i, endpoint |-> GetInClusterKubernetesControlPlaneEndpoint,
   apiServerSANs |-> {}, machineSANs |-> {}]

certSANs == IF dnsDomain THEN {endpoint} ELSE {}

patchConfigNoMachineSANs(i) ==  \* mutant: apid's certificate is forgotten
  [generated(i) EXCEPT !.endpoint = endpoint, !.apiServerSANs = certSANs]

(* The name goes into the certificates of kube-apiserver and of apid.        *)
patchConfig(i) ==
  [generated(i) EXCEPT !.endpoint = endpoint,
                       !.apiServerSANs = certSANs, !.machineSANs = certSANs]

SkipNode ==
  /\ pc = "apply" /\ pos \notin Injected
  /\ NextNode("apply", "save")
  /\ UNCHANGED <<hostVars, ips, lost>>

(* Patching, or the temporary file, fails.                                   *)
CannotPatch == pc = "apply" /\ pos \in Injected /\ ~late /\ Fail

(* talosctl apply-config --insecure --nodes ip: the node that has that       *)
(* address takes the config if it is in maintenance mode.                    *)
InMaintenanceAt(a) == {v \in booted : addr[v] = a /\ config[v] = NoConfig}

Takes(v) ==
  /\ config' = [config EXCEPT ![v] = patchConfig(pos)]
  /\ UNCHANGED <<dnsDomain, booted, addr, resolver, moves>>

TakeAndAnswerInTime(v) ==  \* mutant: a success after the deadline is a failure
  /\ Takes(v)
  /\ IF late THEN pc' = "failed" /\ UNCHANGED <<pos, late>>
             ELSE NextNode("apply", "save")
  /\ UNCHANGED <<ips, lost>>

TakeAndAnswer(v) ==
  /\ Takes(v) /\ NextNode("apply", "save")
  /\ UNCHANGED <<ips, lost>>

GoOnAnyway ==  \* mutant: a node that cannot be configured is passed over
  IF late THEN NextNode("apply", "save") ELSE UNCHANGED <<pc, pos, late>>

(* A failed try: return its error past the deadline, else pause and retry.   *)
RetryUntilLate ==
  /\ pc' = IF late THEN "failed" ELSE pc
  /\ UNCHANGED <<pos, late>>

ApplyConfig ==
  /\ pc = "apply" /\ pos \in Injected
  /\ \/ \E v \in InMaintenanceAt(ips[pos]) : TakeAndAnswer(v)
     \/ /\ "lost" \in Faults
        /\ \E v \in InMaintenanceAt(ips[pos]) : Takes(v)
        /\ lost' = lost \cup {pos}
        /\ RetryUntilLate /\ UNCHANGED ips
     \/ /\ "fails" \in Faults \/ InMaintenanceAt(ips[pos]) = {}
        /\ RetryUntilLate /\ UNCHANGED <<hostVars, ips, lost>>

DeadlinePasses ==
  /\ pc = "apply" /\ pos \in Injected /\ ~late /\ late' = TRUE
  /\ UNCHANGED <<hostVars, pc, pos, ips, lost>>

Save ==
  /\ pc = "save"
  /\ \/ pc' = "created" /\ UNCHANGED <<hostVars, pos, ips, late, lost>>
     \/ Fail

CreateStep ==
  \/ Launch \/ WaitForIPv4 \/ assertDistinctIPs
  \/ SkipNode \/ CannotPatch \/ ApplyConfig \/ Save

HostStep ==
  \/ \E v \in VMs : Lease(v) \/ Restart(v)
  \/ RebootHost \/ CreateDNSDomain

Next == CreateStep \/ DeadlinePasses \/ HostStep

Spec == Init /\ [][Next]_vars

-----------------------------------------------------------------------------
HasOwnConfig(i) == config[i] # NoConfig /\ config[i].req = i

(* A config is taken by the node it was made for and by no other; so a       *)
(* worker never comes up as a control plane (reconcile.go:73-79).            *)
RightNode == \A v \in VMs : config[v] # NoConfig => config[v].req = v

(* A create that reports success has configured every node it was to, each   *)
(* with its own config.                                                      *)
CreatedMeansConfigured == pc = "created" => \A i \in Injected : HasOwnConfig(i)

(* Configs are taken in launch order, control planes first, without gaps: a  *)
(* create that fails has configured the nodes before the one it names.       *)
InOrder ==
  \A i, j \in Injected : i < j /\ HasOwnConfig(j) => HasOwnConfig(i)

(* A create that fails at a node's config leaves it in maintenance mode,     *)
(* unless it was told nothing of an apply that worked (reconcile.go:154): a  *)
(* success that comes after the deadline counts.                             *)
OnlyLostAnswersMislead ==
  pc = "failed" /\ late /\ HasOwnConfig(pos) => pos \in lost

(* A client connects if the host name leads to the node and its certificate  *)
(* covers it: kube-apiserver's for kubectl, apid's for talosctl.  Talos      *)
(* renews certificates for addresses itself.                                 *)
Resolve(host) == IF host.kind = "address" THEN host.of
                 ELSE IF resolver THEN addr[host.of] ELSE NoAddr
Connects(host, v) ==
  /\ addr[v] # NoAddr /\ Resolve(host) = addr[v]
  /\ \/ host.kind = "address"
     \/ host \in config[v].apiServerSANs /\ host \in config[v].machineSANs

(* The endpoint of the kubeconfig stays valid after cold restarts if a       *)
(* domain is set and its resolver entry is there (create.go:99-101), and is  *)
(* the one every config was given; without a domain it is valid as long as   *)
(* the control plane keeps its address.                                      *)
EndpointWorks ==
  pc = "created" /\ HasOwnConfig(1) /\ addr[1] # NoAddr =>
    /\ \A v \in VMs : config[v] # NoConfig => config[v].endpoint = endpoint
    /\ resolver \/ (~dnsDomain /\ addr[1] = ips[1]) => Connects(endpoint, 1)
=============================================================================
