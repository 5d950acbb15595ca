-------------------------- MODULE ReconcileProofs ---------------------------
(* What the DHCP reconciliation guarantees for every number of nodes and     *)
(* addresses.  The endpoint part needs no assumption; that each config       *)
(* reaches its own node is proved for a network without other clusters in    *)
(* maintenance mode and at most one restart during the create.               *)
EXTENDS Reconcile, TLAPS

(* How far the create is, in its index and in the addresses it has recorded. *)
Progress ==
  /\ pc \in {"launch", "address"} => Len(ips) = pos - 1
  /\ pc \in {"distinct", "apply", "save", "created"} => Len(ips) = Len(Reqs)
  /\ pc \in {"launch", "address", "distinct"} =>
       \A v \in VMs : config[v] = NoConfig
  /\ pc = "distinct" => pos = 1
  /\ late => pc \in {"apply", "failed"}

(* A config carries the endpoint the cluster ends up with, and its name.     *)
Patched ==
  /\ resolver => dnsDomain
  /\ \A v \in VMs : config[v] # NoConfig =>
       /\ config[v].endpoint = endpoint
       /\ dnsDomain => endpoint \in config[v].apiServerSANs /\ endpoint \in config[v].machineSANs

EInv == TypeOK /\ Progress /\ Patched

LEMMA Constants ==
  /\ Nodes = 1 .. Len(Reqs) /\ Len(Reqs) \in Nat /\ 1 \in Nodes
  /\ Nodes \subseteq VMs
BY ReconcileAssumption DEF Nodes, VMs

LEMMA PatchedConfig ==
  ASSUME ips \in Seq(Addrs), Len(ips) > 0, NEW i \in Nodes
  PROVE  /\ patchConfig(i) \in Configs
         /\ patchConfig(i).req = i
         /\ patchConfig(i).endpoint = endpoint
         /\ dnsDomain => /\ endpoint \in patchConfig(i).apiServerSANs
                         /\ endpoint \in patchConfig(i).machineSANs
<1>1. ips[1] \in Addrs
  OBVIOUS
<1>2. endpoint \in Hosts
  BY <1>1, Constants DEF endpoint, endpointOfNode, NameOf, AddressOf, Hosts
<1>3. certSANs \subseteq Hosts
  BY <1>2 DEF certSANs
<1>4. dnsDomain => endpoint \in certSANs
  BY DEF certSANs
<1>5. SeedAddr \in Addrs
  BY ReconcileAssumption
<1>6. /\ patchConfig(i).req = i
      /\ patchConfig(i).endpoint = endpoint
      /\ patchConfig(i).apiServerSANs = certSANs
      /\ patchConfig(i).machineSANs = certSANs
  BY DEF patchConfig, generated
<1>7. patchConfig(i) \in Configs
  BY <1>2, <1>3, <1>5 DEF patchConfig, generated, Configs, Hosts, AddressOf,
     GetInClusterKubernetesControlPlaneEndpoint
<1>. QED
  BY <1>4, <1>6, <1>7

LEMMA ConfigIsSome ==
  ASSUME NEW c \in Configs PROVE c # NoConfig
<1>1. c.req \in Nodes /\ NoConfig.req = 0
  BY DEF Configs, NoConfig
<1>. QED
  BY <1>1, Constants

LEMMA EInit == Init => EInv
<1>. SUFFICES ASSUME Init PROVE EInv
  OBVIOUS
<1>1. Flags
  BY ReconcileAssumption DEF Init, Flags
<1>2. TypeOK
  BY <1>1, ReconcileAssumption, Constants DEF Init, TypeOK, VMs, Over
<1>3. Progress
  BY DEF Init, Progress
<1>4. Patched
  BY DEF Init, Patched
<1>. QED
  BY <1>2, <1>3, <1>4 DEF EInv

LEMMA FlagsNext == Flags /\ [Next]_vars => Flags'
<1>. SUFFICES ASSUME Flags, [Next]_vars PROVE Flags'
  OBVIOUS
<1>. USE DEF Flags, vars, hostVars, createVars
<1>1. CASE CreateStep
  BY <1>1 DEF CreateStep, Launch, WaitForIPv4, assertDistinctIPs, SkipNode,
     CannotPatch, ApplyConfig, Save, Fail, NextNode, Takes, TakeAndAnswer,
     RetryUntilLate
<1>2. CASE DeadlinePasses
  BY <1>2 DEF DeadlinePasses
<1>3. CASE HostStep
  BY <1>3, ReconcileAssumption DEF HostStep, Lease, Restart, RebootHost,
     CreateDNSDomain
<1>. QED
  BY <1>1, <1>2, <1>3 DEF Next

(* What Create does to the host, and what the host does to Create.           *)
LEMMA TypeNext ==
  TypeOK /\ Progress /\ [Next]_vars => TypeOK' /\ Progress'
<1>. SUFFICES ASSUME TypeOK, Progress, [Next]_vars PROVE TypeOK' /\ Progress'
  OBVIOUS
<1>0. Flags'
  BY FlagsNext DEF TypeOK
<1>. USE <1>0, Constants DEF TypeOK, Progress, Over
<1>1. CASE Launch
  <2>1. CASE Fail
    BY <2>1 DEF Fail, hostVars
  <2>2. CASE ~Fail
    <3>1. /\ booted' = booted \cup {pos} /\ pos \in VMs
          /\ pc = "launch" /\ pc' = "address"
          /\ UNCHANGED <<dnsDomain, addr, config, resolver, moves, pos, ips, late, lost>>
      BY <1>1, <2>2 DEF Launch
    <3>. QED
      BY <3>1
  <2>. QED
    BY <2>1, <2>2
<1>2. CASE WaitForIPv4
  <2>1. CASE Fail
    BY <2>1 DEF Fail, hostVars
  <2>2. CASE /\ addr[pos] # NoAddr /\ ips' = Append(ips, addr[pos])
             /\ NextNode("launch", "distinct") /\ UNCHANGED <<hostVars, lost>>
    <3>1. addr[pos] \in Addrs /\ Len(ips) = pos - 1
      BY <2>2, <1>2 DEF WaitForIPv4
    <3>2. ips' \in Seq(Addrs) /\ Len(ips') = pos
      BY <2>2, <3>1
    <3>. QED
      BY <2>2, <3>2, <1>2 DEF NextNode, hostVars, WaitForIPv4
  <2>. QED
    BY <1>2, <2>1, <2>2 DEF WaitForIPv4
<1>3. CASE assertDistinctIPs
  BY <1>3 DEF assertDistinctIPs, Fail, hostVars
<1>4. CASE SkipNode
  BY <1>4 DEF SkipNode, NextNode, hostVars
<1>5. CASE CannotPatch
  BY <1>5 DEF CannotPatch, Fail, hostVars
<1>6. CASE ApplyConfig
  <2>. USE <1>6
  <2>1. pc = "apply" /\ Len(ips) > 0 /\ patchConfig(pos) \in Configs
    BY PatchedConfig DEF ApplyConfig
  <2>2. ASSUME NEW v \in InMaintenanceAt(ips[pos]), Takes(v)
        PROVE  /\ config' \in [VMs -> Configs \cup {NoConfig}]
               /\ UNCHANGED <<dnsDomain, booted, addr, resolver, moves>>
    BY <2>1, <2>2 DEF Takes, InMaintenanceAt
  <2>3. UNCHANGED hostVars =>
          /\ config' \in [VMs -> Configs \cup {NoConfig}]
          /\ UNCHANGED <<dnsDomain, booted, addr, resolver, moves>>
    BY DEF hostVars
  <2>4. /\ config' \in [VMs -> Configs \cup {NoConfig}]
        /\ UNCHANGED <<dnsDomain, booted, addr, resolver, moves, ips>>
        /\ lost' \subseteq Nodes
    BY <2>2, <2>3 DEF ApplyConfig, TakeAndAnswer
  <2>5. RetryUntilLate \/ NextNode("apply", "save")
    BY DEF ApplyConfig, TakeAndAnswer
  <2>. QED
    BY <2>1, <2>4, <2>5 DEF RetryUntilLate, NextNode
<1>7. CASE Save
  <2>1. CASE Fail
    BY <2>1 DEF Fail, hostVars
  <2>2. CASE ~Fail
    <3>1. /\ pc = "save" /\ pc' = "created"
          /\ UNCHANGED <<hostVars, pos, ips, late, lost>>
      BY <1>7, <2>2 DEF Save
    <3>. QED
      BY <3>1 DEF hostVars
  <2>. QED
    BY <2>1, <2>2
<1>8. CASE DeadlinePasses
  BY <1>8 DEF DeadlinePasses, hostVars
<1>9. CASE HostStep
  <2>1. UNCHANGED <<config, createVars>>
    BY <1>9 DEF HostStep, Lease, Restart, RebootHost, CreateDNSDomain
  <2>2. /\ booted' \subseteq VMs /\ addr' \in [VMs -> Addrs \cup {NoAddr}]
        /\ moves' \in 0 .. MaxMoves
    <3>. USE ReconcileAssumption
    <3>1. ASSUME NEW v \in VMs, Lease(v) PROVE <2>2!:
      BY <3>1 DEF Lease
    <3>2. ASSUME NEW v \in VMs, Restart(v) PROVE <2>2!:
      BY <3>2 DEF Restart
    <3>3. CASE RebootHost
      BY <3>3 DEF RebootHost
    <3>4. CASE CreateDNSDomain
      BY <3>4 DEF CreateDNSDomain
    <3>. QED
      BY <1>9, <3>1, <3>2, <3>3, <3>4 DEF HostStep
  <2>. QED
    BY <2>1, <2>2 DEF createVars
<1>10. CASE UNCHANGED vars
  BY <1>10 DEF vars, hostVars, createVars
<1>. QED
  BY <1>1, <1>2, <1>3, <1>4, <1>5, <1>6, <1>7, <1>8, <1>9, <1>10
  DEF Next, CreateStep

LEMMA PatchedNext == EInv /\ [Next]_vars => Patched'
<1>. SUFFICES ASSUME EInv, [Next]_vars PROVE Patched'
  OBVIOUS
<1>. USE DEF EInv
<1>1. ASSUME UNCHANGED <<config, ips, resolver, dnsDomain>> PROVE Patched'
  BY <1>1 DEF Patched, endpoint, endpointOfNode
<1>2. CASE Launch \/ assertDistinctIPs \/ SkipNode \/ CannotPatch \/ Save
           \/ DeadlinePasses \/ UNCHANGED vars
  BY <1>1, <1>2 DEF Launch, assertDistinctIPs, SkipNode, CannotPatch, Save,
     DeadlinePasses, Fail, vars, hostVars, createVars
(* Addresses are recorded before the first config is applied.                *)
<1>3. CASE WaitForIPv4
  <2>1. pc = "address" /\ UNCHANGED <<config, resolver, dnsDomain>>
    BY <1>3 DEF WaitForIPv4, Fail, hostVars
  <2>2. \A v \in VMs : config[v] = NoConfig
    BY <2>1 DEF Progress
  <2>. QED
    BY <2>1, <2>2 DEF Patched
<1>4. CASE ApplyConfig
  <2>1. /\ pos \in Nodes /\ ips \in Seq(Addrs) /\ Len(ips) > 0
        /\ config \in [VMs -> Configs \cup {NoConfig}]
    BY <1>4, Constants DEF ApplyConfig, TypeOK, Progress
  <2>2. UNCHANGED <<ips, resolver, dnsDomain>>
    BY <1>4 DEF ApplyConfig, TakeAndAnswer, Takes, hostVars
  <2>3. endpoint' = endpoint
    BY <2>2 DEF endpoint, endpointOfNode
  <2>4. CASE UNCHANGED config
    BY <1>1, <2>2, <2>4
  <2>5. ASSUME NEW v \in VMs, config' = [config EXCEPT ![v] = patchConfig(pos)]
        PROVE  Patched'
    BY <2>1, <2>2, <2>3, <2>5, PatchedConfig DEF Patched
  <2>6. \/ UNCHANGED config
        \/ \E v \in VMs : config' = [config EXCEPT ![v] = patchConfig(pos)]
    BY <1>4 DEF ApplyConfig, TakeAndAnswer, Takes, InMaintenanceAt, TypeOK,
       hostVars
  <2>. QED
    BY <2>4, <2>5, <2>6
<1>5. CASE HostStep
  <2>1. UNCHANGED <<config, ips, dnsDomain>>
    BY <1>5 DEF HostStep, Lease, Restart, RebootHost, CreateDNSDomain,
       createVars
  <2>2. resolver' = resolver \/ resolver' = FALSE \/ dnsDomain
    BY <1>5 DEF HostStep, Lease, Restart, RebootHost, CreateDNSDomain
  <2>3. resolver' => dnsDomain
    BY <2>2 DEF Patched
  <2>. QED
    BY <2>1, <2>3 DEF Patched, endpoint, endpointOfNode
<1>. QED
  BY <1>2, <1>3, <1>4, <1>5 DEF Next, CreateStep

LEMMA EInvariant == Spec => []EInv
<1>1. EInv /\ [Next]_vars => EInv'
  BY TypeNext, PatchedNext DEF EInv
<1>. QED
  BY <1>1, EInit, PTL DEF Spec

(* Every variable keeps its type, whatever the host does.                    *)
THEOREM TypeCorrect == Spec => []TypeOK
<1>1. EInv => TypeOK
  BY DEF EInv
<1>. QED
  BY <1>1, EInvariant, PTL

(* A created cluster is reached at the endpoint its configs carry: through   *)
(* any restarts if it is a name, while the address stays if it is one.       *)
THEOREM Endpoint == Spec => []EndpointWorks
<1>1. EInv => EndpointWorks
  <2>. SUFFICES ASSUME EInv, HasOwnConfig(1), addr[1] # NoAddr
                PROVE  EndpointWorks
    BY DEF EndpointWorks
  <2>1. /\ \A v \in VMs : config[v] # NoConfig => config[v].endpoint = endpoint
        /\ config[1] # NoConfig /\ 1 \in VMs
    BY Constants DEF EInv, Patched, HasOwnConfig
  <2>2. ASSUME resolver PROVE Connects(endpoint, 1)
    <3>1. /\ dnsDomain
          /\ endpoint \in config[1].apiServerSANs
          /\ endpoint \in config[1].machineSANs
      BY <2>1, <2>2 DEF EInv, Patched
    <3>2. endpoint = NameOf(1)
      BY <3>1 DEF endpoint, endpointOfNode
    <3>3. Resolve(endpoint) = addr[1]
      BY <2>2, <3>2 DEF Resolve, NameOf
    <3>. QED
      BY <3>1, <3>3 DEF Connects
  <2>3. ASSUME ~dnsDomain, addr[1] = ips[1] PROVE Connects(endpoint, 1)
    BY <2>3 DEF endpoint, endpointOfNode, Connects, Resolve, AddressOf
  <2>. QED
    BY <2>1, <2>2, <2>3 DEF EndpointWorks
<1>. QED
  BY <1>1, EInvariant, PTL

-----------------------------------------------------------------------------
(* Where the nodes are.  vmnet gives no address twice; while the create runs *)
(* at most one node is not where it was recorded; and once the addresses are *)
(* known to differ, no other node can be at the one a config is sent to.     *)
Unmoved(m) == \A i \in DOMAIN ips : i # m => addr[i] = ips[i]
Injective == \A i, j \in DOMAIN ips : ips[i] = ips[j] => i = j
Alone ==
  /\ \A v, w \in VMs : addr[v] = addr[w] /\ addr[v] # NoAddr => v = w
  /\ pc \notin Over => moves <= 1
  /\ pc \notin Over /\ moves = 0 => Unmoved(0)
  /\ pc \notin Over => \E m \in 0 .. Len(Reqs) : Unmoved(m)
  /\ pc \in {"apply", "save"} => Injective

(* What has been applied: the loop is in order, and a node that has left     *)
(* maintenance mode before its turn is over has answered nobody.             *)
Applied ==
  /\ pc = "apply" =>
       /\ \A i \in Injected : i < pos => HasOwnConfig(i)
       /\ \A i \in Nodes : i > pos => config[i] = NoConfig
       /\ config[pos] # NoConfig => pos \in lost
  /\ pc \in {"save", "created"} => \A i \in Injected : HasOwnConfig(i)

Delivery == RightNode /\ CreatedMeansConfigured /\ InOrder /\ OnlyLostAnswersMislead
AInv == EInv /\ Alone /\ Applied /\ Delivery

Quiet == Others = {} /\ MaxMoves <= 1

LEMMA OnlyItsOwn ==
  ASSUME Quiet, EInv, Alone, pc = "apply", NEW v \in InMaintenanceAt(ips[pos])
  PROVE  v = pos
<1>1. /\ VMs = Nodes /\ DOMAIN ips = Nodes /\ pos \in Nodes /\ v \in Nodes
      /\ addr[v] = ips[pos] /\ addr[v] # NoAddr
  BY Constants, ReconcileAssumption
  DEF Quiet, VMs, EInv, TypeOK, Progress, InMaintenanceAt
<1>2. PICK m \in 0 .. Len(Reqs) : Unmoved(m)
  BY DEF Alone, Over
<1>3. Injective
  BY DEF Alone
<1>4. CASE v # m
  BY <1>1, <1>2, <1>3, <1>4 DEF Unmoved, Injective
<1>5. CASE pos # m
  <2>1. addr[pos] = addr[v]
    BY <1>1, <1>2, <1>5 DEF Unmoved
  <2>. QED
    BY <1>1, <2>1 DEF Alone
<1>. QED
  BY <1>4, <1>5

LEMMA AloneInit == Init => Alone
<1>. SUFFICES ASSUME Init PROVE Alone
  OBVIOUS
<1>1. Unmoved(0)
  BY DEF Init, Unmoved
<1>. QED
  BY <1>1, Constants DEF Init, Alone, Over

(* Create moves no node, and adds an address only from where the node is.    *)
LEMMA AloneNext == Quiet /\ EInv /\ Alone /\ [Next]_vars => Alone'
<1>. SUFFICES ASSUME Quiet, EInv, Alone, [Next]_vars PROVE Alone'
  OBVIOUS
<1>1. ASSUME UNCHANGED <<addr, moves, ips>>, pc' \notin Over => pc \notin Over,
             pc' \in {"apply", "save"} => pc \in {"apply", "save"} \/ Injective
      PROVE  Alone'
  BY <1>1 DEF Alone, Unmoved, Injective
<1>2. CASE Launch \/ assertDistinctIPs \/ SkipNode \/ CannotPatch \/ Save
           \/ DeadlinePasses \/ UNCHANGED vars
  BY <1>1, <1>2 DEF Launch, assertDistinctIPs, SkipNode, CannotPatch, Save,
     DeadlinePasses, Fail, vars, hostVars, createVars, NextNode, Over, Injective
<1>3. CASE ApplyConfig
  BY <1>1, <1>3 DEF ApplyConfig, TakeAndAnswer, Takes, RetryUntilLate,
     NextNode, hostVars, Over
<1>4. CASE WaitForIPv4
  <2>1. CASE Fail
    BY <1>1, <2>1 DEF Fail, hostVars, Over
  <2>2. CASE /\ pc = "address" /\ ips' = Append(ips, addr[pos])
             /\ NextNode("launch", "distinct") /\ UNCHANGED <<hostVars, lost>>
    <3>1. /\ pc' \in {"launch", "distinct"} /\ pc \notin Over
          /\ UNCHANGED <<addr, moves>>
      BY <2>2 DEF NextNode, hostVars, Over
    <3>2. ASSUME NEW m, Unmoved(m) PROVE Unmoved(m)'
      <4>1. Len(ips) = pos - 1 /\ ips \in Seq(Addrs) /\ pos \in Nat
        BY <2>2, Constants DEF EInv, Progress, TypeOK
      <4>2. /\ DOMAIN ips' = 1 .. pos /\ ips'[pos] = addr[pos]
            /\ \A i \in DOMAIN ips : ips'[i] = ips[i]
            /\ DOMAIN ips = 1 .. pos - 1
        BY <2>2, <4>1
      <4>. QED
        BY <3>1, <3>2, <4>1, <4>2 DEF Unmoved
    <3>. QED
      BY <3>1, <3>2 DEF Alone, Over
  <2>. QED
    BY <1>4, <2>1, <2>2 DEF WaitForIPv4
<1>5. CASE HostStep
  <2>0. UNCHANGED <<pc, ips>>
    BY <1>5 DEF HostStep, Lease, Restart, RebootHost, CreateDNSDomain,
       createVars
  <2>. USE <2>0 DEF EInv, TypeOK
  <2>1. ASSUME NEW v \in VMs, Lease(v) PROVE Alone'
    <3>1. PICK a \in Addrs \ Taken : addr' = [addr EXCEPT ![v] = a]
      BY <2>1 DEF Lease
    <3>2. addr[v] = NoAddr /\ moves' = moves
      BY <2>1 DEF Lease
    <3>3. \A u, w \in VMs : addr'[u] = addr'[w] /\ addr'[u] # NoAddr => u = w
      BY <3>1, <3>2 DEF Alone, Taken
    <3>4. ASSUME NEW i \in DOMAIN ips, addr[i] = ips[i], i \in VMs
          PROVE  addr'[i] = ips'[i]
      <4>1. ips[i] \in Addrs
        BY <3>4
      <4>. QED
        BY <3>1, <3>2, <3>4, <4>1, ReconcileAssumption
    <3>5. \A i \in DOMAIN ips : i \in VMs
      BY Constants
    <3>6. ASSUME NEW m, Unmoved(m) PROVE Unmoved(m)'
      BY <3>4, <3>5, <3>6 DEF Unmoved
    <3>. QED
      BY <3>2, <3>3, <3>6 DEF Alone, Injective
  <2>2. ASSUME NEW v \in VMs, Restart(v) PROVE Alone'
    <3>1. addr' = [addr EXCEPT ![v] = NoAddr]
      BY <2>2 DEF Restart
    <3>2. \A u, w \in VMs : addr'[u] = addr'[w] /\ addr'[u] # NoAddr => u = w
      BY <3>1 DEF Alone
    <3>3. CASE pc \in Over
      BY <3>2, <3>3 DEF Alone, Over
    <3>4. CASE pc \notin Over
      <4>1. moves' = 1 /\ moves = 0 /\ v \in Nodes
        BY <2>2, <3>4, ReconcileAssumption DEF Restart, Quiet, VMs
      <4>2. Unmoved(0) /\ v \in 0 .. Len(Reqs)
        BY <3>4, <4>1, Constants DEF Alone
      <4>3. \A i \in DOMAIN ips : i \in VMs /\ i # 0
        BY Constants
      <4>4. Unmoved(v)'
        BY <3>1, <4>2, <4>3 DEF Unmoved
      <4>. QED
        BY <3>2, <4>1, <4>2, <4>4 DEF Alone, Injective
    <3>. QED
      BY <3>3, <3>4
  <2>3. CASE RebootHost
    BY <2>3 DEF RebootHost, Alone, Over
  <2>4. CASE CreateDNSDomain
    BY <2>4 DEF CreateDNSDomain, Alone, Unmoved, Injective
  <2>. QED
    BY <1>5, <2>1, <2>2, <2>3, <2>4 DEF HostStep
<1>. QED
  BY <1>2, <1>3, <1>4, <1>5 DEF Next, CreateStep

LEMMA AppliedInit == Init => Applied /\ Delivery
BY Constants, ReconcileAssumption DEF Nodes, Init, Applied, Delivery, RightNode, CreatedMeansConfigured, InOrder,
   OnlyLostAnswersMislead, HasOwnConfig, VMs

Own(c, i) == c # NoConfig /\ c.req = i

(* The two ways out of a node's turn: its config is there and the loop goes  *)
(* on, or the try is repeated or given up.                                   *)
LEMMA TurnEnds ==
  ASSUME AInv, pc = "apply", pos \in Injected => Own(config'[pos], pos),
         NextNode("apply", "save"), UNCHANGED lost,
         \A v \in VMs : v # pos => config'[v] = config[v],
         config'[pos] = config[pos] \/ Own(config'[pos], pos)
  PROVE  Applied' /\ Delivery'
<1>. USE DEF AInv, EInv, HasOwnConfig, Own
<1>1. /\ pos \in Nodes /\ Nodes \subseteq VMs /\ Injected \subseteq Nodes
      /\ Nodes = 1 .. Len(Reqs) /\ Len(Reqs) \in Nat
  BY Constants, ReconcileAssumption DEF TypeOK, Nodes
<1>2. \A i \in Injected : i <= pos => HasOwnConfig(i)'
  BY <1>1 DEF Applied
<1>3. \A i \in Nodes : i > pos => config'[i] = NoConfig
  BY <1>1 DEF Applied
<1>4. RightNode'
  BY <1>1 DEF Delivery, RightNode
<1>5. InOrder'
  BY <1>1, <1>2, <1>3 DEF InOrder
<1>6. Applied'
  BY <1>1, <1>2, <1>3 DEF NextNode, Applied
<1>7. CreatedMeansConfigured' /\ OnlyLostAnswersMislead'
  BY DEF NextNode, CreatedMeansConfigured, OnlyLostAnswersMislead
<1>. QED
  BY <1>4, <1>5, <1>6, <1>7 DEF Delivery

LEMMA TryFails ==
  ASSUME AInv, pc = "apply", RetryUntilLate, lost \subseteq lost',
         \A v \in VMs : v # pos => config'[v] = config[v],
         config'[pos] = config[pos] \/ (Own(config'[pos], pos) /\ pos \in lost')
  PROVE  Applied' /\ Delivery'
<1>. USE DEF AInv, EInv, HasOwnConfig, Own
<1>1. /\ pos \in Nodes /\ Nodes \subseteq VMs /\ Injected \subseteq Nodes
      /\ Nodes = 1 .. Len(Reqs) /\ Len(Reqs) \in Nat
  BY Constants, ReconcileAssumption DEF TypeOK, Nodes
<1>2. RightNode'
  BY <1>1 DEF Delivery, RightNode
<1>3. \A i \in Injected : i < pos => HasOwnConfig(i)'
  BY <1>1 DEF Applied
<1>4. \A i \in Nodes : i > pos => config'[i] = NoConfig
  BY <1>1 DEF Applied
<1>5. InOrder'
  BY <1>1, <1>3, <1>4 DEF InOrder
<1>6. pos' = pos /\ (config'[pos] # NoConfig => pos \in lost')
  BY DEF RetryUntilLate, Applied
<1>7. Applied'
  BY <1>3, <1>4, <1>6 DEF RetryUntilLate, Applied
<1>8. CreatedMeansConfigured' /\ OnlyLostAnswersMislead'
  BY <1>6 DEF RetryUntilLate, CreatedMeansConfigured, OnlyLostAnswersMislead
<1>. QED
  BY <1>2, <1>5, <1>7, <1>8 DEF Delivery

LEMMA AppliedNext == Quiet /\ AInv /\ [Next]_vars => Applied' /\ Delivery'
<1>. SUFFICES ASSUME Quiet, AInv, [Next]_vars PROVE Applied' /\ Delivery'
  OBVIOUS
<1>0. /\ pos \in Nodes /\ Nodes \subseteq VMs /\ Injected \subseteq Nodes
      /\ Nodes = 1 .. Len(Reqs) /\ Len(Reqs) \in Nat
      /\ config \in [VMs -> Configs \cup {NoConfig}]
  BY Constants, ReconcileAssumption DEF AInv, EInv, TypeOK, Nodes
<1>1. ASSUME UNCHANGED <<config, lost>>,
             \/ UNCHANGED <<pc, pos>> /\ (pc = "apply" \/ late' = late)
             \/ pc' = "failed" /\ (late' => pc = "apply" /\ pos' = pos)
             \/ pc = "save" /\ pc' = "created"
             \/ pc \in {"launch", "address"} /\ pc' \in {"launch", "address", "distinct"}
      PROVE  Applied' /\ Delivery'
  BY <1>1 DEF AInv, Applied, Delivery, RightNode, CreatedMeansConfigured,
     InOrder, OnlyLostAnswersMislead, HasOwnConfig
<1>2. late => pc \in {"apply", "failed"}
  BY DEF AInv, EInv, Progress
<1>3. CASE Launch \/ Save \/ CannotPatch \/ DeadlinePasses \/ UNCHANGED vars
  BY <1>1, <1>2, <1>3 DEF Launch, Save, CannotPatch, DeadlinePasses, Fail,
     vars, hostVars, createVars
<1>4. CASE WaitForIPv4
  BY <1>1, <1>2, <1>4 DEF WaitForIPv4, NextNode, Fail, hostVars
<1>5. CASE assertDistinctIPs
  <2>1. CASE Fail
    BY <1>1, <1>2, <1>5, <2>1 DEF Fail, assertDistinctIPs, hostVars
  <2>2. CASE pc' = "apply" /\ UNCHANGED <<hostVars, pos, ips, late, lost>>
    <3>1. \A v \in VMs : config'[v] = NoConfig
      BY <1>5, <2>2 DEF assertDistinctIPs, AInv, EInv, Progress, hostVars
    <3>2. pc' = "apply" /\ pos' = pos /\ pos = 1
      BY <1>5, <2>2 DEF assertDistinctIPs, AInv, EInv, Progress
    <3>3. Applied'
      BY <1>0, <3>1, <3>2 DEF Applied
    <3>4. Delivery'
      BY <1>0, <3>1, <3>2 DEF Delivery, RightNode, CreatedMeansConfigured,
         InOrder, OnlyLostAnswersMislead, HasOwnConfig
    <3>. QED
      BY <3>3, <3>4
  <2>. QED
    BY <1>5, <2>1, <2>2 DEF assertDistinctIPs
<1>6. CASE SkipNode
  <2>1. UNCHANGED <<config, lost>> /\ pc = "apply" /\ pos \notin Injected
    BY <1>6 DEF SkipNode, hostVars
  <2>. QED
    BY <1>0, <1>6, <2>1, TurnEnds DEF SkipNode
<1>7. CASE ApplyConfig
  <2>1. pc = "apply" /\ Len(ips) > 0 /\ ips \in Seq(Addrs)
    BY <1>0, <1>7 DEF ApplyConfig, AInv, EInv, Progress, TypeOK
  <2>2. ASSUME NEW v \in InMaintenanceAt(ips[pos]), Takes(v)
        PROVE  /\ Own(config'[pos], pos)
               /\ \A w \in VMs : w # pos => config'[w] = config[w]
    <3>1. v = pos
      BY <2>1, OnlyItsOwn DEF AInv
    <3>2. config' = [config EXCEPT ![pos] = patchConfig(pos)]
      BY <2>2, <3>1 DEF Takes
    <3>3. /\ config'[pos] = patchConfig(pos)
          /\ \A w \in VMs : w # pos => config'[w] = config[w]
      BY <1>0, <3>2
    <3>. QED
      BY <1>0, <2>1, <3>3, PatchedConfig, ConfigIsSome DEF Own
  <2>3. ASSUME NEW v \in InMaintenanceAt(ips[pos]), TakeAndAnswer(v)
        PROVE  Applied' /\ Delivery'
    BY <2>1, <2>2, <2>3, TurnEnds DEF TakeAndAnswer
  <2>4. ASSUME NEW v \in InMaintenanceAt(ips[pos]), Takes(v),
               lost' = lost \cup {pos}, RetryUntilLate
        PROVE  Applied' /\ Delivery'
    BY <2>1, <2>2, <2>4, TryFails
  <2>5. CASE RetryUntilLate /\ UNCHANGED <<hostVars, ips, lost>>
    BY <2>1, <2>5, TryFails DEF hostVars
  <2>. QED
    BY <1>7, <2>3, <2>4, <2>5 DEF ApplyConfig
<1>8. CASE HostStep
  <2>1. UNCHANGED <<config, createVars>>
    BY <1>8 DEF HostStep, Lease, Restart, RebootHost, CreateDNSDomain
  <2>. QED
    BY <1>1, <2>1 DEF createVars
<1>. QED
  BY <1>3, <1>4, <1>5, <1>6, <1>7, <1>8 DEF Next, CreateStep

LEMMA Delivered == Quiet => (Spec => []Delivery)
<1>. SUFFICES ASSUME Quiet PROVE Spec => []Delivery
  OBVIOUS
<1>1. Init => AInv
  BY EInit, AloneInit, AppliedInit DEF AInv
<1>2. AInv /\ [Next]_vars => AInv'
  <2>1. EInv /\ [Next]_vars => EInv'
    BY TypeNext, PatchedNext DEF EInv
  <2>. QED
    BY <2>1, AloneNext, AppliedNext DEF AInv
<1>3. AInv => Delivery
  BY DEF AInv
<1>. QED
  BY <1>1, <1>2, <1>3, PTL DEF Spec

(* With nobody else in maintenance mode on the network and at most one       *)
(* restart during the create, a config reaches the node it was made for.     *)
THEOREM OwnConfig == Quiet => (Spec => []RightNode)
<1>1. Delivery => RightNode
  BY DEF Delivery
<1>. QED
  BY <1>1, Delivered, PTL

(* On such a network a create that reports success configured every node.    *)
THEOREM Success == Quiet => (Spec => []CreatedMeansConfigured)
<1>1. Delivery => CreatedMeansConfigured
  BY DEF Delivery
<1>. QED
  BY <1>1, Delivered, PTL

(* On such a network configs are taken in launch order, without gaps.        *)
THEOREM LaunchOrder == Quiet => (Spec => []InOrder)
<1>1. Delivery => InOrder
  BY DEF Delivery
<1>. QED
  BY <1>1, Delivered, PTL

(* On such a network a failure at a node's config means the node has none,   *)
(* unless the answer of an apply that worked was lost.                       *)
THEOREM HonestFailure == Quiet => (Spec => []OnlyLostAnswersMislead)
<1>1. Delivery => OnlyLostAnswersMislead
  BY DEF Delivery
<1>. QED
  BY <1>1, Delivered, PTL
=============================================================================
