# Verification of the Apple `container` provisioner

TLA+ modules, TLC configurations and TLAPS proofs for `provider/apple` and
`cmd/aegis`: a Talos provisioner whose whole runtime is the `container` CLI of
macOS, one exec per operation, without a daemon, a lock or a transaction of its
own. Paths below are relative to the repository root; the modules live in this
directory.

## 1. The system

### Components

| component | source | state it keeps | operations |
|---|---|---|---|
| `aegis` command | `cmd/aegis/main.go` | nothing between runs | `run`: requests from the flags, Create, then the talosconfig; `runDestroy`: Reflect, ClusterRef if there is no record, Destroy |
| Create | `provider/apple/create.go`, `node.go` | locals: ordered requests, the node infos so far | validate, NewState, ensureNetwork, DNS precheck, prepareNodeVolumes, createNodes, assertDistinctIPs, reconcileConfigs, Save |
| Destroy | `provider/apple/destroy.go` | locals: the collected errors | recorded-state pass, label sweep, destroyNetwork, RemoveAll |
| Reflect, ClusterRef, result | `reflect.go`, `result.go` | a cluster value (info, state path) | ReadState; a nodeless stand-in |
| CLI wrappers | `container.go` | none | run, stop, remove, volumeCreate, volumeExists, volumeDelete, the two lists by label, inspectIPv4, checkDNSDomain |
| network | `network.go` | none | ensureNetwork, destroyNetwork |
| names | `node.go`, `main.go` | none | node names, nodeFQDN, nodeVolumeNames, sanitizeVolumeName, clusterStatePath, labels |
| launch recipe | `node.go` | none | buildRunArgs, nodeTmpfsPaths |
| reconcileConfigs | `reconcile.go`, `node.go` | a temporary file per apply | waitForIPv4, endpointOfNode, patchConfig, applyConfig with retries |
| provisioner interface | `apple.go` | Config | the generated endpoint; constant answers to talosctl |
| talosctl glue | `upstream/` | none | flags and request makers for the Talos tree; a cancellable context |
| external: container runtime, vmnet | not in the repository | containers, volumes, networks, leases | what the CLI does |
| external: `provision.State` | not in the repository | `<state-dir>/<cluster>/state.yaml` | NewState, Save, ReadState |

### How they interact

`main` builds a request and calls Create, or calls Reflect and Destroy. Every
call below them execs the CLI or touches the state directory, in program order,
in one goroutine. Nothing locks: two invocations of `aegis` (two terminals, a
script that retries, `talosctl` next to `aegis`) share the host's containers,
volumes, networks and the state directory, and their steps interleave at every
exec. The state directory says which nodes a cluster has; labels say which
containers and volumes belong to it; volume names are derived from the names
again at create, launch and destroy. The three must agree for a destroy to find
everything and nothing else. Inside a create, nodes get their addresses from
vmnet while the code polls for them, and their configs at those addresses.

### What is hard

* Any exec can fail, or take effect and lose its answer, and the process can be
  killed between any two; the command it was waiting for then goes on alone.
  Create rolls nothing back; Destroy must reclaim what is left from the record,
  and from the labels when there is no record.
* Destroy collects errors and goes on, then removes the record whatever
  happened, so that a retry starts with less knowledge than the first attempt.
* "Not found" answers are successes for stop, rm and delete; a missing binary
  answers "executable file not found".
* The checks (state directory exists, volume exists) are separate from the acts
  they protect, and the volumes checked before the first launch are mounted
  after it.
* `state.yaml` is truncated before it is written.
* The waits poll: an exec may hang, an answer may come after the deadline, an
  apply whose answer was lost is retried against a node that has left
  maintenance mode, and leases move.
* Names: the empty cluster name, names that collide after sanitizing, names
  that hold the separator, two clusters on one network, containers of other
  tools on the host.

What makes each component correct is stated in section 4 with the run that
checks it. The hazards, at their lines, are in `PROJECT.json`.

## 2. The modules

| module | models | notes |
|---|---|---|
| `NodeIdentity` | the names derived for nodes and volumes, launch order | a name is a record of its parts; `Sanitized` is a constant, so that both the injective and the colliding case can be checked |
| `ContainerRuntime` | the CLI wrappers and what the CLI does | one operator per wrapper: how the exec went (`r`), the state change, the error the wrapper returns (`err`) |
| `StateDir` | the state directory and `state.yaml` | NewState in two steps (stat, mkdir), Save in two (truncate, encode), RemoveAll in two (files, directory) |
| `Provisioner` | Create, Destroy and `main`, as processes | one action per exec or file access; extends the three above and owns the properties |
| `Ledger` | what create and destroy promise of one cluster | abstract: things acquired and released one by one, four outcomes; `Provisioner` implements one ledger per cluster |
| `Recovery` | failures that stop and an operator who retries | a second instance of `Provisioner` without faults, kills and creates, switched to by `CalmsDown` |
| `Orphans` | commands that outlive the `aegis` that waited for them | composes `Recovery` with a set of delayed commands |
| `Reconcile` | the inside of one create: launch, address, distinct addresses, patch, apply | addresses, leases, restarts, the DNS resolver, certificates |
| `PollLoop` | the loop that waitForIPv4 and applyConfig share | a clock, execs that take time, fail or hang, cancellation |
| `Await` | what Create takes that loop for | abstract: one call that succeeds if the node was ready at a moment of it, or fails |
| `LaunchRecipe` | from the flags to the arguments of `container run` | names and paths as sequences, the sanitizer, 64-bit memory limits, the order of mounts |
| `MCProvisioner`, `MCRecovery`, `MCLock`, `MCOrphans`, `MCReconcile`, `MCLaunchRecipe` | constant values for TLC | `MCLock` extends `LedgerProofs` and `MCOrphans` extends `OrphansProofs`, so that TLC evaluates their invariants |
| `ProvisionerProofs`, `CreateProofs`, `DestroyProofs` | theorems about `Provisioner` | each extends the one before it |
| `LedgerProofs` | `Provisioner` implements `Ledger` | extends `DestroyProofs` |
| `OrphansProofs` | theorems about `Recovery` and `Orphans` | extends `Orphans` and `LedgerProofs` |
| `ReconcileProofs`, `PollLoopProofs`, `LaunchRecipeProofs` | theorems about those modules | |

`Provisioner` takes each wait of Create for a single step. `PollLoop` justifies
that by implementing `Await`; `Reconcile` opens the steps `Launch`,
`WaitForIPv4` and `ReconcileConfigs` of `Provisioner` and adds the addresses
they are about, with the same single-step wait for an address and the retries
of an apply one by one. `LaunchRecipe` opens `runNode`'s arguments: its
`NamesApart` is why `NodeIdentity` may treat a joined name as the record of its
parts.

### State and code

* `containers`, `volumes`, `networks` are what `container list --all`, `volume
  list` and `network list` would show. A container is its `--name`, its
  `talos.cluster.name` label (`EmptyName` when it has none, as a missing key of
  a Go map reads) and whether it runs. A volume also remembers whether a node
  has ever run on it (`booted`): the code cannot see that, the stale-volume rule
  is about it.
* `dirs`, `yaml` are the state directories and their records: `absent`, `torn`
  (exists, does not decode) or `saved` with the node infos and network name.
* `proc[p]` holds the locals of the invocation in slot `p` and its program
  counter. A slot is reused when the invocation ends, so that a run has any
  number of invocations, at most `Cardinality(Procs)` at once. `rivals` is the
  only history: which kinds of other invocation on this cluster overlapped this
  one. No guard reads it.

The phases are in program order. For Create: `validate` (create.go:25), `stat`
and `mkdir` (:41), `network` (:48), `dns` (:58), `volExists` and `volCreate`
(:168, :181), `launch` and `address` (node.go:217, :228), `reconcile`
(create.go:89-97), `saveOpen` and `saveWrite` (:122), `talosconfig`
(main.go:163). Volumes are all created before the first launch, as in the code.
For Destroy: `reflect` (main.go:176), `stop`, `rm`, `delVol` (destroy.go:88-99),
`listC`, `sweepStop`, `sweepRm` (:122-134), `listV`, `sweepVol` (:138-144),
`delNet` (:62), `rmRecord`, `rmDir` (:69). Create leaves at its first error
(`Fail`); Destroy notes errors (`Note`) and goes on.

In `Reconcile`, `addr` and `config` are a node's lease and the machine config
it has taken, `ips` the addresses recorded in the node infos, `late` whether the
current applyConfig is past its deadline, `moves` counts restarts during the
create. In `PollLoop`, `now` counts seconds since the wait began; `answer` is
what the running exec will return. In `Orphans`, an orphan is the record of the
invocation that was killed, and `Command` reads from it what it had asked for.

### Assumptions about code outside the repository

They follow from how the wrappers interpret the CLI, from its error texts that
the tests quote, and from `docs/runbook.md` and `docs/VERIFICATION.md`.

* `container run` needs a free name, both named volumes and the network, and is
  otherwise atomic; `volume create` fails on a name that exists; `rm` refuses a
  running container; `volume delete` refuses a volume that a container mounts;
  `network delete` refuses a network with containers attached.
* An exec is atomic. In `Provisioner` a killed `aegis` has either had the effect
  of its last exec or not; in `Orphans` it may have it later.
* vmnet hands out any address of the subnet that is free and reserves none; a
  node that restarts gets a new lease. A node in maintenance mode takes any
  config; one that has a config keeps it, on its volume, and takes none.
* A context that is done kills the command that runs and lets none start
  (`exec.CommandContext`).
* `provision.NewState` refuses a directory that exists and makes one otherwise;
  `Save` creates the file and then encodes into it; `ReadState` answers
  `ErrNotExist` for a missing file and another error for one that does not
  decode; saving the talosconfig makes its directory.
* The empty name is modelled for `-destroy` only.
* The network name of a request depends on the cluster only (`NetworkOf`):
  `aegis` always names the default network, callers of the provider may name
  another.

## 3. Abstractions

* `Provisioner` leaves out addresses, configs and limits; its waits are single
  steps, for which the node must be running. A node that was launched runs until
  some invocation stops it: one that stops by itself is the cluster's business,
  and `CreateNilMeansUp` is about what invocations do to each other. The order in which the sweep
  handles what it listed is any order. CLI output is already parsed. The DNS
  resolver entry may be there or not at each check.
* `Reconcile` has one create and no destroy; its volumes and record are
  `Provisioner`'s business. The entry in `/etc/resolver` and the pf rule behind
  it, which a reboot takes away, are one bit (`resolver`): a name resolves if
  both are there.
* `PollLoop` counts whole seconds; `ready` stands for "has an address" or "is in
  maintenance mode", and moves at any time.
* `LaunchRecipe` treats a word of lower-case letters as one character: all names
  are taken to be cut into `Characters` the same way, so that the words of the
  code's own formats ("controlplane", "var") are never the end of one word and
  the beginning of another. It works in a scaled-down 64-bit range (`Mib`,
  `HalfRange`) with the same wrap-around.

## 4. Runs

`Faults` lists what an exec may do besides working: `"fails"` (no effect),
`"lost"` (effect, answer lost).

| run | instance | states | checks |
|---|---|---|---|
| `Lifecycle` | one operator, any number of creates and destroys of one cluster; two nodes or a worker alone; with and without domain and binary; all faults and kills until calm, then retried destroys | 141,380 | `TypeOK`, `NilMeansClean`, `FailuresAreNamed`, `CreateNilMeansUp`, `FreshBoot`, `ReclaimedUnlessTorn`, `ImplementsLedger` |
| `Creators` | two creates of one cluster at once, two nodes, with or without domain; all faults, kills | 10,790 | `CreatesInv`, `CreateNilMeansUp`, `FreshBoot`, `RecordSurvivesCreates` |
| `Isolation` | two clusters on a shared named network and a foreign container; creates of both beside destroys of one or of the empty name; failing calls, kills | 1,133,782 | `NilMeansClean`, `OnlyOwnResourcesRemoved`, `RefusedOnlyByOwnVolume` |
| `Strengthening` | two slots that both create and destroy one cluster on a named network, or destroy the empty name; worker-only requests; kills | 311,172 | `IInv`, `LockInv`, `SweepInv`, `NetworkInv`, `LedgerInv`, `VolumesAreTheLock`, `NilMeansNetworkGone`, `ImplementsLedger` |
| `Orphaned` | one operator; a killed invocation leaves its command, which lands at any later moment | 60,852 | `OrphansInv`, `NilMeansNoContainer`, `ReclaimedUnlessTorn` |
| `PollLoop` | waitForIPv4's own numbers: timeout 30, pause 1; execs of up to 3 seconds that fail or hang; a cancellable context | 123,418 | `LoopInv`, `BoundedWait`, `NoFalseTimeout`, `Ends`, `CancelEnds`, `ImplementsAwait` |
| `OneMove` | two control planes and a worker, the second not injected, with or without a domain; four addresses; lost and failing tries; one restart during the create, any number after it, host reboots | 127,219 | `TypeOK`, `RightNode`, `CreatedMeansConfigured`, `InOrder`, `OnlyLostAnswersMislead`, `EndpointWorks` |
| `Recipe` | ten cluster names that collide after sanitizing or look like node names; counts -1 to 2; memory around the end of the range | 11,340 | `NamesApart`, `LimitAsAsked`, `StateOnVolumes` |
| `EmptyTarget`, `SharedNames`, `Recreate`, `TornRecord` | smallest instance of each finding | | violated, see section 5 |

What the properties say:

* `NilMeansClean`: a destroy that reports success, with no create of the cluster
  beside it, has left no container, volume, directory or record of the cluster.
  This covers half-created clusters, missing records, missing binaries, and
  creates that start after the destroy (the destroy's `rivals` then holds
  "create", and it promises nothing).
* `FailuresAreNamed`: one that reports an error has tried everything: what it
  left is something its error names, or something a failed listing hid.
* `CreateNilMeansUp`: a create that reports success, with no destroy beside it,
  has a complete record with a control plane first, and each recorded node runs
  on its own two volumes. It is checked with one operator and with two creates
  at once, and proved of one create at a time beside any destroys and of any
  creates beside none. With a destroy between two creates it does not hold: as
  in finding 3, the overtaken create still runs beside the second one.
* `FreshBoot`: nodes are launched on volumes of their own cluster that no node
  ran on. With creates only, or one create and destroys, it holds although
  the check is long past at the launch; with a destroy and a second create it
  does not (section 5).
* `OnlyOwnResourcesRemoved`: nothing is removed by another cluster's destroy, or
  by one with an empty name; unlabelled containers are never removed.
* `RefusedOnlyByOwnVolume`: the volume on which a create is refused is one that
  a destroy of the same cluster deletes, as the message advises.
* `VolumesAreTheLock`: of two creates at most one gets past prepareNodeVolumes.
  `RecordSurvivesCreates`: so the record of a cluster that came up is not
  overwritten.
* `NilMeansNetworkGone`: a destroy that found a record and reports success has
  deleted the named network. (Without a record the network's name is lost and
  the network stays; nothing in the documentation promises otherwise for that
  case, which `ClusterRef`'s comment describes.)
* `ImplementsLedger`: seen from one cluster, every exec, file access, fault and
  kill acquires or releases at most one thing and changes the record at most
  once; "created" is reported only when everything recorded is there,
  "destroyed" only when nothing is; operations on other clusters change
  nothing. A create promises this only if nothing at all ran beside it: a rival
  create may be one that was overtaken by a destroy which this one never met.
* `ReclaimedUnlessTorn`: under retries everything of a cluster goes away, unless
  its record is torn. `NilMeansNoContainer`: if a delayed command comes into a
  destroy, a success still means that no container is left; only a volume that
  landed after the listing can be.
* `BoundedWait`, `NoFalseTimeout`: a wait whose exec returns lasts at most its
  timeout, a pause and a try, and never times out on a node that was ready a
  try's length before the deadline. `Ends`, `CancelEnds`: it ends or hangs in an
  exec; a cancelled one always ends. `ImplementsAwait`: it is one call.
* `RightNode`, `CreatedMeansConfigured`, `InOrder`, `OnlyLostAnswersMislead`: a
  config is taken by the node it was made for; a successful create configured
  all it was to; configs are taken in launch order without gaps; a failure at a
  node means it has no config, unless an answer was lost. `EndpointWorks`: the
  endpoint of a created cluster is the one in every config and is covered by the
  certificates, kube-apiserver's and apid's; with a domain it leads to the
  control plane through any restart as long as the resolver entry is there,
  without one until its lease moves.
* `NamesApart`: a container name belongs to one node of one cluster and domain,
  a volume name to one node of the clusters whose names the sanitizer takes for
  one another. `LimitAsAsked`: the MB asked for are the MB given, unless that
  many bytes overflow. `StateOnVolumes`: what must survive a restart is on the
  node's volumes although a tmpfs is mounted above one of them.

### Why the bounds are enough

Two slots give every pair of rivals; what a third could do to two is done by one
slot that ends and starts again, as `Strengthening` and `Recreate` do. Two nodes
make both loops go round, and separate "the first node" from "the last"; each
has two volumes. Two clusters are enough for isolation, which relates a resource
to one other cluster. The number of invocations and faults has no bound. Each
run has a fault model of its own because their product is large: two actors with
lost answers and kills at once are in `Creators`, failing calls of two rivals in
`Isolation`, and `Strengthening`, which is about overlaps, leaves faults out; `Lifecycle`
checks the ledger with all of them. The theorems of section 6 have no such bound.

`MaxOrphans` is 1: one command is lost with each kill, and the next kill can
lose another only after the first has landed. `NoContainerLeft` proves the same
of two at a time; with three it is false, as TLC shows with `MaxOrphans` 3: three
killed creates leave a launch and the creation of each of its two volumes, and
all three land, volumes first, between a destroy's listing and its report. No
check in the code excludes it. (Commands are a set: two that agree in everything
the model tells apart count as one.) `Horizon` of `PollLoop` lies just
past the latest moment a wait can end (30 + 1 + 1 + 3), so the clock stops only
where a hanging exec would let it run on. In `Reconcile` one address more than
nodes lets a lease move to a new place and to another node's old one; `MaxMoves`
is 1 because with two restarts inside a create two nodes can swap addresses
after assertDistinctIPs, and then each takes the other's config: no check in the
code excludes it, no document promises it, and TLC shows it with `MaxMoves` 2.
Nor does `OneMove` have another cluster's node in maintenance mode on the
network (`Others` is empty), which could come to a recorded address. In
`Recipe`, up to two nodes of each role separate role from index, and
the memories 15 and 16 are the last that fits and the first that wraps.

`Recipe` checks no deadlock, since a finished command line is the end; the other
passing runs check it.

### Fairness

Safety runs use `Spec`, without fairness. `RecoverySpec` assumes:

* `WF(CalmsDown)`: from some moment on no exec fails, the binary is there, and
  nobody creates or kills;
* `WF(Proceeds(p))`: an invocation that runs goes on. The code is sequential and
  its loops are bounded by data or deadlines; that each exec returns is an
  assumption, since it has no timeout of its own, which `PollLoop`'s `Hang`
  takes back for the waits;
* `WF(Retries(p))`: the operator runs destroy again whenever the last one ended.

`OrphansSpec` adds `WF(Lands)`: a command that was started ends, with or without
its parent. `PollLoop`'s `FairSpec` assumes `WF(Tick)`, that time goes on, and
`WF(LoopStep)`, that a command which has answered exits and a timer that is due
fires; a command that hangs never answers, and no fairness makes it. Strong
fairness is not needed: an enabled step stays enabled until it is taken or
another one ends the wait.

## 5. Findings

1. `EmptyTarget`: `aegis -name "" -destroy` finds no record, makes a ClusterRef
   whose state path is the state directory itself, skips the sweep and removes
   the records of all clusters. `sweepByLabel` guards against the empty name,
   `RemoveAll` does not (destroy.go:66-72, :114).
2. `SharedNames`: cluster names such as `my.lab` and `my-lab` share volume names.
   The second create is refused with "run destroy for this cluster first", which
   does not help (create.go:173-177): the volumes carry the other label.
3. `Recreate`: create 1 makes its volumes and is about to launch; a destroy
   sweeps them and ends; create 2 makes them again and boots its node on them; a
   second destroy removes that node's container, and before it deletes the
   volumes create 1 launches on them. create.go:153 says that a stale volume is
   never reused silently; the check is made only before the first launch, for
   volumes that need not be those the launch mounts.
4. `TornRecord`: a create that fails while encoding `state.yaml` leaves an
   undecodable one, on which `runDestroy` returns before it tears anything down,
   on every retry (main.go:178-180), so manual cleanup is needed, contrary to
   VERIFICATION.md:387.

## 6. Proofs

Proved by TLAPS for all values of the constants that satisfy the named
assumptions (`IdentityAssumption`: the empty name is not a cluster name;
`ProvisionerAssumption`, `ReconcileAssumption`, `PollLoopAssumption`,
`LaunchRecipeAssumption`: the constants have their types, foreign containers
have no node's ID, a control plane comes first; `AlphabetAssumption`: lower case
is lower case, and the formats' words and '-' are valid in a volume name while
'.' is not; `IndexesAssumption`: numbers differ in decimal and hold no role's
word; `OverlaysAssumption`: of Talos's overlays only `/opt` is above
`/opt/cni/bin`):

| theorem | module | statement |
|---|---|---|
| `Ownership`, `TypeCorrect` | `ProvisionerProofs` | `Spec => []IInv`, `Spec => []TypeOK` |
| `Isolation`, `Refusal` | `ProvisionerProofs` | with `SanitizedInjective`, `Spec => OnlyOwnResourcesRemoved`, `Spec => RefusedOnlyByOwnVolume` |
| `LockHeld`, `VolumeLock` | `CreateProofs` | with `SanitizedInjective`, `Spec => []LockInv`, `Spec => []VolumesAreTheLock` |
| `Accounted`, `CleanTeardown`, `NamedFailures` | `DestroyProofs` | `Spec => []SweepInv`, `Spec => []NilMeansClean`, `Spec => []FailuresAreNamed` |
| `NetworkHeld`, `NetworkTornDown` | `DestroyProofs` | with `NetworksApart`, `Spec => []NetworkInv`, `Spec => []NilMeansNetworkGone` |
| `CreatesHeld`, `FreshVolumes`, `RecordKept`, `CreateUp` | `CreateProofs` | with `SanitizedInjective` and `CreatesOnly`, `Spec => []CreatesInv`, `FreshBoot`, `RecordSurvivesCreates`, `[]CreateNilMeansUp` |
| `CountedOn`, `LedgerImplemented` | `LedgerProofs` | with `SanitizedInjective`, `Spec => []LedgerInv`, `Spec => ImplementsLedger` |
| `FreshVolumesOfOne`, `RecordKeptOfOne`, `CreateUpOfOne` | `LedgerProofs` | with `SanitizedInjective` and `OneCreator`, `Spec => FreshBoot`, `RecordSurvivesCreates`, `[]CreateNilMeansUp` |
| `TypeCorrectBeside` | `OrphansProofs` | with `TRUE \in CliPresent`, `OrphansSpec => []TypeOK /\ []IInv /\ []MountsThere` |
| `IsolationBeside` | `OrphansProofs` | with `SanitizedInjective` and `TRUE \in CliPresent`, `OrphansSpec => [][OwnLost]_orphanVars` |
| `LandingsHeld`, `NoContainerLeft` | `OrphansProofs` | with these and `MaxOrphans <= 2`, `OrphansSpec => []OrphansInv`, `OrphansSpec => []NilMeansNoContainer` |
| `Calming` | `OrphansProofs` | with `TRUE \in CliPresent`, `RecoverySpec => Spec` |
| `PromisesInRecovery` | `OrphansProofs` | with `TRUE \in CliPresent`, `RecoverySpec => []TypeOK /\ []NilMeansClean /\ []FailuresAreNamed` |
| `LedgerInRecovery` | `OrphansProofs` | with `SanitizedInjective` and `TRUE \in CliPresent`, `RecoverySpec => ImplementsLedger` |
| `UpInRecovery` | `OrphansProofs` | with these and `OneCreator`, `RecoverySpec => FreshBoot /\ []CreateNilMeansUp` |
| `RetriesReclaim` | `OrphansProofs` | with `SanitizedInjective` and `TRUE \in CliPresent`, `RecoverySpec => [][calm => \A c \in Clusters : Reclaims(c)]_recoveryVars` |
| `LoopInvariant`, `Bounded`, `LastTry`, `WaitIsAtomic` | `PollLoopProofs` | `Spec => []LoopInv`, `[]BoundedWait`, `[]NoFalseTimeout`, `ImplementsAwait` |
| `TypeCorrect`, `Endpoint` | `ReconcileProofs` | `Spec => []TypeOK`, `Spec => []EndpointWorks` |
| `OwnConfig`, `Success`, `LaunchOrder`, `HonestFailure` | `ReconcileProofs` | with `Quiet`, `Spec => []RightNode`, `[]CreatedMeansConfigured`, `[]InOrder`, `[]OnlyLostAnswersMislead` |
| `RecipeHeld`, `MemoryAsAsked`, `StateHeld` | `LaunchRecipeProofs` | `Spec => []RecipeInv`, `[]LimitAsAsked`, `[]StateOnVolumes` |
| `NodesApart` | `LaunchRecipeProofs` | if no DNS domain holds a role's word (`DNSDomains \subseteq Plain`), `Spec => []NamesApart` |

* `TypeOK` of `Provisioner` alone is not inductive: `ThisNode(p)` needs a place
  within `work`, and that what a sweep lists has the type of its own cluster's
  containers needs the label to agree with the ID. `IInv` adds both: every
  labelled container's label is the cluster in its name, every volume's owner is
  the sanitized form of its label, every record lists nodes of its own cluster,
  and every invocation's work, sweep list and volume list belong to its target.
  The proof has a lemma per CLI wrapper and state-directory operation (what it
  preserves), then one per action.
* `Isolation` and `Refusal` follow from `IInv` in one step: an action that
  removes something names an element of a list that `IInv` says is the target's
  own. Volumes need the injectivity of `Sanitized`: with two names of one
  sanitized form the recorded pass of one deletes the volumes of the other, and
  `SharedNames` shows the refusal going wrong.
* `VolumeLock`: the first volume of the first control plane acts as the lock.
  `LockInv` says that a create past it, with no destroy among its rivals, has it
  on the host, that no other such create has, and that whatever runs on a
  meeting target is in the histories of those it runs beside. It needs `IInv`
  (work lists of the own cluster) and that a create past `validate` has a control
  plane first, for without that two requests need not share a volume at all.
* `CleanTeardown` and `NamedFailures` hold without any condition on names.
  `SweepInv` accounts for everything a destroy has not removed: until the
  listing, nothing is claimed; after it, what carries the label is on the list
  it still works through, or in the errors, or the listing failed. Two facts
  carry it: only a create of the cluster adds to what carries its label, and
  such a create, running beside, is in the destroy's history (from `LockInv`'s
  `Witnesses`); and a list that came back proves that the binary is there, so
  that "not found" from then on means not found. Injectivity is not needed,
  because a deletion that hits another cluster's volume only removes more.
* `NetworkTornDown` needs clusters on networks of their own (`NetworksApart`):
  on a shared one another cluster's create may make the network again after it
  was deleted. `NetworkInv` says that every record names its cluster's network,
  that requests and destroys with a record do too, and that a destroy past
  delNet with nothing in its error has it gone: only a create of the same
  cluster brings it back, and that one is in the destroy's history.
* `CreateProofs` assumes that nobody destroys (`CreatesOnly`), since finding 3
  breaks the promises otherwise. `CreatesInv` says that the volumes a create has
  made stay unbooted until it launches their node, that its nodes then stay up
  on them, and that a saved record means that the lock is held by nobody but the
  create that saved it. Others cannot disturb it: whoever launches or writes the
  record holds the lock (`LockInv`), and nodes of other clusters have other
  volumes (`SanitizedInjective`).
* `LedgerInv` is what a create may count on when destroys do run. If no other
  create of the cluster met it (`Uncontested`), its volumes are unbooted until
  it launches their node, since destroys only remove volumes, and the record is
  absent until it writes its own, since destroys write none. If nothing met it
  (`Sole`), what it has launched and saved is still there (`Delivered`).
  `LedgerImplemented` is the step simulation of `Ledger`, for every cluster at
  once: each action changes at most one thing of one cluster, a report "created"
  is covered by `LedgerInv`, a report "destroyed" by `SweepInv`.
* `OneCreator` (one create at a time, beside any number of destroys) and
  `CreatesOnly` (any number of creates, no destroy) give the same three promises
  from two sides. Neither can be dropped for nothing: two creates with a destroy
  between them, as in finding 3, break all three.
* `OrphansInv` is about a destroy that has listed the volumes and has no error
  to report. The volumes its list lacks are strays, made by a command that
  landed after the listing. A container that is left came with a delayed launch;
  it mounts a volume that is still ahead on the list, so the destroy will fail
  to delete that volume and not report success. For a launch still to land the
  same must follow: not all of its volumes are missed, and none is while a
  creation is also under way.
  With two commands at most, one creation cannot supply both volumes of a
  launch; with three, two can. That what a container mounts is there
  (`MountsThere`) is the runtime's refusal to delete a mounted volume.
* `TypeCorrectBeside` and `IsolationBeside` hold with any number of delayed
  commands, since a command stays as sound as the invocation that asked for it;
  such an invocation's end is a crash to everything else, so the lemmas about
  the provisioner's steps are reused. `OwnLost` is isolation as it is then: what
  goes is labelled with the target of a destroy that runs or of a killed one
  whose command is still on its way. Without the second half it is false, as TLC
  shows: the command deletes after nobody destroys any more.
* `Calming` says that the second instance of `Provisioner` in `Recovery`, the one
  without faults, adds no behaviour: each of its steps is a step of the first.
  It needs that the binary may be there in the first (`TRUE \in CliPresent`).
  What is proved of `Spec` follows for `RecoverySpec` (`PromisesInRecovery`,
  `LedgerInRecovery`, `UpInRecovery`).
* `RetriesReclaim` is the part of `ReclaimedUnlessTorn` that is safety, for any
  number of clusters and slots and whatever the failures before the calm left.
  `Reclaims(c)` says of each calm step: creates of `c` that have ended stay ended
  and a clean `c` stays clean; a destroy started then is `Thorough`, and stays so
  until it returns with `c` clean, unless its record is torn at Reflect.
  `Thorough` ties what is left of `c` to what the destroy has still before it:
  all that carries the label is on its list, what it is about to remove is down,
  and its error names no sweep that failed. It is not that its error is empty: a
  volume of the recorded pass may be refused, when two containers of one node
  name were left with different domains, and goes in the sweep; and a named
  network may be in use by another cluster. So a destroy may report an error and
  still have cleaned up. That every destroy returns, and that the operator
  starts one, is the fairness that remains with TLC.
* `LoopInv` ties each try and pause to the deadline: no pause begins after it,
  no try later than a pause after it. `WaitIsAtomic` is the step simulation of
  `Await`, with `seen` as the history that the success step reads.
* `Endpoint` needs only that every config carries the endpoint Create ends up
  with. The other four go by the number of addresses that have moved: with
  `Quiet` (no other node in maintenance mode, at most one restart during the
  create), after assertDistinctIPs at most one node is not at its recorded
  address and then nobody else is there in its place, so an apply finds its own
  node or nobody.

* `RecipeInv` says that each launched command line is made of its own request,
  and each request of the flags. The rest is about sequences, without induction
  over names. `NodesApart` reads a name from its end: the last role word of a
  node's name splits it into cluster, role and number, since numbers hold none,
  and, as a domain holds none either, the first '.' after that word begins the
  domain; the suffixes of the two volumes differ, and sanitizing, which works in
  each place alone, can only confuse names that are `Alike`. That a domain holds
  no role's word is needed: cluster `a` in the domain `x-worker-1` and cluster
  `a-worker-1.x` without a domain both have a container `a-worker-1.x-worker-1`.
  `StateHeld` needs what the loop of `nodeTmpfsPaths` makes of any list of
  overlays; that the recursive function `Appended` follows its own definition,
  and what it then is, go by the least number for which it would fail.
  `MemoryAsAsked` is that a product within the range does not wrap and divides
  back.

### Only model-checked

`ReclaimedUnlessTorn`, `Ends` and `CancelEnds` are liveness under fairness, out
of the prover's reach, and stay with TLC (the safety of the first is
`RetriesReclaim`), as do the four violations. Every other property of a run is
the statement of a theorem, some under the conditions in the table.

## 7. Not modelled

* Flag parsing, the version contract, the config bundle and the printed report
  of `aegis`: they come before the first side effect or after the last. Which
  node argument the printed `talosctl` commands should carry is a matter of the
  runbook.
* JSON schemas of the CLI's output, and error texts that mean something else
  than they say ("already" in the name of a network).
* Environment, capabilities, image and `--cpus` of a node: constants that
  nothing reads back.
* The CIDR of a network that exists: nothing reads it back either.
* Execs that hang outside the two waits: they hold an invocation where it is,
  which no property excludes, since `Provisioner` has no fairness.
* The request makers and flags under `upstream/`: their logic is in the Talos
  tree, outside this repository.
* A destroy beside an open reconciliation: `Provisioner` has the destroy and
  takes the reconciliation for one step per node, `Reconcile` the reverse.
