# Verification of CPU-Pooler

TLA+ models of CPU-Pooler (`src/`), model-checked with TLC, with proofs of their safety
properties checked by TLAPS. `PROJECT.json` maps every definition to the lines it models and
lists runs, mutants, findings, hazards and theorems.

## 1. The system

CPU-Pooler hands the CPUs of a Kubernetes node out in pools. A pool is *exclusive* (each CPU
goes to one container), *shared* (containers get CPU time on the whole pool), *cloudphone*
(CPUs are offered several times, and a container gets the cores of a NUMA node) or *default*
(everything else).

| Component | State it keeps | Operations | Interacts with |
|---|---|---|---|
| Device plugin (`cmd/cpu-device-plugin`) | list of device managers, a gRPC server per pool, a watch on `kubelet.sock` | create, start, register, stop managers; ListAndWatch, Allocate, GetPreferredAllocation | kubelet over sockets; the ConfigMap |
| CPUSetter (`cmd/cpusetter`, `pkg/sethandler`) | informer cache, work queue, 100 workers, a reconciliation thread | PodChanged, handlePods, adjustContainerSets, reconcileCpusets, Stop | API server, kubelet's checkpoint file and Pod list, cgroup files, the emulated `/sys/devices/system/cpu` |
| process-starter (`cmd/process-starter`) | CPU lists, affinity | poll the cgroup, pin and start the processes of the annotation | environment set by plugin and webhook; cgroup written by CPUSetter |
| Webhook (`cmd/webhook`, `pkg/types/cpu-annotation.go`) | none; it recognises its own earlier patches in the object | validate the annotation, set the CPU quota, make the process-starter the entry point | API server (creation, re-invocation, every update); the ConfigMap |
| Pool configuration (`pkg/types`) | none after reading | pool types, selection of a pool and of a file | ConfigMap, node labels |
| Kubernetes client (`pkg/k8sclient`) | the Node object, read once | refresh and annotate Pods, list kubelet's Pods, status of a Pod | API server, kubelet |
| Helpers (`pkg/checkpoint`, `pkg/utils`), `fakelscpu` | none | parsing, archives, dialing | files |

What is hard here: the CPUSetter's threads write the same files without locks, on the basis
of Pod objects, container ids and checkpoint entries that may be stale; Pods are restarted,
deleted and replaced under the same name meanwhile; nothing survives a crash; kubelet and
plugin restart independently; the process-starter compares the result of two computations
made by two programs from different data; the webhook is called again and again with what
it produced before. The `hazards` in `PROJECT.json` list these at
their lines.

What makes it correct:

- a container is never on CPUs allocated exclusively to another one (`Isolation`), and is
  confined to a set computed for itself (`Confined`, `OwnCpusOnly`, `AllocatedCpusGranted`,
  `SiblingsUnassigned`);
- no container stays unconfined (`EventuallyProvisioned`), the threads do not undo each
  other's work (`SetOnce`, `EmulationAgrees`) and never hang (`WorkersReturn`);
- altogether the CPUSetter does nothing to containers but what the short specification
  `CpusetSpec` says (`ImplementsCpusetSpec`);
- what kubelet offers is served by the plugin (`RegisteredServed`, `ServersManaged`,
  `OneSharedPool`), everything offered by the configuration gets registered
  (`RegistersEveryPool`), and a question about listed devices is answered
  (`PreferredAnswered`) with CPUs that belong together (`CpusTogether`,
  `PreferredComplete`);
- a stored Pod is patched exactly once, whatever the number of calls (`StarterInPlace`,
  `CommandKept`), with a quota that does not throttle it (`QuotaCovers`), validly
  (`PatchedIsValid`), and can be updated later (`UpdatesAccepted`);
- the application starts after it is confined, and does start (`EntrypointProvisioned`,
  `StarterProceeds`).

## 2. Modules

```
PoolTypes                       names and types of pools
  +-- PoolConfig                pools of the node; determineCorrectCpuset as a set of results
  |     +-- PoolConfigProofs        lemmas about its operators, for the proofs below
  |     +-- CpuSetter           the CPUSetter and its environment
  |     |     |   instantiates CpusetSpec, the abstract specification it implements
  |     |     +-- MC_CpuSetter      constants for TLC
  |     |     +-- CpuSetterProofs   types, confinement, isolation
  |     |           +-- CpusetRefinement    CpuSetter implements CpusetSpec
  |     |                 +-- GrantedCpusProofs   what a container gets, and that it keeps it
  |     |                       +-- ReportedCpusProofs  what CPUSetter reports: the annotation
  |     |                                               and the emulated cpu directory
  |     +-- ProcessStarter      GetPreferredAllocation, Allocate, the process-starter
  |           |                           (also extends CpuAnnotation)
  |           +-- MC_ProcessStarter
  |           +-- ProcessStarterProofs
  +-- CpuAnnotation             requests of a container against its annotation; CPU_POOLS
  |     +-- Webhook             admission of a Pod
  |           +-- MC_Webhook
  |           +-- WebhookProofs
  +-- DevicePlugin              choice of the configuration, life cycle of the plugin
        +-- MC_DevicePlugin
        +-- DevicePluginProofs
```

Definitions keep the names of the functions they model, with a capital first letter.
Definitions introduced by "Faulty variant" are the mutated forms used by `mutants`; no
specification uses them.

### PoolTypes, PoolConfig

A pool name is a sequence of words (`exclusive-pool` is `<<"exclusive", "pool">>`), which
keeps prefix and occurrence tests meaningful. Go's map iteration order is arbitrary, so
`SelectPool` and `DetermineCorrectCpuset` are *sets* of possible results. Device ids are CPU
numbers shifted by multiples of the number of CPUs (`DeviceIDs`), folded back by
`CalculateFinalExclusiveSet`. The pools are those `ReadPoolConfigFile` returns, with the
default HT policy filled in. CPU topology is input.

### CpuSetter

Variables follow the code: the informer's cache `seen`, the work queue `queue`, per worker a
label `pc`, the Pod object in hand `wobj`, the retry counter `try`, the container index
`idx`, the computed sets `val` and whether a cgroup path was found `path`; the same for the
reconciliation thread (`rpc`, `rtodo`, `ritem`, `rval`); and of the environment the API
objects, kubelet's allocations and checkpoint, the cgroup files of containers and infra
containers, the emulated directories and the annotations.

| Code | Actions |
|---|---|
| informer callbacks, `PodChanged` | `InformerQuiet`, `PodChanged` |
| `processNextWorkItem`, `shouldPodBeHandled` | `ProcessNextWorkItem`, `RefreshPod`, `Handle` |
| `adjustContainerSets` | `Determine`, `ApplyCpusetToContainer`, `ClearCpus`, `FillCpus`, `ApplyCpusetToInfraContainer`, `SetPodAnnotation`; `Retry` on errors |
| `reconcileCpusets` | `GetPodsFromKubelet`, `ReconcileContainer`, `ReconcilerClears`, `ReconcilerFills`, `ReconcilerWrites` |
| failing file and API operations | `WorkerFault`, `ReconcilerFault` |
| `Stop`, `WatchErrorHandler`, restart of the process | `Stop`, `Exit`, `Crash` |
| API server, kubelet, runtime (external) | `CreatePod`, `AdmitPod`, `StartContainer`, `StopContainer`, `FinishPod`, `DeletePod`, `StatusUpdate` |

One call of `adjustContainerSets` is several actions because other threads see the files in
between; `Uid`, `Cont` and `CidOf` are the locals it works from, which may be stale.

Abstractions: removing the content of an emulated directory is one step and filling it is
another (single files inside are not interleaved); the files `online`, `possible` and
`present` are given by the numbers of the `cpuN` directories; the kernel refuses an empty
cpuset (cgroup v1); the statuses kubelet lists are those it reported to the API server;
PodStatus's reason is Running when the phase is Running and no container is reported waiting
or terminated (a Completed container next to running ones gives "NotReady", since kubelet
calls a Pod ready only when all its containers are); kubelet reports statuses for all
containers of a Pod or for none, so an event never shows only some of them; phases Failed and
Succeeded are one. Left out: init containers, and the time between the request to delete a
Pod and the end of its containers, in which PodStatus says "Terminating".

### CpusetSpec

What CPUSetter promises, without events, queues, threads and files: a container starts on
all CPUs (`Start`), stops, is moved while it runs to one of the sets settled for it
(`Provide`), and what is settled for a running container does not change (`Settle`).
`CpuSetter!Promise` instantiates it: the containers are those of this node, `running` are
the ones that are up, `cpuset` is the content of their cgroup files, and settled are the
sets `determineCorrectCpuset` may compute from the container's allocation, and the default
pool. `ImplementsCpusetSpec` is checked as a property of `restarts`. It says more than
`Confined`: also that no write hits a container that is not running, that a write touches
one container, and that allocations stay as they are while somebody may still compute from
them. It promises no more than the code keeps: the default pool is settled for everybody
because a restarted container may be mistaken for the infra container (`infra_mistaken`).

### DevicePlugin

`proc` is the place of `main`: *launched*, *load* (createPluginsForPools), *start* and
*register* (createCDMs, pool by pool in any order), *select*. `cdms` is the global list of
managers, `serving` the gRPC servers that run, named by pool and round. Kubelet stops,
removes the contents of its plugin directory, and listens again; the removal is reported by
one or two file events and ends the watch. A process that dies takes its servers and
kubelet's connections with it and leaves its socket files.

Every round reads the labels of the Node and the files of the ConfigMap anew:
`ReadPoolConfig` is the first file any label of whose nodeSelector matches, or simply the
first one when `NODE_NAME` is not set. If nothing matches, something cannot be read
(`ReadMayFail`) or `ValidatePools` finds two shared pools, the process ends. A server keeps
the CPUs of its pool from the round that created it (`Server`), so one left over from an
earlier configuration would show. `Register`
fails when both attempts of `DialContext` find no kubelet (`dials`).

`ListAndWatch` runs in a goroutine of its own, in two steps: `cacheDevices` is filled
(`cached`; it stays empty for a shared pool), then the list is sent (`Send`, which fails if
server or kubelet is gone by then) and kubelet knows the devices (`listed`). The action
`GetPreferredAllocation` is the call about devices that are not cached, whose nil Topology
ends the process: this happens for shared pools, and `PreferredAnswered` says that it
happens for no other. What the call answers otherwise is in ProcessStarter.

Kubelet is taken to notice at once when a server is gone. Left out: errors of
`grpc.NewClient` (it connects lazily and does not fail here), SIGHUP (only logged) and CPUs
without NUMA information. Other panics of a handler are a `Crash`.

### CpuAnnotation, Webhook

`CpuAnnotation` is the arithmetic that webhook and process-starter share: the sums of
requests by type of pool, the sums of the annotation, what `Decode` and `validateAnnotation`
accept, and the value of `CPU_POOLS`. An annotation is taken to name a container once (of two
entries the webhook would check the last and the process-starter run the first).

`Webhook` follows one Pod through the API server (external): `Create`, a call of the webhook
(`ServeMutatePod`), changes by `OtherPlugins` and the second call they cause
(`reinvocationPolicy: IfNeeded` in `deployment/webhook-conf.yaml`), validation and
storage (`Persist`), later `Update`s that leave the spec alone. `MutatePods` is the set of
Pods the answer of the code may lead to, empty when it denies the Pod; it is a set because the
shared pool is looked up in map order. The JSON patches are modelled by their effect: those
of a container touch nothing else and are applied in their order (`Set`, `Add`), each
`Patch...` operator taking the container as it came and the container with the patches so
far. Appending to an array that is not there fails, as JSON patch does, and `NoPod` stands
for the result. Quantities are thousandths of a CPU. `Atoi` keeps the one thing the
conversion of quantities can get wrong (only the suffix `k` is undone), and
`Marshals` the one thing the unescaped joining of command and arguments can: a quotation mark
spoils the patch.

`Origin` of a container is what user or plugin wrote; the properties compare it with what
is stored. Left out: TLS, routing, logging, requests that are no admission review of a Pod
(the code dereferences a nil request or response there), quotation marks that happen to give
another valid list, and Pods that bring volumes named `podinfo` or `hostbin` of their own.

### ProcessStarter

One container: `Cases` gives its requests and annotation (only annotations the webhook
accepts: `AnnotationAccepted`). For every requested pool kubelet (external) picks free
devices, in `AskAndAllocatePool` after asking the plugin for the preferred ones:
`GetPreferredAllocation` takes the NUMA node with the most free devices and runs the code's
loop over them from the highest id down: `PreferNext` is one round, and `Visited`, a recursive
function on sets of devices, the list after the rounds. `Allocate` yields the environment
variables. Asking about a shared pool ends the plugin, and the container is refused
(`AskForSharedPool`). `CpuSetterWrites` is what CpuSetter.tla lets workers and reconciler do
to the cpuset: write, at any time and any number of times, one of the sets
`DetermineCorrectCpuset` may return, and in a restarted container, which may be mistaken for
the infra container, the default pool (`WrittenSets`). A write moves everything in the cgroup
to the new set, whatever it was bound to. A poll accepts, goes on or ends the starter when the
cgroup file cannot be opened (`noCgroup`). `SetAffinity` changes the mask of the current
thread, `Migrate` moves the main goroutine, `StartProcess` starts a process with the mask of
the thread it runs on; when the last one cannot be started, `main` goes on to `ExecCommand`,
the command in the arguments of the container, as it does without an annotation. Reading the
annotation file and panics before the first poll are left out.

## 3. Runs

All passing runs finish in well under five minutes with two workers. Deadlock checking is off
because each of these services may wait for events forever, and the bounded environment may
have nothing more to offer.

| Run | Instance | Shows |
|---|---|---|
| `neighbours` | two Pods, a multiThreaded pool of two CPUs, no default pool | `Isolation` when CPUs change hands while stale work is in flight |
| `containers` | one Pod, an exclusive+shared and a cloudphone container, two NUMA nodes, overcommitment 2, hyperthreads of the exclusive CPUs in no pool | `Isolation`, `OwnCpusOnly`, `AllocatedCpusGranted`, `SiblingsUnassigned`, `EmulationAgrees`, `SetOnce` |
| `restarts` | Pod `p` here, Pod `q` of the same name on another node, two workers, two starts of `p`'s container, one exclusive CPU with an unassigned hyperthread | `TypeOK`, `HandlesStartedPods`, `Confined`, `EmulationAgrees`, `ImplementsCpusetSpec` under restarts and reuse of names |
| `recovery` | one Pod, one crash, one fault, fairness | `AnnotationTruthful`, `EventuallyProvisioned`, `WorkersReturn` |
| `plugin_lifecycle` | two starts of kubelet, two of the plugin, one edit among four combinations of files and labels, fairness | `TypeOK`, `ServersManaged`, `RegisteredServed`, `OneSharedPool`, `PreferredAnswered`, `RegistersEveryPool` |
| `launch` | containers of every type of pool and of two types at once, first starts and restarted ones, any set of free devices, three polls, two threads, fairness | `TypeOK`, `EntrypointProvisioned`, `MasksDisjoint`, `CpusTogether`, `PreferredComplete`, `StarterProceeds` |
| `admission` | fourteen Pods of every kind, accepted and denied, three sidecars, three configurations, one edit, one failure | `TypeOK`, `StarterInPlace`, `CommandKept`, `QuotaCovers`, `UpdatesAccepted`, `PatchedIsValid` |

| Violation run | What TLC finds |
|---|---|
| `infra_mistaken` | a container restarted after the worker read the Pod is taken for the infra container and put on the default pool (`OwnCpusOnly`) |
| `infra_never` | the infra container of a Pod that came up during a restart of CPUSetter stays on all CPUs (`InfraProvisioned`) |
| `node_once` | one failed read of the Node object disables reconciliation (`EventuallyProvisioned`) |
| `plugin_watch_lost` | the plugin stays unregistered next to a running kubelet (`ReRegisters`) |
| `migrating` | a process is started from a thread that was not pinned (`PinnedToAllocated`) |

Bounds and why they are enough. `MaxRetryCount` is 2 instead of 5: the code treats the first,
the last and the middle attempts alike, so two cover "retry" and "give up"; it is 1 in
`restarts`, where a second Pod and a second worker take the room and what a retry does is
repeat the first attempt with the same object. `MaxStarts` is 2 where restarts matter: an id
is either the current or an older one; `Restarting` names the Pods it applies to. One or two
workers: two workers already hold different objects of one Pod; the proofs cover any number.
One crash and one fault reach every point of every action. `TickerFires = FALSE` in
`neighbours` keeps two Pods tractable; the theorem covers the rest. In `DevicePlugin` two
starts of kubelet suffice for the safety properties, and the violation run has three so that
the restart after the noticed one happens too; the edit comes between any two rounds. In
`Webhook` the API server calls at most twice per review, so nothing is cut off there; one edit
or failure between any two of the calls is enough to make two calls see different
configurations. `MaxPolls` is 3 instead of 90: the loop has no memory but its counter.

Fairness. `CpuSetter!Fairness`: every goroutine that can run does (Go's scheduler), kubelet's
status manager and the informer deliver what they hold (both retry), and a stopped process
exits (`os.Exit` after five seconds). Nothing is assumed of users, of kubelet starting
containers, or of the absence of faults beyond the bound. `DevicePlugin`: main runs, the
DaemonSet restarts the process, and a kubelet that began to start listens in the end.
`ProcessStarter`: the starter runs; nothing is assumed about when, or whether, CPUSetter
writes.

Known limits of the checked properties (also noted at the hazards): `AllocatedCpusGranted`
needs at most one exclusive pool per container (a later one replaces the earlier in
`determineCorrectCpuset`); `SiblingsUnassigned` needs pool names that are not prefixes of
each other and a configuration that lists the siblings in no pool; `EmulationAgrees` holds until the first fault or crash (a failed rebuild leaves
the directory as it is); `AnnotationTruthful` needs names that are not reused on the node (the
annotation is patched by name) and, as it recognises a set-up container by its cpuset, pools
that are not the whole node; `StarterProceeds` takes `Topology.Core` to be the CPU number and is for containers with at
most one exclusive or cloudphone pool: with one of each `CPU_POOLS` is exclusive
(webhook.go:217) while CPUSetter writes the set of the NUMA node, and of two exclusive pools
the environment variable and the cpuset may be of one each (controller.go:347), so that the
starter gives up after its polls (both containers are in the run); `EntrypointProvisioned`
cannot promise a restarted container its own set for good, as CPUSetter may move it to the
default pool afterwards (`infra_mistaken`);
`PreferredComplete` is for pools without overcommitment (the loop skips a device of a CPU it
took and then sees a gap); `CpusTogether` is for complete answers (kubelet fills up an
incomplete one, possibly with a second device of the same CPU), and for overcommitted pools
that have not both the first and the last CPU of the node (with four CPUs the devices 3 and 4
pass for neighbours and are the CPUs 3 and 0); `StarterInPlace` asks for the
right emulated directory only if the Pod had its name at admission (with `generateName` the
mounted directory is not the one CPUSetter fills); `QuotaCovers` and `UpdatesAccepted` leave
out a container that asks two pools for the same quantity and a configuration that was edited
or unreadable in between: there the quota changes and an update is refused; `PatchedIsValid`
excepts a sidecar to be pinned that is injected next to a pinned container: the second call
adds no volume for it and the API server refuses the Pod.

## 4. Proofs

Every theorem is for all values of the constants: pools, topologies, Pods, containers,
annotations, configurations, workers, threads and bounds. What the constants are assumed to
be is stated where they are declared (`NumCPUAssumption`, `PoolsAssumption`,
`PodsAssumption`, `BoundsAssumption`, `CasesAssumption`, `DevicePluginAssumption`,
`WebhookAssumption`): types, at least one CPU, Pods with distinct container names, finite
configurations. A theorem that needs more names it as a hypothesis. The hypotheses are rules
that README.md of the repository gives for configurations or that Kubernetes enforces, or they
exclude the cases of section 3 and of the violation runs in which the property fails
(`NeverRestarted`, `PlainRequests`, `PlainPools`, `LocalNamesDistinct`, `ProperSets`,
`RoundsApart`, `OneCloudphone`); the code checks none of them. They can be met: `MC_Webhook` and `MC_ProcessStarter` assert theirs
of the checked instances (all but `NoPodApart`, which quantifies over everything), and `MC_CpuSetter` asserts the ones
about pools and requests of every CPUSetter instance; `ProperSets` and, where it is assumed,
`NeverRestarted` hold in the instance of `containers`. In `EmulationAgreesThm`
`MaxFaults = 0` and `MaxCrashes = 0` are among them, as in the runs that check the property;
`EmulationUndisturbedThm` is without.

| Module | Theorem | Hypotheses |
|---|---|---|
| CpuSetterProofs | `TypeCorrect`, `ConfinedThm`, `HandlesStartedPodsThm` | |
| | `IsolationThm` | `Separated` |
| CpusetRefinement | `Refinement`: `ImplementsCpusetSpec` | |
| GrantedCpusProofs | `FirstStartOwnThm` | |
| | `OwnCpusOnlyThm` | `NeverRestarted` |
| | `AllocatedCpusGrantedThm` | `NeverRestarted`, `PlainRequests` |
| | `SetOnceThm` | `NeverRestarted`, `PlainRequests`, `PlainPools` |
| | `SiblingsUnassignedThm` | `PlainPools`, `SiblingsApart` |
| ReportedCpusProofs | `AnnotationTruthfulThm` | `LocalNamesDistinct`, `ProperSets` |
| | `EmulationUndisturbedThm` | `LocalNamesDistinct`, `PlainRequests`, `PlainPools` |
| | `EmulationAgreesThm` | the same, no faults, no crashes |
| DevicePluginProofs | `TypeCorrect`, `ServersManagedThm`, `RegisteredServedThm`, `PreferredAnsweredThm`, `OneSharedPoolThm` | |
| ProcessStarterProofs | `TypeCorrect` | |
| | `EntrypointProvisionedThm` | `DefaultApart` |
| | `MasksDisjointThm` | `SharedApart` |
| | `PreferredCompleteThm` | |
| | `CpusTogetherThm` | `RoundsApart`, `OneCloudphone`, `SiblingsInPool` |
| WebhookProofs | `TypeCorrect` | |
| | `CommandKeptThm` | `UniqueNames`, `NamesReserved` |
| | `StarterInPlaceThm` | the same and `AnnotatedAsk` |
| | `PatchedIsValidThm` | `UniqueNames`, `NamesReserved`, `PodsValid` |
| | `UpdatesAcceptedThm`, `QuotaCoversThm` | `UniqueNames`, `NamesReserved`, `OneSharedName`, `NoPodApart` |

**CPUSetter.** `Separated` states README.md's configuration rules: exclusive CPUs are in one
exclusive pool, in no shared or default pool, not overcommitted, no siblings of each other,
and no core of a cloudphone pool. `Confined` is not inductive: what a thread writes was
computed several steps earlier. `IInv` adds

- `ObjectsPlausible`: every copy of a Pod object (stored, cached, queued, in a worker's
  hands) that shows a container id belongs to an admitted Pod and shows no id from the
  future;
- `KubeletCoherent`: only admitted Pods run containers, and the checkpoint has their entries;
- `DevicesDisjoint`: devices come from the requested pool and no device is held twice by
  admitted Pods;
- `HandlesStartedPods`: a worker past its checks has a Pod of this node with started
  containers;
- `PendingWritesOwn`: the value a thread is about to write is one computed for that very
  container, as long as its Pod is admitted.

The heart is that allocations of a Pod never change once it is admitted (`KubeMonotone`,
`OwnSetsStable`), so a value computed from the checkpoint stays right however late it is
written, and that a worker can only compute after admission (`HandlesStartedPods`). Each
conjunct has its step lemma, with a frame lemma for the actions that do not touch its
variables. `Isolation` then follows from `Confined`, `DevicesDisjoint` and `Separated`
without further induction (`IsolationInv`).

**The refinement.** `OneWrite` says what a step of CPUSetter's threads does to cgroup files:
it writes at most one, that of a running container of this node, and writes a set settled for
it. With it every step of `CpuSetter` is a step of `CpusetSpec` or a stutter; the steps of
kubelet map to `Start`, `Stop` and `Settle`.

**What a container gets.** `OneWrite` also says that the default pool is only ever written
into a container that was restarted. `FirstInv` adds to `IInv` that a container in its first
start is on all CPUs or on a set of its own; the violation run `infra_mistaken` shows that
restarts break this, hence `NeverRestarted`. `PlainRequests` excludes containers that ask for
several exclusive or cloudphone pools (a later one replaces the earlier in
`determineCorrectCpuset`), `PlainPools` the pools between which the code chooses in map
order: then `determineCorrectCpuset` has one result, and two threads cannot write different
sets. `ExclusiveCpus`, the CPUs a container was allocated, is read off the device ids as
`ListAndWatch` makes them and not by `CalculateFinalExclusiveSet`; `AllocatedFolded` shows that
the folding finds each of them, for every overcommitment. `SiblingsUnassignedThm` speaks of all
provisioned containers and needs no `NeverRestarted`: by `Confined` each is on a set computed
for it or on the default pool, and `OutcomeWithoutSiblings` shows that neither has a sibling of
a singleThreaded CPU when the configuration lists none (`SiblingsApart`).

**What CPUSetter reports.** `AnnotationTruthful` is about the end of a long call, so the
invariant `AInv` follows the worker through it: every container the worker has passed in
`adjustContainerSets` is set up (`PassedSetUp`) as are the containers of an annotated Pod
(`AnnotatedSetUp`), it reaches the annotation only behind the last container (`LastReached`),
and the set in its hands is neither empty nor the whole node (`ProperValues`). *Set up* means
that the container was started and is not in its first start on all CPUs; no thread undoes it. The theorem
holds through retries, faults, crashes and restarts of containers. `ProperSets` says that no
computed set is empty (the kernel would refuse it) or the whole node;
`LocalNamesDistinct` that no Pod of the node takes over the name of an earlier one.

For `EmulationAgrees` the invariant `EInv` says of every state before the first fault or
crash: what a thread is about to build is the configured set of that container
(`PendingDirsOwn`), a directory never holds more than that set needs (`DirsClean`), and it is
built or being rebuilt before the cpuset is written and ever after (`BuiltBeforeWritten`).
Several threads may clear and fill one directory in turn: as `PlainPools` and `PlainRequests`
leave `determineCorrectCpuset` one result they all fill in the same, and whoever clears it is
still going to fill it. Restarts of containers are covered.

**Device plugin.** The three properties are part of the inductive invariant and need

- `RoundsCoherent`: the list of managers is of the last round, and a goroutine of
  `ListAndWatch` left over from an earlier one is not mistaken for one of this round;
- `StartsOver`: `main` creates managers only from an empty list;
- `RegistersNew`: the server being registered runs and is not known to kubelet;
- `SendsCached`: a goroutine about to send a list has filled the cache first;
- `DownUnregistered`;
- `ConfValidated` and `ConfServed`: the configuration in use passed `validatePools`, and every
  server that runs and every pool still to be started comes from it. `OneSharedPool`, which is
  about the running servers of any round, follows from these two and `ServersManaged`.

**process-starter.** `IInv` says that the variables name CPUs of the pools of their type
(`EnvOfPools`), that a thread's mask lies in the cpuset (`AffinityInside`), that the cpuset
is the node's or one CPUSetter writes for the container (`WrittenSet`), and that the lists of
`main` come from the environment (`ListsOfEnv`). `Provisioned` adds that from the last poll on
the starter has seen a set of the container's own, and that later writes leave the container in
a set CPUSetter writes for it, with its processes inside. `DefaultApart` asks that neither the node nor a default pool
consists only of CPUs the plugin hands out: otherwise the poll, which compares sets of CPUs,
would take the default pool for the container's own. `SharedApart` keeps the CPUs of exclusive
pools, with the siblings `Allocate` adds, out of shared ones. `MasksDisjoint` follows from
`HandedOutOnce`: what is still in the list of `main` belongs to no process.

`PreferredComplete` and `CpusTogether` are about the loop of `GetPreferredAllocation`.
`VisitedRound` shows that the recursive function `Visited` exists and satisfies its equation, and
`LoopInduction` is induction along the loop, over the sets of devices ordered by size; it is
stated for a set of sets instead of a predicate, and proved from the least element of a set of
numbers. By it the list is at all times a run of visited devices (`ListIsRun`) and, as long as
it is short, the whole run the loop is in, with no run long enough left behind (`NoRunLeft`).
`AnswersKept` carries this through the behaviour: the devices granted contain the proposed
ones, so they are equal when the answer was complete. `CloudphoneEnv` says that the variables of
a cloudphone come from its one pool. `RoundsApart` keeps the ids of two rounds of an
overcommitted pool from passing for neighbours, `OneCloudphone` keeps kubelet from merging
`CLOUDPHONE_CPUS` of one pool with `NUMA_CPUS` of another, and `SiblingsInPool` keeps the
siblings `Allocate` adds on their node and in the pool.

**Webhook.** `Done(o, c)` relates a container `c` to the container `o` that user or plugin
wrote: all patches were made, once. A call makes a container it sees first done
(`FirstCall`), leaves one that is done as it is but for the quota (`DoneStays`), and no other
plugin undoes it (`OtherDone`). `IInv` says that containers are as they came or done before a
call, and done after it; `CommandKept` and `StarterInPlace` follow. The proof uses that a
mount of `podinfo` and the changed entry point come together, which is what
`patchContainerForPinning` relies on. `UniqueNames` is what the API server enforces for the
containers of a Pod; `NamesReserved` says that nobody else uses the webhook's volume and
variable names, and `AnnotatedAsk` that a container of the annotation requests some pool.

`UInv` adds that the quota of a container is the one its requests determine, or, with
exclusive and shared CPUs (`BySize`), one of those the configuration allows as long as it was
neither edited nor unreadable; and that a Pod accepted once is accepted again. Then a call
for an update changes nothing, except for the reasons `UpdatesAccepted` names.
`OneSharedName` says that a container asks for one shared pool (a node has no more:
`OneSharedPool`); `NoPodApart` that `NoPod` is no record.

`VInv` adds, for `PatchedIsValid`, that the webhook's volumes are all there or none is
(`VolumesOK`), that names are unique before each call, and that a stored Pod is valid.
`PodsValid` says that the Pod was valid as written, also with an injected container.

Only model-checked is liveness (`EventuallyProvisioned`, `WorkersReturn`, `InfraProvisioned`,
`RegistersEveryPool`, `ReRegisters`, `StarterProceeds`): TLAPS does not handle it under
fairness. Every invariant and action property of a passing run is stated by a theorem.

## 5. Not modelled

- Device nodes attached to cloudphone containers: a weighted choice by a vendored library
  over hardware found on the host; nothing modelled depends on it.
- Topology and CPU information (parsing of lscpu and `/proc/cpuinfo`): input of the models.
- YAML and JSON syntax, and the two layouts of kubelet's checkpoint file, which say the same.
- Archive and file helpers (`compress.go`, `file.go`), request logging of the webhook
  (`fasthttplog.go`): I/O without decisions.
- The PV, PVC, metrics and waiting helpers of the Kubernetes client: no modelled program
  calls them.
- `fakelscpu`: prints a prepared text.
- Plugin and CPUSetter using different configurations: CPUSetter reads its configuration
  once, the plugin in every round. CpuSetter has one constant configuration, so what happens
  between an edit and the restart of CPUSetter is not covered.

## 6. Plan

Done: PoolTypes, PoolConfig, CpuSetter and its abstract specification, DevicePlugin with the
choice of the configuration and ListAndWatch, ProcessStarter with GetPreferredAllocation,
Webhook; the theorems of section 4.

Next: the step from `CpuSetter` to the process-starter, that the sets `ProcessStarter` lets
CPUSetter write are those `ConfinedThm` allows for the same pools and requests; and a CPUSetter
whose configuration is older than the plugin's.
