----------------------------- MODULE CpuSetter ------------------------------
(***************************************************************************)
(* The CPUSetter of one node: pkg/sethandler/controller.go together with   *)
(* the parts of the API server, kubelet and the kernel it works against.   *)
(*                                                                         *)
(* Pods are identified by their UID; a later Pod may carry the name of an  *)
(* earlier, deleted one.  The n-th start of a container has container id   *)
(* n, and 0 is "no id yet".  A Pod object, as the API server, the          *)
(* informer's cache and the workers hold it, is                            *)
(*   uid    the Pod                                                        *)
(*   phase  "Absent" stands for "there is no such object"                  *)
(*   ids    the container ids of Status.ContainerStatuses                  *)
(*   up     whether the status reports the container as running            *)
(*                                                                         *)
(* Every step that another thread can observe is an action of its own:     *)
(* reading the Pod, reading the checkpoint, writing the cgroup, clearing   *)
(* and filling the emulated /sys/devices/system/cpu directory, writing the *)
(* infra container's cgroup, patching the annotation.                      *)
(***************************************************************************)
EXTENDS PoolConfig

CONSTANTS
  Pods, NoPod,      \* UIDs, and a value that is none of them
  Names, Name,      \* Name[p]: the namespace/name of Pod p
  Local,            \* the Pods scheduled to this node (NODE_NAME)
  Containers,       \* container names
  SpecContainers,   \* SpecContainers[p]: the containers of p, in order
  Requests,         \* Requests[p][c]: pool name -> quantity
  Workers,          \* the worker threads of Run
  MaxRetryCount,    \* the code's constant, 5
  MaxStarts,        \* bound: starts of one container
  Restarting,       \* bound: the Pods whose containers are started more than once
  MaxCrashes,       \* bound: restarts of the CPUSetter process
  MaxFaults,        \* bound: failing file and API operations
  TickerFires,      \* FALSE: the behaviours between two ticks of reconciliation
  NodeReadMayFail   \* whether GetThisNode's only read may fail

ContainersOf(p) == {SpecContainers[p][i] : i \in 1 .. Len(SpecContainers[p])}
RequestsOf(p, c) == DOMAIN Requests[p][c]
CheckpointRequests(p, c) == {r \in RequestsOf(p, c) : RequestKind(r) \in CheckpointKinds}

ASSUME PodsAssumption ==
  /\ NoPod \notin Pods
  /\ Name \in [Pods -> Names]
  /\ Local \subseteq Pods
  /\ SpecContainers \in [Pods -> Seq(Containers)]
  /\ \A p \in Pods : Len(SpecContainers[p]) > 0
  /\ \A p \in Pods : \A i, j \in 1 .. Len(SpecContainers[p]) : SpecContainers[p][i] = SpecContainers[p][j] => i = j
  /\ \A p \in Pods, c \in Containers : RequestsOf(p, c) \subseteq PoolNames

ASSUME BoundsAssumption ==
  /\ MaxRetryCount \in Nat \ {0}
  /\ MaxStarts \in Nat /\ MaxCrashes \in Nat /\ MaxFaults \in Nat
  /\ TickerFires \in BOOLEAN /\ NodeReadMayFail \in BOOLEAN

VARIABLES
  \* API server, kubelet and kernel (external)
  stage,      \* [Pods -> Stages]
  api,        \* [Pods -> Objects]: the objects stored in the API server
  inc, up,    \* current container id, and whether that container runs
  alloc,      \* [Pods -> device ids of every container and pool]
  ckpt,       \* the Pods with entries in kubelet's checkpoint file
  cpuset,     \* cpuset.cpus of the container
  infra,      \* cpuset.cpus of the Pod's infra (pause) container
  cpuDir,     \* the emulated cpu directory, by Pod NAME and container
  annotated,  \* the Pods carrying the cpusets-configured annotation
  \* CPUSetter: informer cache and work queue
  seen,       \* [Names -> Objects]
  queue,      \* sequence of Objects (workItem.newPod)
  \* CPUSetter: the worker threads
  pc, wobj, try, idx, val, path,
  \* CPUSetter: the reconciliation thread
  rpc, rtodo, ritem, rval,
  \* CPUSetter: the process
  thisNode,   \* the sync.Once result of GetThisNode
  shut,       \* the queue was shut down
  crashes, faults

kubeVars   == <<stage, api, inc, up, alloc, ckpt>>
cgroupVars == <<cpuset, infra>>
watchVars  == <<seen, queue>>
workVars   == <<pc, wobj, try, idx, val, path>>
recVars    == <<rpc, rtodo, ritem, rval>>
procVars   == <<thisNode, shut, crashes, faults>>

vars == <<stage, api, inc, up, alloc, ckpt, cpuset, infra, cpuDir, annotated, seen, queue,
          pc, wobj, try, idx, val, path, rpc, rtodo, ritem, rval,
          thisNode, shut, crashes, faults>>

Stages == {"none", "pending", "admitted", "finished", "deleted"}
Phases == {"Absent", "Pending", "Running", "Succeeded"}

Objects == [uid : Pods \cup {NoPod}, phase : Phases,
            ids : [Containers -> 0 .. MaxStarts], up : [Containers -> BOOLEAN]]

Blank(u, phase) == [uid |-> u, phase |-> phase,
                    ids |-> [c \in Containers |-> 0], up |-> [c \in Containers |-> FALSE]]
NoObject == Blank(NoPod, "Absent")

Items == [uid : Pods, c : Containers, id : 1 .. MaxStarts]
Values == [cfg : SUBSET CPUs, real : SUBSET CPUs]
NoItem == [uid |-> NoPod, c |-> CHOOSE c \in Containers : TRUE, id |-> 0]
NoValue == [cfg |-> {}, real |-> {}]

NoFile == -2   \* kernel_max does not exist
EmptyDir == [dirs |-> {}, kernelMax |-> NoFile]
CpuDirs == [dirs : SUBSET Nat, kernelMax : Int]

-----------------------------------------------------------------------------
(* Lookups.                                                                *)

Exists(p) == api[p].phase # "Absent"
WithName(n) == {p \in Pods : Name[p] = n /\ Exists(p)}

(* What a GET by namespace/name returns.                                   *)
Stored(n) == IF WithName(n) = {} THEN NoObject
             ELSE api[CHOOSE p \in WithName(n) : TRUE]

(* Container id of c in Pod p has a cgroup directory on this node.         *)
Live(p, c, id) == p \in Local /\ up[p][c] /\ inc[p][c] = id /\ id # 0

(* The device ids the checkpoint file lists for the container.             *)
GetListOfAllocatedExclusiveCpus(p, c) ==
  [r \in CheckpointRequests(p, c) |-> IF p \in ckpt THEN alloc[p][c][r] ELSE {}]

(* The results determineCorrectCpuset may return for the container now.    *)
CorrectSets(p, c) ==
  DetermineCorrectCpuset(RequestsOf(p, c), GetListOfAllocatedExclusiveCpus(p, c))

(* A checkpoint file that cannot be read or parsed is only noticed by a    *)
(* container that needs it.                                                *)
ReadsCheckpoint(p, c) == CheckpointRequests(p, c) # {}

IsPodReadyForProcessing(o) == \A c \in ContainersOf(o.uid) : o.ids[c] # 0

(* PodStatus: the reason is the phase "Running" unless some container is   *)
(* reported waiting or terminated; restarts add up over the containers.    *)
(* A Completed container next to running ones gives "NotReady", as kubelet *)
(* calls a Pod ready only when all its containers are.  Pods have no init  *)
(* containers here, and no time between the request for their deletion and *)
(* the end of their containers, in which the reason is "Terminating".      *)
ReasonRunning(o) == o.phase = "Running" /\ \A c \in ContainersOf(o.uid) : o.up[c]
RestartCount(id) == IF id = 0 THEN 0 ELSE id - 1
Restarts(o) == MapThenSumSet(LAMBDA c : RestartCount(o.ids[c]), ContainersOf(o.uid))

(* PodChanged puts the new object into the queue if its phase becomes      *)
(* Running, if its reason becomes Running, or if it stays Running with     *)
(* more restarts.                                                          *)
Triggers(old, new) ==
  \/ old.phase # new.phase /\ new.phase = "Running"
  \/ ~ReasonRunning(old) /\ ReasonRunning(new)
  \/ ReasonRunning(old) /\ ReasonRunning(new) /\ Restarts(new) > Restarts(old)

-----------------------------------------------------------------------------
Init ==
  /\ stage = [p \in Pods |-> "none"]
  /\ api = [p \in Pods |-> Blank(p, "Absent")]
  /\ inc = [p \in Pods |-> [c \in Containers |-> 0]]
  /\ up = [p \in Pods |-> [c \in Containers |-> FALSE]]
  /\ alloc = [p \in Pods |-> [c \in Containers |-> [r \in PoolNames |-> {}]]]
  /\ ckpt = {}
  /\ cpuset = [p \in Pods |-> [c \in Containers |-> AllCpus]]
  /\ infra = [p \in Pods |-> AllCpus]
  /\ cpuDir = [n \in Names |-> [c \in Containers |-> EmptyDir]]
  /\ annotated = {}
  /\ seen = [n \in Names |-> NoObject]
  /\ queue = <<>>
  /\ pc = [w \in Workers |-> "idle"]
  /\ wobj = [w \in Workers |-> NoObject]
  /\ try = [w \in Workers |-> 0]
  /\ idx = [w \in Workers |-> 1]
  /\ val = [w \in Workers |-> NoValue]
  /\ path = [w \in Workers |-> FALSE]
  /\ rpc = "idle" /\ rtodo = {} /\ ritem = NoItem /\ rval = NoValue
  /\ thisNode = "unset" /\ shut = FALSE /\ crashes = 0 /\ faults = 0

-----------------------------------------------------------------------------
(* Environment: the life of a Pod (external).                              *)

CreatePod(p) ==
  /\ stage[p] = "none" /\ WithName(Name[p]) = {}
  /\ stage' = [stage EXCEPT ![p] = "pending"]
  /\ api' = [api EXCEPT ![p] = Blank(p, "Pending")]
  /\ UNCHANGED <<inc, up, alloc, ckpt, cgroupVars, cpuDir, annotated, watchVars,
                 workVars, recVars, procVars>>

DeviceClaims(p) == {cr \in ContainersOf(p) \X PoolNames : cr[2] \in CheckpointRequests(p, cr[1])}

(* Kubelet gives every claim as many devices of its pool as it asks for,   *)
(* none of them held through the same pool by a Pod that is still active.  *)
Allocations(p) ==
  {f \in [DeviceClaims(p) -> SUBSET UNION {DeviceIDs(cr[2]) : cr \in DeviceClaims(p)}] :
     /\ \A cr \in DeviceClaims(p) :
          /\ f[cr] \subseteq DeviceIDs(cr[2])
          /\ Cardinality(f[cr]) = Requests[p][cr[1]][cr[2]]
          /\ \A q \in ckpt, c \in Containers :
               stage[q] = "admitted" => f[cr] \cap alloc[q][c][cr[2]] = {}
     /\ \A cr, ds \in DeviceClaims(p) : cr # ds /\ cr[2] = ds[2] => f[cr] \cap f[ds] = {}}

(* Admission of the Pod by its node's kubelet.  On this node devices of    *)
(* Pods that ended are released first, the new ones are allocated and the  *)
(* checkpoint file is written before any container is started.             *)
AdmitPod(p) ==
  /\ stage[p] = "pending"
  /\ stage' = [stage EXCEPT ![p] = "admitted"]
  /\ IF p \in Local
     THEN \E f \in Allocations(p) :
            /\ alloc' = [alloc EXCEPT ![p] = [c \in Containers |-> [r \in PoolNames |->
                           IF <<c, r>> \in DeviceClaims(p) THEN f[<<c, r>>] ELSE {}]]]
            /\ ckpt' = {q \in ckpt : stage[q] = "admitted"} \cup {p}
     ELSE UNCHANGED <<alloc, ckpt>>
  /\ UNCHANGED <<api, inc, up, cgroupVars, cpuDir, annotated, watchVars, workVars,
                 recVars, procVars>>

(* The runtime starts a container under a new id, on all CPUs.             *)
StartContainer(p, c) ==
  /\ stage[p] = "admitted" /\ c \in ContainersOf(p) /\ ~up[p][c]
  /\ inc[p][c] < MaxStarts /\ (inc[p][c] = 0 \/ p \in Restarting)
  /\ inc' = [inc EXCEPT ![p][c] = @ + 1]
  /\ up' = [up EXCEPT ![p][c] = TRUE]
  /\ cpuset' = [cpuset EXCEPT ![p][c] = AllCpus]
  /\ UNCHANGED <<stage, api, alloc, ckpt, infra, cpuDir, annotated, watchVars, workVars,
                 recVars, procVars>>

StopContainer(p, c) ==
  /\ up[p][c]
  /\ up' = [up EXCEPT ![p][c] = FALSE]
  /\ UNCHANGED <<stage, api, inc, alloc, ckpt, cgroupVars, cpuDir, annotated, watchVars,
                 workVars, recVars, procVars>>

AllDown(p) == \A c \in Containers : ~up[p][c]

FinishPod(p) ==
  /\ stage[p] = "admitted" /\ AllDown(p) /\ \A c \in ContainersOf(p) : inc[p][c] > 0
  /\ stage' = [stage EXCEPT ![p] = "finished"]
  /\ UNCHANGED <<api, inc, up, alloc, ckpt, cgroupVars, cpuDir, annotated, watchVars,
                 workVars, recVars, procVars>>

(* The object disappears once kubelet has stopped the containers.          *)
DeletePod(p) ==
  /\ stage[p] \in {"pending", "admitted", "finished"} /\ AllDown(p)
  /\ stage' = [stage EXCEPT ![p] = "deleted"]
  /\ api' = [api EXCEPT ![p] = Blank(p, "Absent")]
  /\ UNCHANGED <<inc, up, alloc, ckpt, cgroupVars, cpuDir, annotated, watchVars, workVars,
                 recVars, procVars>>

Observed(p) ==
  [uid |-> p,
   phase |-> IF stage[p] = "finished" THEN "Succeeded"
             ELSE IF \A c \in ContainersOf(p) : inc[p][c] > 0 THEN "Running" ELSE "Pending",
   ids |-> inc[p], up |-> up[p]]

(* Kubelet reports the state of the Pod, some time after it changed.       *)
StatusUpdate(p) ==
  /\ stage[p] \in {"admitted", "finished"} /\ api[p] # Observed(p)
  /\ api' = [api EXCEPT ![p] = Observed(p)]
  /\ UNCHANGED <<stage, inc, up, alloc, ckpt, cgroupVars, cpuDir, annotated, watchVars,
                 workVars, recVars, procVars>>

-----------------------------------------------------------------------------
(* The informer.  AddFunc is empty and there is no DeleteFunc.  Several    *)
(* versions of an object may be delivered as one update; after a relist a  *)
(* new Pod of the same name is an update of the old one.                   *)

InformerQuiet(n) ==
  /\ seen[n] # Stored(n)
  /\ \/ seen[n].phase = "Absent" \/ Stored(n).phase = "Absent" \/ seen[n].uid # Stored(n).uid
  /\ seen' = [seen EXCEPT ![n] = Stored(n)]
  /\ UNCHANGED <<kubeVars, cgroupVars, cpuDir, annotated, queue, workVars, recVars, procVars>>

PodChanged(n) ==
  /\ seen[n] # Stored(n) /\ seen[n].phase # "Absent" /\ Stored(n).phase # "Absent"
  /\ seen' = [seen EXCEPT ![n] = Stored(n)]
  /\ queue' = IF Triggers(seen[n], Stored(n)) /\ ~shut THEN Append(queue, Stored(n)) ELSE queue
  /\ UNCHANGED <<kubeVars, cgroupVars, cpuDir, annotated, workVars, recVars, procVars>>

-----------------------------------------------------------------------------
(* The workers: handlePods.                                                *)

Uid(w) == wobj[w].uid
Cont(w) == SpecContainers[Uid(w)][idx[w]]
CidOf(w) == wobj[w].ids[Cont(w)]
WName(w) == Name[Uid(w)]

Goto(w, label) == pc' = [pc EXCEPT ![w] = label]

(* handlePods returns: the item is done.                                   *)
GiveUp(w) ==
  /\ Goto(w, "idle")
  /\ wobj' = [wobj EXCEPT ![w] = NoObject]
  /\ try' = [try EXCEPT ![w] = 0]
  /\ idx' = [idx EXCEPT ![w] = 1]
  /\ val' = [val EXCEPT ![w] = NoValue]
  /\ path' = [path EXCEPT ![w] = FALSE]

(* Faulty variants: one attempt too many; no limit at all.                 *)
RetryAgain(w) ==
  /\ Goto(w, "determine")
  /\ idx' = [idx EXCEPT ![w] = 1]
  /\ val' = [val EXCEPT ![w] = NoValue]
  /\ path' = [path EXCEPT ![w] = FALSE]
  /\ UNCHANGED wobj
RetryOnceMore(w) ==
  IF try[w] < MaxRetryCount THEN RetryAgain(w) /\ try' = [try EXCEPT ![w] = @ + 1] ELSE GiveUp(w)
RetryForever(w) == RetryAgain(w) /\ UNCHANGED try

(* adjustContainerSets failed: once more from the first container with the *)
(* same Pod object, or drop the item after MaxRetryCount attempts.         *)
Retry(w) ==
  IF try[w] + 1 < MaxRetryCount
  THEN /\ Goto(w, "determine")
       /\ try' = [try EXCEPT ![w] = @ + 1]
       /\ idx' = [idx EXCEPT ![w] = 1]
       /\ val' = [val EXCEPT ![w] = NoValue]
       /\ path' = [path EXCEPT ![w] = FALSE]
       /\ UNCHANGED wobj
  ELSE GiveUp(w)

ProcessNextWorkItem(w) ==
  /\ pc[w] = "idle" /\ queue # <<>>
  /\ queue' = Tail(queue)
  /\ IF Head(queue).phase = "Succeeded"
     THEN UNCHANGED <<pc, wobj>>
     ELSE Goto(w, "refresh") /\ wobj' = [wobj EXCEPT ![w] = Head(queue)]
  /\ UNCHANGED <<kubeVars, cgroupVars, cpuDir, annotated, seen, try, idx, val, path, recVars,
                 procVars>>

(* Faulty variant: the node of the Pod is not compared with NODE_NAME.     *)
HandleAnyNode(w, o) ==
  IF IsPodReadyForProcessing(o)
  THEN /\ Goto(w, "determine")
       /\ wobj' = [wobj EXCEPT ![w] = o]
       /\ try' = [try EXCEPT ![w] = 0]
       /\ idx' = [idx EXCEPT ![w] = 1]
       /\ UNCHANGED <<val, path>>
  ELSE GiveUp(w)

(* The rest of shouldPodBeHandled and gatherAllContainers for Pod object o: *)
(* kubelet reports a status for every container of the Pod or for none, so *)
(* an object that is not ready gives an empty map of containers.           *)
Handle(w, o) ==
  IF o.uid \in Local /\ IsPodReadyForProcessing(o)
  THEN /\ Goto(w, "determine")
       /\ wobj' = [wobj EXCEPT ![w] = o]
       /\ try' = [try EXCEPT ![w] = 0]
       /\ idx' = [idx EXCEPT ![w] = 1]
       /\ UNCHANGED <<val, path>>
  ELSE GiveUp(w)

(* One iteration of the loop in shouldPodBeHandled: read the Pod by name.  *)
(* If it never gets ready the object of the event is used.                 *)
RefreshPod(w) ==
  /\ pc[w] = "refresh"
  /\ LET new == Stored(WName(w))
     IN  IF new.phase = "Absent" THEN GiveUp(w)
         ELSE IF IsPodReadyForProcessing(new) THEN Handle(w, new)
         ELSE IF try[w] + 1 < MaxRetryCount
         THEN try' = [try EXCEPT ![w] = @ + 1] /\ UNCHANGED <<pc, wobj, idx, val, path>>
         ELSE Handle(w, wobj[w])
  /\ UNCHANGED <<kubeVars, cgroupVars, cpuDir, annotated, watchVars, recVars, procVars>>

(* Faulty variant: the CPUs of the requested pools, whatever was allocated. *)
DetermineWithoutCheckpoint(w) ==
  /\ pc[w] = "determine"
  /\ LET cpus == UNION {Pools[r].CPUset : r \in RequestsOf(Uid(w), Cont(w))}
     IN  val' = [val EXCEPT ![w] = [cfg |-> cpus, real |-> cpus]]
  /\ Goto(w, "apply")
  /\ UNCHANGED <<kubeVars, cgroupVars, cpuDir, annotated, watchVars, recVars, procVars,
                 wobj, try, idx, path>>

(* Faulty variant: the siblings are added whatever the policy says.        *)
DetermineWithSiblings(w) ==
  /\ pc[w] = "determine"
  /\ \E o \in {x \in CorrectSets(Uid(w), Cont(w)) : ~x.err} :
       val' = [val EXCEPT ![w] = [cfg |-> o.cfg, real |-> AddHTSiblingsToCPUSet(o.real)]]
  /\ Goto(w, "apply")
  /\ UNCHANGED <<kubeVars, cgroupVars, cpuDir, annotated, watchVars, recVars, procVars,
                 wobj, try, idx, path>>

(* adjustContainerSets, for one container: determineCorrectCpuset ...      *)
Determine(w) ==
  /\ pc[w] = "determine"
  /\ \E o \in CorrectSets(Uid(w), Cont(w)) :
       IF o.err THEN Retry(w)
       ELSE /\ Goto(w, "apply")
            /\ val' = [val EXCEPT ![w] = [cfg |-> o.cfg, real |-> o.real]]
            /\ UNCHANGED <<wobj, try, idx, path>>
  /\ UNCHANGED <<kubeVars, cgroupVars, cpuDir, annotated, watchVars, recVars, procVars>>

(* Faulty variant: the container is found by its name, running or not.     *)
ApplyCpusetByName(w) ==
  /\ pc[w] = "apply"
  /\ Goto(w, "clear")
  /\ path' = [path EXCEPT ![w] = val[w].real # {}]
  /\ cpuset' = IF val[w].real = {} THEN cpuset
               ELSE [cpuset EXCEPT ![Uid(w)][Cont(w)] = val[w].real]
  /\ UNCHANGED <<kubeVars, infra, cpuDir, annotated, watchVars, recVars, procVars,
                 wobj, try, idx, val>>

(* ... applyCpusetToContainer, which leaves the cgroup alone when the set  *)
(* is empty and fails when the directory of the container id is gone ...   *)
ApplyCpusetToContainer(w) ==
  /\ pc[w] = "apply"
  /\ IF val[w].real # {} /\ ~Live(Uid(w), Cont(w), CidOf(w))
     THEN Retry(w) /\ UNCHANGED cpuset
     ELSE /\ Goto(w, "clear")
          /\ path' = [path EXCEPT ![w] = val[w].real # {}]
          /\ cpuset' = IF val[w].real = {} THEN cpuset
                       ELSE [cpuset EXCEPT ![Uid(w)][Cont(w)] = val[w].real]
          /\ UNCHANGED <<wobj, try, idx, val>>
  /\ UNCHANGED <<kubeVars, infra, cpuDir, annotated, watchVars, recVars, procVars>>

(* ... applyCpusToContainer, which removes what is in the directory of     *)
(* namespace/name/container and then builds it up again.                   *)
ClearDir(n, c) == cpuDir' = [cpuDir EXCEPT ![n][c] = EmptyDir]

(* Faulty variant: kernel_max is the size.                                 *)
FillDirOffByOne(n, c, cfg) ==
  cpuDir' = [cpuDir EXCEPT ![n][c] = [dirs |-> @.dirs \cup {0} \cup 1 .. Cardinality(cfg) - 1,
                                      kernelMax |-> Cardinality(cfg)]]

(* cpu0 comes with the template; kernel_max is the size less one, which is *)
(* -1 for an empty set.                                                    *)
FillDir(n, c, cfg) ==
  cpuDir' = [cpuDir EXCEPT ![n][c] = [dirs |-> @.dirs \cup {0} \cup 1 .. Cardinality(cfg) - 1,
                                      kernelMax |-> Cardinality(cfg) - 1]]

ClearCpus(w) ==
  /\ pc[w] = "clear"
  /\ ClearDir(WName(w), Cont(w))
  /\ Goto(w, "fill")
  /\ UNCHANGED <<kubeVars, cgroupVars, annotated, watchVars, wobj, try, idx, val, path, recVars,
                 procVars>>

(* Faulty variant: the directory is built from the set of the cgroup.      *)
FillCpusFromCgroup(w) ==
  /\ pc[w] = "fill"
  /\ FillDir(WName(w), Cont(w), val[w].real)
  /\ IF idx[w] < Len(SpecContainers[Uid(w)])
     THEN Goto(w, "determine") /\ idx' = [idx EXCEPT ![w] = @ + 1]
     ELSE Goto(w, "infra") /\ UNCHANGED idx
  /\ val' = [val EXCEPT ![w] = NoValue]
  /\ UNCHANGED <<kubeVars, cgroupVars, annotated, watchVars, wobj, try, path, recVars, procVars>>

FillCpus(w) ==
  /\ pc[w] = "fill"
  /\ FillDir(WName(w), Cont(w), val[w].cfg)
  /\ IF idx[w] < Len(SpecContainers[Uid(w)])
     THEN Goto(w, "determine") /\ idx' = [idx EXCEPT ![w] = @ + 1]
     ELSE Goto(w, "infra") /\ UNCHANGED idx
  /\ val' = [val EXCEPT ![w] = NoValue]
  /\ UNCHANGED <<kubeVars, cgroupVars, annotated, watchVars, wobj, try, path, recVars, procVars>>

(* Faulty variant: container ids are not compared.                         *)
AllContainers(w) == {c \in ContainersOf(Uid(w)) : up[Uid(w)][c]}

(* getInfraContainerPath takes the last directory of the Pod's cgroup      *)
(* whose name is not a container id of the worker's copy of the status:    *)
(* the pause container, but also any container restarted since then.       *)
UnknownContainers(w) ==
  {c \in ContainersOf(Uid(w)) : up[Uid(w)][c] /\ inc[Uid(w)][c] # wobj[w].ids[c]}

PodCgroupExists(p) == p \in Local /\ stage[p] = "admitted"

ApplyCpusetToInfraContainer(w) ==
  /\ pc[w] = "infra"
  /\ \E d \in DefaultSets :
       \/ d = {} /\ Goto(w, "annotate") /\ UNCHANGED <<cgroupVars, wobj, try, idx, val, path>>
       \/ d # {} /\ (~path[w] \/ ~PodCgroupExists(Uid(w))) /\ Retry(w) /\ UNCHANGED cgroupVars
       \/ /\ d # {} /\ path[w] /\ PodCgroupExists(Uid(w))
          /\ Goto(w, "annotate")
          /\ \/ infra' = [infra EXCEPT ![Uid(w)] = d] /\ UNCHANGED cpuset
             \/ /\ \E c \in UnknownContainers(w) : cpuset' = [cpuset EXCEPT ![Uid(w)][c] = d]
                /\ UNCHANGED infra
          /\ UNCHANGED <<wobj, try, idx, val, path>>
  /\ UNCHANGED <<kubeVars, cpuDir, annotated, watchVars, recVars, procVars>>

(* The patch goes to whatever Pod has the name now.                        *)
SetPodAnnotation(w) ==
  /\ pc[w] = "annotate"
  /\ IF WithName(WName(w)) = {}
     THEN Retry(w) /\ UNCHANGED annotated
     ELSE GiveUp(w) /\ annotated' = annotated \cup WithName(WName(w))
  /\ UNCHANGED <<kubeVars, cgroupVars, cpuDir, watchVars, recVars, procVars>>

(* Faulty variant: a failing write of cpuset.cpus is ignored.              *)
WriteErrorIgnored(w) ==
  /\ faults < MaxFaults /\ faults' = faults + 1
  /\ pc[w] = "apply" /\ Goto(w, "clear") /\ path' = [path EXCEPT ![w] = TRUE]
  /\ UNCHANGED <<kubeVars, cgroupVars, cpuDir, annotated, watchVars, recVars, thisNode, shut,
                 crashes, wobj, try, idx, val>>

(* A file or API operation of the worker fails.                            *)
WorkerFault(w) ==
  /\ faults < MaxFaults /\ faults' = faults + 1
  /\ \/ pc[w] = "refresh" /\ GiveUp(w)
     \/ pc[w] = "determine" /\ ReadsCheckpoint(Uid(w), Cont(w)) /\ Retry(w)
     \/ pc[w] = "apply" /\ val[w].real # {} /\ Retry(w)
     \/ pc[w] = "infra" /\ path[w] /\ DefaultSets # {{}} /\ Retry(w)
     \/ pc[w] \in {"clear", "fill", "annotate"} /\ Retry(w)
  /\ UNCHANGED <<kubeVars, cgroupVars, cpuDir, annotated, watchVars, recVars, thisNode, shut,
                 crashes>>

Worker(w) ==
  \/ ProcessNextWorkItem(w) \/ RefreshPod(w) \/ Determine(w) \/ ApplyCpusetToContainer(w)
  \/ ClearCpus(w) \/ FillCpus(w) \/ ApplyCpusetToInfraContainer(w) \/ SetPodAnnotation(w)
  \/ WorkerFault(w)

-----------------------------------------------------------------------------
(* The reconciliation thread.                                              *)

(* The containers with an id in the statuses kubelet lists.                *)
Listed == {i \in Items : i.uid \in Local /\ i.c \in ContainersOf(i.uid) /\ api[i.uid].ids[i.c] = i.id}

(* GetPodsFromKubelet.  GetThisNode reads the Node object once in the life *)
(* of the process; without its address the request to kubelet fails.       *)
GetPodsFromKubelet ==
  /\ rpc = "idle" /\ TickerFires
  /\ thisNode' \in (IF thisNode # "unset" THEN {thisNode}
                    ELSE {"known"} \cup (IF NodeReadMayFail THEN {"empty"} ELSE {}))
  /\ IF thisNode' = "known" /\ Listed # {}
     THEN rtodo' = Listed /\ rpc' = "visit"
     ELSE UNCHANGED <<rtodo, rpc>>
  /\ UNCHANGED <<kubeVars, cgroupVars, cpuDir, annotated, watchVars, workVars, ritem, rval, shut,
                 crashes, faults>>

AfterItem(rest) == IF rest = {} THEN "idle" ELSE "visit"

(* Faulty variant: an empty cpuset, not a full one, counts as wrong.       *)
ReconcileEmptyOnly(i) ==
  /\ rpc = "visit" /\ i \in rtodo
  /\ rtodo' = rtodo \ {i}
  /\ \E o \in CorrectSets(i.uid, i.c) :
       IF Live(i.uid, i.c, i.id) /\ cpuset[i.uid][i.c] = {} /\ ~o.err
       THEN rpc' = "clear" /\ ritem' = i /\ rval' = [cfg |-> o.cfg, real |-> o.real]
       ELSE rpc' = AfterItem(rtodo') /\ UNCHANGED <<ritem, rval>>
  /\ UNCHANGED <<kubeVars, cgroupVars, cpuDir, annotated, watchVars, workVars, procVars>>

(* reconcileContainer up to determineCorrectCpuset: only a cpuset holding  *)
(* every CPU of the node counts as wrong.                                  *)
ReconcileContainer(i) ==
  /\ rpc = "visit" /\ i \in rtodo
  /\ rtodo' = rtodo \ {i}
  /\ \E o \in CorrectSets(i.uid, i.c) :
       IF Live(i.uid, i.c, i.id) /\ cpuset[i.uid][i.c] = AllCpus /\ ~o.err
       THEN rpc' = "clear" /\ ritem' = i /\ rval' = [cfg |-> o.cfg, real |-> o.real]
       ELSE rpc' = AfterItem(rtodo') /\ UNCHANGED <<ritem, rval>>
  /\ UNCHANGED <<kubeVars, cgroupVars, cpuDir, annotated, watchVars, workVars, procVars>>

ReconcilerClears ==
  /\ rpc = "clear"
  /\ ClearDir(Name[ritem.uid], ritem.c)
  /\ rpc' = "fill"
  /\ UNCHANGED <<kubeVars, cgroupVars, annotated, watchVars, workVars, rtodo, ritem, rval,
                 procVars>>

ReconcilerFills ==
  /\ rpc = "fill"
  /\ FillDir(Name[ritem.uid], ritem.c, rval.cfg)
  /\ rpc' = "write"
  /\ UNCHANGED <<kubeVars, cgroupVars, annotated, watchVars, workVars, rtodo, ritem, rval,
                 procVars>>

(* The kernel refuses an empty set, and a leaf that is gone.               *)
ReconcilerWrites ==
  /\ rpc = "write"
  /\ cpuset' = IF Live(ritem.uid, ritem.c, ritem.id) /\ rval.real # {}
               THEN [cpuset EXCEPT ![ritem.uid][ritem.c] = rval.real] ELSE cpuset
  /\ rpc' = AfterItem(rtodo) /\ ritem' = NoItem /\ rval' = NoValue
  /\ UNCHANGED <<kubeVars, infra, cpuDir, annotated, watchVars, workVars, rtodo, procVars>>

(* A failing checkpoint read or cgroup write ends the item; a failure to   *)
(* build the directory is only logged and the cpuset is written anyway.    *)
ReconcilerFault ==
  /\ faults < MaxFaults /\ faults' = faults + 1
  /\ \/ /\ rpc = "visit"
        /\ \E i \in rtodo : /\ ReadsCheckpoint(i.uid, i.c) /\ Live(i.uid, i.c, i.id)
                            /\ cpuset[i.uid][i.c] = AllCpus
                            /\ rtodo' = rtodo \ {i}
        /\ rpc' = AfterItem(rtodo') /\ UNCHANGED <<ritem, rval>>
     \/ rpc \in {"clear", "fill"} /\ rpc' = "write" /\ UNCHANGED <<rtodo, ritem, rval>>
     \/ /\ rpc = "write"
        /\ rpc' = AfterItem(rtodo) /\ ritem' = NoItem /\ rval' = NoValue /\ UNCHANGED rtodo
  /\ UNCHANGED <<kubeVars, cgroupVars, cpuDir, annotated, watchVars, workVars, thisNode, shut,
                 crashes>>

Reconciler ==
  \/ GetPodsFromKubelet \/ (\E i \in rtodo : ReconcileContainer(i))
  \/ ReconcilerClears \/ ReconcilerFills \/ ReconcilerWrites \/ ReconcilerFault

-----------------------------------------------------------------------------
(* The process.                                                            *)

(* Stop sends one value into stopChan, which the informer or an idle       *)
(* reconciliation thread receives, and shuts the queue down.               *)
Stop ==
  /\ ~shut /\ crashes < MaxCrashes
  /\ shut' = TRUE
  /\ \/ UNCHANGED rpc
     \/ rpc = "idle" /\ rpc' = "stopped"
  /\ UNCHANGED <<kubeVars, cgroupVars, cpuDir, annotated, watchVars, workVars, rtodo, ritem, rval,
                 thisNode, crashes, faults>>

(* A new process starts with an empty cache, queue and thread state.       *)
Restart ==
  /\ seen' = [n \in Names |-> NoObject]
  /\ queue' = <<>>
  /\ pc' = [w \in Workers |-> "idle"]
  /\ wobj' = [w \in Workers |-> NoObject]
  /\ try' = [w \in Workers |-> 0]
  /\ idx' = [w \in Workers |-> 1]
  /\ val' = [w \in Workers |-> NoValue]
  /\ path' = [w \in Workers |-> FALSE]
  /\ rpc' = "idle" /\ rtodo' = {} /\ ritem' = NoItem /\ rval' = NoValue
  /\ thisNode' = "unset" /\ shut' = FALSE /\ crashes' = crashes + 1
  /\ UNCHANGED <<kubeVars, cgroupVars, cpuDir, annotated, faults>>

Exit == shut /\ Restart
Crash == ~shut /\ crashes < MaxCrashes /\ Restart

-----------------------------------------------------------------------------
Environment ==
  \E p \in Pods : \/ CreatePod(p) \/ AdmitPod(p) \/ FinishPod(p) \/ DeletePod(p) \/ StatusUpdate(p)
                  \/ \E c \in Containers : StartContainer(p, c) \/ StopContainer(p, c)

Informer == \E n \in Names : InformerQuiet(n) \/ PodChanged(n)

Next ==
  \/ Environment \/ Informer \/ (\E w \in Workers : Worker(w)) \/ Reconciler
  \/ Stop \/ Exit \/ Crash

Spec == Init /\ [][Next]_vars

(* The Go scheduler runs every ready goroutine, the informer and kubelet's *)
(* status manager deliver what they hold, and a process told to stop ends. *)
Fairness ==
  /\ \A p \in Pods : WF_vars(StatusUpdate(p))
  /\ \A n \in Names : WF_vars(InformerQuiet(n) \/ PodChanged(n))
  /\ \A w \in Workers : WF_vars(Worker(w))
  /\ WF_vars(Reconciler)
  /\ WF_vars(Exit)

FairSpec == Spec /\ Fairness

-----------------------------------------------------------------------------
(* Properties.                                                             *)

WorkerLabels == {"idle", "refresh", "determine", "apply", "clear", "fill", "infra", "annotate"}

KubeTypeOK ==
  /\ stage \in [Pods -> Stages]
  /\ api \in [Pods -> Objects]
  /\ inc \in [Pods -> [Containers -> 0 .. MaxStarts]]
  /\ up \in [Pods -> [Containers -> BOOLEAN]]
  /\ alloc \in [Pods -> [Containers -> [PoolNames -> SUBSET Nat]]]
  /\ ckpt \in SUBSET Pods

CgroupTypeOK ==
  /\ cpuset \in [Pods -> [Containers -> SUBSET CPUs]]
  /\ infra \in [Pods -> SUBSET CPUs]

FileTypeOK ==
  /\ cpuDir \in [Names -> [Containers -> CpuDirs]]
  /\ annotated \in SUBSET Pods

WatchTypeOK ==
  /\ seen \in [Names -> Objects]
  /\ queue \in Seq(Objects)

WorkTypeOK ==
  /\ pc \in [Workers -> WorkerLabels]
  /\ wobj \in [Workers -> Objects]
  /\ try \in [Workers -> 0 .. MaxRetryCount - 1]
  /\ idx \in [Workers -> Nat \ {0}]
  /\ val \in [Workers -> Values]
  /\ path \in [Workers -> BOOLEAN]

RecTypeOK ==
  /\ rpc \in {"idle", "visit", "clear", "fill", "write", "stopped"}
  /\ rtodo \in SUBSET Items
  /\ ritem \in Items \cup {NoItem}
  /\ rpc \in {"clear", "fill", "write"} => ritem \in Items
  /\ rval \in Values

ProcTypeOK ==
  /\ thisNode \in {"unset", "known", "empty"}
  /\ shut \in BOOLEAN
  /\ crashes \in Nat
  /\ faults \in Nat

(* A worker past "idle" has a Pod in hand and a valid container index.     *)
WorkObjectsOK ==
  \A w \in Workers :
    /\ pc[w] # "idle" => wobj[w].uid \in Pods
    /\ pc[w] \notin {"idle", "refresh"} => idx[w] \in 1 .. Len(SpecContainers[wobj[w].uid])

QueueOK == \A i \in 1 .. Len(queue) : queue[i].uid \in Pods

(* Every variable has its type.  In particular every cpuset the threads    *)
(* compute or write consists of CPUs of the node, a worker always has a    *)
(* Pod and a container of its spec in hand, and the retry counter stays    *)
(* below MaxRetryCount.                                                    *)
TypeOK ==
  /\ KubeTypeOK /\ CgroupTypeOK /\ FileTypeOK /\ WatchTypeOK /\ WorkTypeOK /\ RecTypeOK
  /\ ProcTypeOK /\ WorkObjectsOK /\ QueueOK /\ \A p \in Pods : api[p].uid = p

(* A running container of this node.                                       *)
Running(p, c) == p \in Local /\ up[p][c]
Provisioned(p, c) == Running(p, c) /\ cpuset[p][c] # AllCpus

(* The cpusets determineCorrectCpuset may choose for the container.        *)
OwnSets(p, c) == {o.real : o \in {x \in CorrectSets(p, c) : ~x.err}} \ {{}}

(* Whatever the interleaving of workers, reconciliation, restarts of       *)
(* containers, reuse of names, crashes and faults: a running container is  *)
(* on all CPUs, or on a set computed from its own device allocation, or    *)
(* on the default pool (applyCpusetToContainer, reconcileContainer,        *)
(* applyCpusetToInfraContainer).                                           *)
Confined ==
  \A p \in Pods, c \in Containers :
    Provisioned(p, c) => cpuset[p][c] \in OwnSets(p, c) \cup DefaultSets

(* CPUSetter keeps the promise of CpusetSpec: events, stale objects,       *)
(* retries, restarts and the races of its threads show as nothing but      *)
(* writes of sets that were settled at the Pod's admission, into the       *)
(* cgroups of containers that run (adjustContainerSets, reconcileCpusets). *)
LocalContainers == Local \X Containers
Promise ==
  INSTANCE CpusetSpec WITH
    Keys <- LocalContainers, All <- AllCpus,
    running <- {k \in LocalContainers : up[k[1]][k[2]]},
    cpuset <- [k \in LocalContainers |-> cpuset[k[1]][k[2]]],
    allowed <- [k \in LocalContainers |-> (OwnSets(k[1], k[2]) \cup DefaultSets) \ {{}}]
ImplementsCpusetSpec == Promise!Spec

(* The CPUs the container holds through exclusive pools: those of which    *)
(* kubelet allocated a device, in whatever round ListAndWatch offered it.  *)
(* What CPUSetter makes of the device ids is not used here.                *)
AllocatedOf(r, ids) == {x \in Pools[r].CPUset : \E d \in ids : \E k \in 0 .. d : d = x + k * NumCPU}
ExclusiveCpus(p, c) ==
  UNION {AllocatedOf(r, GetListOfAllocatedExclusiveCpus(p, c)[r]) :
           r \in OfKind(RequestsOf(p, c), ExclusivePoolID)}

(* Once CPUSetter has written the cpuset of a container, the container     *)
(* shares no CPU with what is exclusively allocated to another running     *)
(* container (README.md: "no containers can ever -even accidentally-       *)
(* access CPU resources not meant for them").  This is for a configuration *)
(* whose pools do not overlap and are not overcommitted.                   *)
Isolation ==
  \A p, q \in Pods, c, d \in Containers :
    /\ <<p, c>> # <<q, d>> /\ Provisioned(p, c) /\ Running(q, d)
    => cpuset[p][c] \cap ExclusiveCpus(q, d) = {}

(* A running container is on all CPUs or on exactly a set computed for it: *)
(* CPUSetter "calculates what is the appropriate cpuset for the container" *)
(* (README.md) and nothing else is written into its cgroup.                *)
OwnCpusOnly ==
  \A p \in Pods, c \in Containers : Provisioned(p, c) => cpuset[p][c] \in OwnSets(p, c)

(* Every CPU exclusively allocated to a container is in the cpuset         *)
(* CPUSetter wrote: "the allocated CPUs in case of exclusive" (README.md). *)
AllocatedCpusGranted ==
  \A p \in Pods, c \in Containers : Provisioned(p, c) => ExclusiveCpus(p, c) \subseteq cpuset[p][c]

(* The hyperthread siblings of the CPUs a container got from singleThreaded *)
(* pools are left "un-assigned" (README.md): CPUSetter wrote them neither  *)
(* into the cpuset of that container nor into that of any other one, be it *)
(* of a shared, cloudphone or multiThreaded pool or of none.               *)
SiblingsUnassigned ==
  \A p, q \in Pods, c, d \in Containers :
    /\ Provisioned(p, c) /\ Provisioned(q, d)
    /\ \A r \in OfKind(RequestsOf(p, c), ExclusivePoolID) : Pools[r].HTPolicy = SingleThreadHTPolicy
    => \A x \in ExclusiveCpus(p, c) : HTSiblings[x] \cap cpuset[q][d] = {}

(* The workers and the reconciliation thread race for the same cgroup, but *)
(* whoever comes second writes what is already there: while a container    *)
(* keeps running, its cpuset changes at most once.                         *)
SetOnce ==
  [][\A p \in Pods, c \in Containers :
       Provisioned(p, c) /\ Running(p, c)' /\ inc'[p][c] = inc[p][c]
         => cpuset'[p][c] = cpuset[p][c]]_vars

(* Some thread is about to rebuild the emulated directory of the container. *)
Rebuilding(p, c) ==
  \/ \E w \in Workers : pc[w] \in {"clear", "fill"} /\ WName(w) = Name[p] /\ Cont(w) = c
  \/ rpc = "fill" /\ Name[ritem.uid] = Name[p] /\ ritem.c = c

(* Concurrent rebuilding of the emulated cpu directory leaves it coherent: *)
(* a provisioned container that nobody is rebuilding sees as many cpuN     *)
(* directories as CPUs configured for it, and kernel_max agrees with them. *)
EmulationAgrees ==
  \A p \in Local : \A c \in ContainersOf(p) :
    Provisioned(p, c) /\ ~Rebuilding(p, c) =>
      LET dir == cpuDir[Name[p]][c]
      IN  /\ dir.dirs = 0 .. dir.kernelMax
          /\ \E o \in CorrectSets(p, c) : dir.kernelMax = Cardinality(o.cfg) - 1

(* The cpusets-configured annotation tells the truth: the containers the   *)
(* Pod was started with are provisioned.                                   *)
AnnotationTruthful ==
  \A p \in annotated, c \in Containers :
    Running(p, c) /\ inc[p][c] = 1 => Provisioned(p, c)

(* "In case a container's observed cpuset differs from the expected (i.e.  *)
(* container was restarted) the thread resets it to the proper value"      *)
(* (StartReconciliation): no container stays on all CPUs.                  *)
EventuallyProvisioned ==
  \A p \in Local : \A c \in ContainersOf(p) : \A k \in 1 .. MaxStarts :
    Live(p, c, k) ~> (~Live(p, c, k) \/ cpuset[p][c] # AllCpus)

(* A worker never hangs on an item: handlePods returns after a bounded     *)
(* number of refreshes and attempts.                                       *)
WorkersReturn == \A w \in Workers : pc[w] # "idle" ~> pc[w] = "idle"

(* CPUSetter "is triggered whenever a Pod is created, or changes its       *)
(* state" (README.md), so the infra container of a Pod whose containers    *)
(* keep running is moved to the default pool too.                          *)
PodUp(p) == p \in Local /\ \A c \in ContainersOf(p) : up[p][c]
InfraProvisioned == \A p \in Pods : PodUp(p) ~> (infra[p] # AllCpus \/ ~PodUp(p))

-----------------------------------------------------------------------------
(* The inductive invariant behind Confined and Isolation.                  *)

Started(p) == stage[p] \in {"admitted", "finished", "deleted"}

(* An object that reports a container id belongs to a Pod kubelet admitted. *)
Plausible(o) ==
  \A c \in Containers : o.ids[c] # 0 =>
    o.uid \in Pods /\ Started(o.uid) /\ o.ids[c] <= inc[o.uid][c]

ObjectsPlausible ==
  /\ \A p \in Pods : Plausible(api[p])
  /\ \A n \in Names : Plausible(seen[n])
  /\ \A i \in 1 .. Len(queue) : Plausible(queue[i])
  /\ \A w \in Workers : Plausible(wobj[w])

(* Only containers of admitted Pods run, and the checkpoint file has the   *)
(* entries of every admitted Pod of the node.                              *)
KubeletCoherent ==
  /\ \A p \in Pods, c \in Containers :
       /\ inc[p][c] # 0 => Started(p)
       /\ up[p][c] => stage[p] = "admitted" /\ c \in ContainersOf(p)
  /\ \A p \in Local : stage[p] = "admitted" => p \in ckpt

(* The devices of a container come from the pool it asked, and no two      *)
(* containers of admitted Pods hold the same device of a pool.             *)
DevicesDisjoint ==
  /\ \A p \in Pods, c \in Containers, r \in PoolNames :
       alloc[p][c][r] \subseteq DeviceIDs(r)
  /\ \A p, q \in Local, c, d \in Containers, r \in PoolNames :
       <<p, c>> # <<q, d>> /\ stage[p] = "admitted" /\ stage[q] = "admitted"
         => alloc[p][c][r] \cap alloc[q][d][r] = {}

Adjusting == {"determine", "apply", "clear", "fill", "infra", "annotate"}

(* A worker past shouldPodBeHandled holds an object of a Pod of this node  *)
(* whose containers were all started, and ids that are not from the        *)
(* future.  The object may be stale, but it is never of another node's Pod *)
(* or of a Pod whose devices are not decided yet.                          *)
HandlesStartedPods ==
  \A w \in Workers : pc[w] \in Adjusting =>
    /\ Uid(w) \in Local /\ Started(Uid(w))
    /\ \A c \in ContainersOf(Uid(w)) : wobj[w].ids[c] \in 1 .. inc[Uid(w)][c]

(* What a thread is about to write into a container of an admitted Pod is  *)
(* a set computed for this container.                                      *)
PendingWritesOwn ==
  /\ \A w \in Workers : pc[w] = "apply" /\ stage[Uid(w)] = "admitted" /\ val[w].real # {}
       => val[w].real \in OwnSets(Uid(w), Cont(w))
  /\ \A i \in rtodo : Started(i.uid)
  /\ rpc \in {"clear", "fill", "write"} =>
       /\ ritem.uid \in Local /\ Started(ritem.uid)
       /\ stage[ritem.uid] = "admitted" /\ rval.real # {} => rval.real \in OwnSets(ritem.uid, ritem.c)

IInv ==
  /\ TypeOK
  /\ ObjectsPlausible
  /\ KubeletCoherent
  /\ DevicesDisjoint
  /\ HandlesStartedPods
  /\ PendingWritesOwn
  /\ Confined

(* The configuration rules of README.md under which the pools separate     *)
(* containers: an exclusive CPU is in one exclusive pool only and in no    *)
(* shared or default pool, it is not overcommitted, its siblings are not   *)
(* listed in exclusive pools, and no cloudphone pool covers it.            *)
ExclusivePools == {n \in PoolNames : RequestKind(n) = ExclusivePoolID}
ExclusivePoolCpus == UNION {Pools[n].CPUset : n \in ExclusivePools}

Separated ==
  /\ \A s \in DefaultSets \cup SharedPoolSets : s \cap ExclusivePoolCpus = {}
  /\ \A m, n \in ExclusivePools : m # n => Pools[m].CPUset \cap Pools[n].CPUset = {}
  /\ \A n \in ExclusivePools : Pools[n].Overcommitment <= 1
  /\ \A x \in ExclusivePoolCpus : HTSiblings[x] \cap ExclusivePoolCpus \subseteq {x}
  /\ \A r \in PoolNames : RequestKind(r) = CloudphonePoolID =>
       \A pool \in SelectPool(r), k \in CPUs :
         k \in pool.CPUset => CoreOf[k] \notin ExclusivePoolCpus

(* No container is started twice.                                          *)
NeverRestarted == Restarting = {} \/ MaxStarts <= 1

(* A container asks for one exclusive pool or for one cloudphone pool.     *)
PlainRequests ==
  \A p \in Pods, c \in Containers :
    \A r, t \in RequestsOf(p, c) :
      RequestKind(r) \in CheckpointKinds /\ RequestKind(t) \in CheckpointKinds => r = t

(* SelectPool has no choice: there is one shared and one default pool, and *)
(* the name of a requested pool is the beginning of no other.              *)
PlainPools ==
  /\ \A s, t \in SharedPoolSets : s = t
  /\ \A s, t \in DefaultSets : s = t
  /\ \A p \in Pods, c \in Containers : \A r \in RequestsOf(p, c) : SelectPool(r) = {Pools[r]}

(* No two Pods of the node have, one after the other, the same name.       *)
LocalNamesDistinct == \A p, q \in Local : Name[p] = Name[q] => p = q

(* Whatever devices kubelet gives a container, the set computed for it is  *)
(* neither empty nor the whole node.                                       *)
ProperSets ==
  \A p \in Local : \A c \in ContainersOf(p) :
    \A devs \in [CheckpointRequests(p, c) ->
                  SUBSET UNION {DeviceIDs(r) : r \in CheckpointRequests(p, c)}] :
      \A o \in DetermineCorrectCpuset(RequestsOf(p, c), devs) :
        ~o.err => o.real \notin {{}, AllCpus}

(* The configuration keeps the hyperthread siblings of the CPUs of         *)
(* singleThreaded pools out of every pool, and no such sibling is one of a *)
(* CPU of a multiThreaded pool as well.                                    *)
SingleThreadedCpus ==
  UNION {Pools[n].CPUset : n \in {m \in ExclusivePools : Pools[m].HTPolicy = SingleThreadHTPolicy}}
SiblingsApart ==
  \A x \in SingleThreadedCpus :
    /\ HTSiblings[x] \cap ExclusivePoolCpus = {}
    /\ \A s \in SharedPoolSets \cup DefaultSets : HTSiblings[x] \cap s = {}
    /\ \A n \in PoolNames, k \in CPUs :
         RequestKind(n) = CloudphonePoolID =>
           \A pool \in SelectPool(n) : k \in pool.CPUset => CoreOf[k] \notin HTSiblings[x]
    /\ \A n \in ExclusivePools : Pools[n].HTPolicy = MultiThreadHTPolicy =>
         \A y \in Pools[n].CPUset : HTSiblings[x] \cap HTSiblings[y] = {}
=============================================================================
