------------------------------ MODULE Webhook -------------------------------
(***************************************************************************)
(* The admission of one Pod: the mutating webhook                          *)
(* (cmd/webhook/webhook.go) and the API server that calls it when the Pod  *)
(* is created, again after another plugin changed the object (the          *)
(* reinvocationPolicy is IfNeeded), and on every update, CPUSetter's       *)
(* annotation of the Pod being one.  The webhook keeps no state; what it   *)
(* did before it only knows from the object.                               *)
(*                                                                         *)
(* A container is [name, requests, limit, cpuRequest, command, args, env,  *)
(* mounts], limit and cpuRequest being CPU time in thousandths; a variable *)
(* of env is [name, value], a mount is the name of a volume, a sequence of *)
(* words.  A Pod is [name, containers, volumes, annotated, processes] with *)
(* volumes of the form [name, dir] and the processes of the annotation by  *)
(* container.                                                              *)
(***************************************************************************)
EXTENDS CpuAnnotation

CONSTANTS
  Templates,   \* the Pods users submit
  Sidecars,    \* the containers other plugins inject
  ConfigSets,  \* what the ConfigMap may hold: sets of [pool name -> size]
  NoPod,
  MaxEdits,    \* bound: changes of the ConfigMap
  MaxFaults    \* bound: failing reads of it, and failures of the webhook

VARIABLES
  quotas,      \* the flag cfs-quotas
  configs,     \* the pool configurations of the cluster
  up,          \* the webhook answers
  phase,       \* of the review: "idle", "call", "mutated"
  op, pod,     \* the operation and the object under review
  calls,       \* calls of the webhook in this review
  submitted,   \* the Pod as the user wrote it
  stored,      \* the Pod in the API server
  refused,     \* an update that changes no part of the spec was refused
  edits, faults

vars == <<quotas, configs, up, phase, op, pod, calls, submitted, stored, refused, edits, faults>>

IsSequence(s) == s \in Seq(Range(s))

IsContainer(c) ==
  /\ c = [name |-> c.name, requests |-> c.requests, limit |-> c.limit,
          cpuRequest |-> c.cpuRequest, command |-> c.command, args |-> c.args,
          env |-> c.env, mounts |-> c.mounts]
  /\ c.requests \in [DOMAIN c.requests -> Nat]
  /\ \A kind \in {SharedPoolID, ExclusivePoolID, CloudphonePoolID} : CPURequests(c, kind) \in Nat
  /\ c.limit \in Nat /\ c.cpuRequest \in Nat
  /\ IsSequence(c.command) /\ IsSequence(c.args) /\ IsSequence(c.env) /\ IsSequence(c.mounts)

IsPod(p) ==
  /\ p = [name |-> p.name, containers |-> p.containers, volumes |-> p.volumes,
          annotated |-> p.annotated, processes |-> p.processes]
  /\ IsSequence(p.containers) /\ IsSequence(p.volumes)
  /\ \A c \in Range(p.containers) : IsContainer(c)

ASSUME WebhookAssumption ==
  /\ \A p \in Templates : p # NoPod /\ IsPod(p)
  /\ \A c \in Sidecars : IsContainer(c)
  /\ \A s \in ConfigSets : IsFiniteSet(s) /\ \A conf \in s : conf \in [DOMAIN conf -> Nat]
  /\ MaxEdits \in Nat /\ MaxFaults \in Nat

QuotaAll == "all"
QuotaShared == "shared"

Podinfo == <<"podinfo">>
Hostbin == <<"hostbin">>
CpuVolume(c) == <<"cpu", c.name>>
Starter == <<"process-starter">>
Quoted == "\"quoted\""  \* a word of a command with a quotation mark in it

-----------------------------------------------------------------------------
(* Reading the Pod.                                                        *)

Indices(p) == 1 .. Len(p.containers)
ContainerExists(p, c) == c.name \in DOMAIN p.processes
WithProcesses(p, c) ==
  [requests |-> c.requests,
   processes |-> IF ContainerExists(p, c) THEN p.processes[c.name] ELSE <<>>]

(* Quantities print with a suffix if they are multiples of 1000 or of      *)
(* 1000000; only the "k" of the former is undone before Atoi.              *)
Atoi(q) == q % 1000000 # 0 \/ q = 0
RequestsReadable(p) == \A i \in Indices(p) : \A r \in DOMAIN p.containers[i].requests :
                         Atoi(p.containers[i].requests[r])

(* Every container of the annotation has processes and is accepted.        *)
ValidateAnnotation(p) ==
  \A n \in DOMAIN p.processes :
    /\ p.processes[n] # <<>>
    /\ \E i \in Indices(p) : p.containers[i].name = n
                             /\ AnnotationAccepted(WithProcesses(p, p.containers[i]))

(* The patches that make the process-starter the entry point are needed    *)
(* for a container of the annotation, and for one that asks for exclusive  *)
(* or cloudphone CPUs and says what its command is.                        *)
PinningPatchNeeded(p, c) ==
  \/ ContainerExists(p, c)
  \/ /\ CPURequests(c, ExclusivePoolID) > 0 \/ CPURequests(c, CloudphonePoolID) > 0
     /\ c.command # <<>>

-----------------------------------------------------------------------------
(* setRequestLimit.                                                        *)

(* The full size of the shared pool, on the node where it is largest.  The *)
(* pool is found by comparing quantities, the last match in map order      *)
(* counting; without configuration the request itself has to do.           *)
MaxSharedPoolLimits(c, readable) ==
  LET shared   == CPURequests(c, SharedPoolID)
      names    == {r \in DOMAIN c.requests : c.requests[r] = shared}
      sizes(n) == {1000 * conf[n] : conf \in {x \in configs : n \in DOMAIN x}}
  IN  IF ~readable THEN {shared}
      ELSE IF names = {} THEN {0}
      ELSE {Max({0} \cup sizes(n)) : n \in names}

(* Faulty variant: the request counts instead of the size of the pool.     *)
TotalCFSLimitsOfRequest(c, readable) ==
  {1000 * CPURequests(c, ExclusivePoolID) + CPURequests(c, SharedPoolID)}

(* Faulty variant: the exclusive CPUs are taken off the shared time.       *)
TotalCFSLimitsOfRest(c, readable) ==
  {CPURequests(c, SharedPoolID) - 1000 * CPURequests(c, ExclusivePoolID)}

(* The possible values of totalCFSLimit; 0 leaves the container alone.     *)
TotalCFSLimits(c, readable) ==
  LET exclusive  == CPURequests(c, ExclusivePoolID)
      shared     == CPURequests(c, SharedPoolID)
      cloudphone == CPURequests(c, CloudphonePoolID)
  IN  IF exclusive > 0 /\ quotas = QuotaAll
      THEN IF shared > 0
           THEN {1000 * exclusive + m : m \in MaxSharedPoolLimits(c, readable)}
           ELSE {1000 * exclusive + 100}
      ELSE IF shared > 0 THEN {shared}
      ELSE IF cloudphone > 0 /\ quotas = QuotaAll THEN {1000 * cloudphone + 100}
      ELSE {0}

-----------------------------------------------------------------------------
(* The JSON patches, by their effect on the object: those of a container   *)
(* touch nothing else and are applied in their order.  Appending to an     *)
(* array the object does not have is an error, and NoPod stands for an     *)
(* object they do not apply to.  A replaced field need not be there: the   *)
(* limits and the requests it is one of are.                               *)

Set(x, field, value) == IF x = NoPod THEN NoPod ELSE [x EXCEPT ![field] = value]
Add(x, field, value) ==
  IF x = NoPod \/ x[field] = <<>> THEN NoPod ELSE [x EXCEPT ![field] = Append(@, value)]

EnvVar(name, value) == [name |-> name, value |-> value]
HasVar(c, name) == \E k \in 1 .. Len(c.env) : c.env[k].name = name

(* A variable is appended where there are some, else it is a new array.    *)
PatchEnv(x, append, var) == IF append THEN Add(x, "env", var) ELSE Set(x, "env", <<var>>)

(* Faulty variant: the CPU request of the user stays.                      *)
PatchCPULimitOnly(x, limit) == IF limit = 0 THEN x ELSE Set(x, "limit", limit)

PatchCPULimit(x, limit) ==
  IF limit = 0 THEN x ELSE Set(Set(x, "limit", limit), "cpuRequest", 0)

PoolsVar(c) == EnvVar("CPU_POOLS", CPUPools(c))

(* Faulty variants: a variable of an earlier call is not recognised; the   *)
(* variable added by the other patches of this call is.                    *)
PatchContainerEnvAgain(x, c, envPatched) == PatchEnv(x, envPatched \/ c.env # <<>>, PoolsVar(c))
PatchContainerEnvAlone(x, c, envPatched) ==
  IF HasVar(c, "CPU_POOLS") THEN x ELSE PatchEnv(x, c.env # <<>>, PoolsVar(c))

(* Here and below c is the container as it came and x the container with   *)
(* the patches so far.                                                     *)
PatchContainerEnv(x, c, envPatched) ==
  IF HasVar(c, "CPU_POOLS") THEN x ELSE PatchEnv(x, envPatched \/ c.env # <<>>, PoolsVar(c))

(* The process-starter becomes the entry point and, unless the annotation  *)
(* says what to start, the command becomes its arguments.                  *)
EntryPointPatches(x, c, annotated) ==
  LET y == Set(x, "command", Starter)
  IN  IF c.command # <<>> /\ ~annotated THEN Set(y, "args", c.command \o c.args) ELSE y

PinningPatches(x, c, annotated) ==
  LET y == Add(Add(Add(x, "mounts", Podinfo), "mounts", Hostbin), "mounts", CpuVolume(c))
      z == PatchEnv(y, c.env # <<>>, EnvVar("CONTAINER_NAME", c.name))
  IN  EntryPointPatches(z, c, annotated)

(* Faulty variant: an earlier call only counts for mounts and variables.   *)
PatchContainerForPinningAgain(x, c, annotated) ==
  IF Contains(c.mounts, Podinfo) THEN EntryPointPatches(x, c, annotated)
  ELSE PinningPatches(x, c, annotated)

(* A mount of podinfo is taken as the sign of an earlier call.             *)
PatchContainerForPinning(x, c, annotated) ==
  IF Contains(c.mounts, Podinfo) THEN x ELSE PinningPatches(x, c, annotated)

Managed(c) ==
  \E kind \in {SharedPoolID, ExclusivePoolID, CloudphonePoolID} : CPURequests(c, kind) > 0

PatchContainer(p, c, limit) ==
  LET needed == PinningPatchNeeded(p, c)
      x == PatchCPULimit(c, limit)
      y == IF needed THEN PatchContainerForPinning(x, c, ContainerExists(p, c)) ELSE x
  IN  IF Managed(c) THEN PatchContainerEnv(y, c, needed) ELSE y

(* The directory that CPUSetter fills is found by the name of the Pod.     *)
CpuDir(p, c) == <<p.name, c.name>>

Volume(name, dir) == [name |-> name, dir |-> dir]
PinningVolumes(p) ==
  <<Volume(Podinfo, <<>>), Volume(Hostbin, <<>>)>>
  \o [i \in Indices(p) |-> Volume(CpuVolume(p.containers[i]), CpuDir(p, p.containers[i]))]

PatchVolumesForPinning(p) ==
  IF \E k \in 1 .. Len(p.volumes) : p.volumes[k].name \in {Hostbin, Podinfo} THEN p.volumes
  ELSE IF p.volumes = <<>> THEN NoPod
  ELSE p.volumes \o PinningVolumes(p)

(* Command and arguments are joined without escaping: a word with a        *)
(* quotation mark spoils the patch, and Marshal fails.                     *)
Marshals(p) ==
  \A i \in Indices(p) :
    LET c == p.containers[i]
    IN  (PinningPatchNeeded(p, c) /\ ~Contains(c.mounts, Podinfo) /\ ~ContainerExists(p, c))
          => ~Contains(c.command \o c.args, Quoted)

Pinned(p) == {i \in Indices(p) : PinningPatchNeeded(p, p.containers[i])}

(* The Pod with all patches, limits[i] being the quota of container i.     *)
PatchedPod(p, limits) ==
  LET containers == [i \in Indices(p) |-> PatchContainer(p, p.containers[i], limits[i])]
      volumes    == IF Pinned(p) # {} THEN PatchVolumesForPinning(p) ELSE p.volumes
  IN  IF volumes = NoPod \/ \E i \in Indices(p) : containers[i] = NoPod THEN NoPod
      ELSE [p EXCEPT !.containers = containers, !.volumes = volumes]

(* What the patches mutatePods answers with may make of the Pod; nothing   *)
(* if it denies the Pod.                                                   *)
MutatePods(p, readable) ==
  LET choices(i) == TotalCFSLimits(p.containers[i], readable)
  IN  IF \/ ~RequestsReadable(p) \/ ~Marshals(p)
         \/ p.annotated /\ (~ValidateAnnotation(p) \/ Pinned(p) = {})
      THEN {}
      ELSE {PatchedPod(p, f) :
              f \in {g \in [Indices(p) -> UNION {choices(i) : i \in Indices(p)}] :
                       \A i \in Indices(p) : g[i] \in choices(i)}}

-----------------------------------------------------------------------------
(* The API server (external).                                              *)

(* Names of containers and volumes, and the mounts of a container, are     *)
(* unique; every mount has its volume; no more CPU is requested than the   *)
(* limit allows.                                                           *)
Valid(p) ==
  /\ \A i, j \in Indices(p) : p.containers[i].name = p.containers[j].name => i = j
  /\ \A i, j \in 1 .. Len(p.volumes) : p.volumes[i].name = p.volumes[j].name => i = j
  /\ \A i \in Indices(p) :
       LET c == p.containers[i]
       IN  /\ IsInjective(c.mounts)
           /\ \A m \in Range(c.mounts) : \E k \in 1 .. Len(p.volumes) : p.volumes[k].name = m
           /\ c.limit # 0 => c.cpuRequest <= c.limit

(* The part of a Pod that an update may not change.                        *)
PodSpec(p) == <<p.containers, p.volumes>>

Init ==
  /\ quotas \in {QuotaAll, QuotaShared} /\ configs \in ConfigSets /\ up = TRUE
  /\ phase = "idle" /\ op = "CREATE" /\ pod = NoPod /\ calls = 0
  /\ submitted = NoPod /\ stored = NoPod /\ refused = "no"
  /\ edits = 0 /\ faults = 0

Create(p) ==
  /\ submitted = NoPod
  /\ submitted' = p /\ pod' = p /\ op' = "CREATE" /\ phase' = "call" /\ calls' = 0
  /\ UNCHANGED <<quotas, configs, up, stored, refused, edits, faults>>

(* An update that leaves the spec alone, like CPUSetter's annotation.      *)
Update ==
  /\ phase = "idle" /\ stored # NoPod
  /\ pod' = stored /\ op' = "UPDATE" /\ phase' = "call" /\ calls' = 0
  /\ UNCHANGED <<quotas, configs, up, submitted, stored, refused, edits, faults>>

(* The request under review fails.                                         *)
Refuse(why) ==
  /\ phase' = "idle" /\ pod' = NoPod
  /\ refused' = IF op = "UPDATE" THEN why ELSE refused

(* A call of the webhook and what the API server makes of the answer.      *)
ServeMutatePod(readable) ==
  /\ phase = "call" /\ up
  /\ readable \/ faults < MaxFaults
  /\ faults' = IF readable THEN faults ELSE faults + 1
  /\ calls' = calls + 1
  /\ \/ MutatePods(pod, readable) = {} /\ Refuse("denied")
     \/ \E patched \in MutatePods(pod, readable) :
          IF patched = NoPod THEN Refuse("unpatched")
          ELSE phase' = "mutated" /\ pod' = patched /\ UNCHANGED refused
  /\ UNCHANGED <<quotas, configs, up, op, submitted, stored, edits>>

(* The failurePolicy is Fail.                                              *)
CallFails ==
  /\ phase = "call" /\ ~up
  /\ Refuse("down")
  /\ UNCHANGED <<quotas, configs, up, op, calls, submitted, stored, edits, faults>>

(* Other plugins change a Pod that is created, and the webhook is called   *)
(* once more (reinvocationPolicy IfNeeded).                                *)
OtherPlugins ==
  /\ phase = "mutated" /\ op = "CREATE" /\ calls = 1
  /\ \/ \E i \in Indices(pod) :
          pod' = [pod EXCEPT !.containers[i].env = Append(@, EnvVar("OTHER", <<>>))]
     \/ \E c \in Sidecars : pod' = [pod EXCEPT !.containers = <<c>> \o @]
     \/ \E c \in Sidecars : pod' = [pod EXCEPT !.containers = Append(@, c)]
  /\ phase' = "call"
  /\ UNCHANGED <<quotas, configs, up, op, calls, submitted, stored, refused, edits, faults>>

(* Validation and storage.  A Pod created with generateName gets its name  *)
(* only here.                                                              *)
Persist ==
  /\ phase = "mutated"
  /\ IF op = "CREATE"
     THEN IF Valid(pod)
          THEN /\ stored' = IF pod.name = "" THEN [pod EXCEPT !.name = "generated"] ELSE pod
               /\ phase' = "idle" /\ pod' = NoPod /\ UNCHANGED refused
          ELSE Refuse("invalid") /\ UNCHANGED stored
     ELSE IF PodSpec(pod) = PodSpec(stored)
          THEN phase' = "idle" /\ pod' = NoPod /\ UNCHANGED <<stored, refused>>
          ELSE Refuse("changed") /\ UNCHANGED stored
  /\ UNCHANGED <<quotas, configs, up, op, calls, submitted, edits, faults>>

WebhookDown ==
  /\ up /\ faults < MaxFaults
  /\ up' = FALSE /\ faults' = faults + 1
  /\ UNCHANGED <<quotas, configs, phase, op, pod, calls, submitted, stored, refused, edits>>

WebhookUp ==
  /\ ~up /\ up' = TRUE
  /\ UNCHANGED <<quotas, configs, phase, op, pod, calls, submitted, stored, refused, edits, faults>>

EditConfigs ==
  /\ edits < MaxEdits /\ edits' = edits + 1
  /\ configs' \in ConfigSets \ {configs}
  /\ UNCHANGED <<quotas, up, phase, op, pod, calls, submitted, stored, refused, faults>>

Next ==
  \/ (\E p \in Templates : Create(p)) \/ Update
  \/ (\E readable \in BOOLEAN : ServeMutatePod(readable))
  \/ CallFails \/ OtherPlugins \/ Persist \/ WebhookDown \/ WebhookUp \/ EditConfigs

Spec == Init /\ [][Next]_vars

-----------------------------------------------------------------------------
(* Properties.                                                             *)

TypeOK ==
  /\ quotas \in {QuotaAll, QuotaShared} /\ configs \in ConfigSets /\ up \in BOOLEAN
  /\ phase \in {"idle", "call", "mutated"} /\ op \in {"CREATE", "UPDATE"} /\ calls \in 0 .. 2
  /\ submitted \in Templates \cup {NoPod}
  /\ refused \in {"no", "denied", "unpatched", "down", "changed"}
  /\ edits \in 0 .. MaxEdits /\ faults \in 0 .. MaxFaults
  /\ \A p \in {pod, stored} \ {NoPod} : \A i \in Indices(p) :
       p.containers[i].limit \in Nat /\ p.containers[i].cpuRequest \in Nat

Containers(p) == Range(p.containers)

(* A container as it was before the webhook saw it.                        *)
Origin(c) == CHOOSE o \in Containers(submitted) \cup Sidecars : o.name = c.name
ToPin(c) == PinningPatchNeeded(submitted, Origin(c))

(* The variable is there, and no other of its name.                        *)
HasOnce(c, var) ==
  \E k \in 1 .. Len(c.env) :
    c.env[k] = var /\ \A j \in 1 .. Len(c.env) : c.env[j].name = var.name => j = k

(* However often the webhook was called, and whatever was changed between  *)
(* the calls, a container of a stored Pod that needs pinning has what the  *)
(* process-starter needs: it is the entry point, both variables are there  *)
(* once and with their values, every volume is mounted, the emulated       *)
(* directory being the one CPUSetter fills (if the Pod had its name at     *)
(* admission), and no variable of the user is lost (mutatePods).           *)
StarterInPlace ==
  stored # NoPod => \A c \in {x \in Containers(stored) : ToPin(x)} :
    /\ c.command = Starter
    /\ HasOnce(c, EnvVar("CONTAINER_NAME", c.name)) /\ HasOnce(c, PoolsVar(Origin(c)))
    /\ {Podinfo, Hostbin, CpuVolume(c)} \subseteq Range(c.mounts)
    /\ submitted.name # "" =>
         \E v \in Range(stored.volumes) : v.name = CpuVolume(c) /\ v.dir = CpuDir(stored, c)
    /\ Range(Origin(c).env) \subseteq Range(c.env)

(* Moving the command into the arguments happens once: the process-starter *)
(* executes what the user wanted, never itself, and a container that needs *)
(* no pinning is left as it was (patchContainerForPinning).                *)
CommandKept ==
  stored # NoPod => \A c \in Containers(stored) :
    LET o == Origin(c)
    IN  IF ~ToPin(c) THEN c.command = o.command /\ c.args = o.args
        ELSE c.args = IF ContainerExists(submitted, o) THEN o.args ELSE o.command \o o.args

SharedNames(c) == {r \in DOMAIN c.requests : HasPrefix(r, <<SharedPoolID>>)}
Mixed(c) == CPURequests(c, SharedPoolID) > 0 /\ CPURequests(c, ExclusivePoolID) > 0

(* "We need to include the full size of the shared pool" (setRequestLimit): *)
(* the quota of a container with exclusive and shared CPUs covers all of   *)
(* them on whichever node it lands, so that its shared threads cannot      *)
(* throttle the exclusive ones.  This is for one shared pool, asked for a  *)
(* quantity no other pool is asked for, and a configuration that can be    *)
(* read and stays.                                                         *)
QuotaCovers ==
  stored # NoPod /\ quotas = QuotaAll /\ edits = 0 /\ faults = 0 =>
    \A c \in {x \in Containers(stored) : Mixed(x)} : \A r \in SharedNames(c), conf \in configs :
      /\ SharedNames(c) = {r} /\ r \in DOMAIN conf
      /\ \A n \in DOMAIN c.requests \ {r} : c.requests[n] # c.requests[r]
      => c.limit >= 1000 * (CPURequests(c, ExclusivePoolID) + conf[r])

(* Calling the webhook for an update changes nothing: an update of other   *)
(* parts of the Pod, such as CPUSetter's annotation, is not refused for a  *)
(* change of the spec, unless the quota of a container with exclusive and  *)
(* shared CPUs came out differently because the configuration was edited,  *)
(* could not be read, or has two pools the container asked the same        *)
(* quantity of (setRequestLimit, patchContainerEnv).                       *)
UpdatesAccepted ==
  /\ refused \in {"no", "down", "changed"}
  /\ refused = "down" => faults > 0
  /\ refused = "changed" =>
       quotas = QuotaAll /\ \E c \in Containers(stored) :
         /\ Mixed(c)
         /\ edits > 0 \/ faults > 0 \/ \E r \in DOMAIN c.requests \ SharedNames(c) :
                                        c.requests[r] = CPURequests(c, SharedPoolID)

(* What the patches produce passes the validation of the API server, also  *)
(* when the webhook is called again.  The one exception: a container that  *)
(* needs pinning and is injected next to one that was pinned before mounts *)
(* a volume that nobody adds (the test for hostbin and podinfo in          *)
(* mutatePods).                                                            *)
PatchedIsValid ==
  phase = "mutated" => \/ Valid(pod)
                       \/ \E c \in Sidecars : /\ c.name \in {x.name : x \in Containers(pod)}
                                               /\ ToPin(c)
                                               /\ \E d \in Containers(submitted) : ToPin(d)

-----------------------------------------------------------------------------
(* What the Pods have to keep to for the theorems of WebhookProofs; the    *)
(* code checks none of it.                                                 *)

(* Containers have names of their own, also those other plugins inject.    *)
UniqueNames ==
  /\ \A s, t \in Sidecars : s.name = t.name => s = t
  /\ \A p \in Templates :
       /\ \A i, j \in Indices(p) : p.containers[i].name = p.containers[j].name => i = j
       /\ \A c \in Containers(p), s \in Sidecars : c.name # s.name

(* Nobody uses the names of the webhook's volumes and variables.           *)
NamesReserved ==
  \A p \in Templates : \A o \in Containers(p) \cup Sidecars :
    /\ Range(o.mounts) \cap {Podinfo, Hostbin, CpuVolume(o)} = {}
    /\ ~HasVar(o, "CONTAINER_NAME") /\ ~HasVar(o, "CPU_POOLS")
    /\ \A v \in Range(p.volumes) : v.name \notin {Podinfo, Hostbin, CpuVolume(o)}

(* A container of the annotation asks for CPUs of some pool.               *)
AnnotatedAsk ==
  \A p \in Templates : \A o \in Containers(p) \cup Sidecars : ContainerExists(p, o) => Managed(o)

(* A container asks for CPUs of one shared pool: no Node has more.         *)
OneSharedName ==
  \A p \in Templates : \A o \in Containers(p) \cup Sidecars : \A r, s \in SharedNames(o) : r = s

(* A Pod is valid as the user wrote it, also with a sidecar if it gets     *)
(* that far: without volumes no Pod can be pinned.                         *)
PodsValid ==
  \A p \in Templates :
    /\ Valid(p)
    /\ p.volumes # <<>> \/ Pinned(p) = {} =>
         \A s \in Sidecars : Valid([p EXCEPT !.containers = Append(@, s)])
=============================================================================
