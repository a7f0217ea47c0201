--------------------------- MODULE CpuAnnotation ----------------------------
(***************************************************************************)
(* What a container asks for and what its CPU annotation says              *)
(* (pkg/types/cpu-annotation.go and the request arithmetic of              *)
(* cmd/webhook/webhook.go).  The webhook decides on it before the Pod is   *)
(* stored, the process-starter acts on it when the container starts.       *)
(*                                                                         *)
(* A container k has k.requests, from pool names to quantities, and        *)
(* k.processes, the processes of the annotation (<<>> if it has none), a   *)
(* process being [PoolName, CPUs].                                         *)
(***************************************************************************)
EXTENDS PoolTypes, Integers, FiniteSets

(* sharedCPURequests, exclusiveCPURequests, cloudphoneCPURequests.         *)
SumOfKind(requests, kind) ==
  MapThenSumSet(LAMBDA r : requests[r], {r \in DOMAIN requests : HasPrefix(r, <<kind>>)})
CPURequests(k, kind) == SumOfKind(k.requests, kind)

ContainerPools(k) == {k.processes[i].PoolName : i \in 1 .. Len(k.processes)}

TotalCPURequest(k, pools) ==
  MapThenSumSet(LAMBDA i : k.processes[i].CPUs,
                {i \in 1 .. Len(k.processes) : k.processes[i].PoolName \in pools})

SharedCPUTime(k) == TotalCPURequest(k, {n \in ContainerPools(k) : HasPrefix(n, <<SharedPoolID>>)})

(* Decode refuses a process without CPUs.  An annotation is taken to name  *)
(* a container once: the webhook keeps the last entry of a container, the  *)
(* process-starter the first.                                              *)
Decodes(k) == \A i \in 1 .. Len(k.processes) : k.processes[i].CPUs # 0

(* What the webhook accepts: the pools of the annotation are requested, no *)
(* pool is asked for more than twice the request (every CPU may have a     *)
(* sibling), and the shared CPU time is the one requested.                 *)
AnnotationAccepted(k) ==
  /\ Decodes(k)
  /\ \A n \in ContainerPools(k) :
       /\ SharedCPUTime(k) = CPURequests(k, SharedPoolID)
       /\ n \in DOMAIN k.requests
       /\ TotalCPURequest(k, {n}) <= 2 * k.requests[n]

(* CPU_POOLS, the variable patchContainerEnv adds.                         *)
CPUPools(k) ==
  IF CPURequests(k, ExclusivePoolID) > 0
  THEN IF CPURequests(k, SharedPoolID) > 0 THEN {ExclusivePoolID, SharedPoolID} ELSE {ExclusivePoolID}
  ELSE IF CPURequests(k, CloudphonePoolID) > 0 THEN {CloudphonePoolID}
  ELSE IF CPURequests(k, SharedPoolID) > 0 THEN {SharedPoolID}
  ELSE {DefaultPoolID}
=============================================================================
