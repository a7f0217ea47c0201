----------------------------- MODULE CpusetSpec -----------------------------
(***************************************************************************)
(* What CPUSetter promises of the containers of a node, without events,    *)
(* queues, threads and files: a container starts on all CPUs and, while it *)
(* runs, is only ever moved to sets that were settled for it before it     *)
(* started.  Nobody touches a container that does not run, and no decision *)
(* about one that runs is changed.                                         *)
(***************************************************************************)
CONSTANTS
  Keys,  \* the containers
  All    \* all CPUs of the node

VARIABLES
  running,  \* the containers that run
  cpuset,   \* the CPUs of every container
  allowed   \* the sets settled for every container

vars == <<running, cpuset, allowed>>

Init ==
  /\ running = {}
  /\ cpuset = [k \in Keys |-> All]

Start(k) ==
  /\ k \notin running
  /\ running' = running \cup {k}
  /\ cpuset' = [cpuset EXCEPT ![k] = All]
  /\ UNCHANGED allowed

Stop(k) ==
  /\ k \in running
  /\ running' = running \ {k}
  /\ UNCHANGED <<cpuset, allowed>>

Provide(k) ==
  /\ k \in running
  /\ \E s \in allowed[k] : cpuset' = [cpuset EXCEPT ![k] = s]
  /\ UNCHANGED <<running, allowed>>

(* Kubelet hands devices out, or takes them back.                          *)
Settle ==
  /\ \A k \in running : allowed'[k] = allowed[k]
  /\ UNCHANGED <<running, cpuset>>

Next == Settle \/ \E k \in Keys : Start(k) \/ Stop(k) \/ Provide(k)

Spec == Init /\ [][Next]_vars
=============================================================================
