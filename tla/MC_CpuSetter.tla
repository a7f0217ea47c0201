--------------------------- MODULE MC_CpuSetter ----------------------------
(***************************************************************************)
(* Values of the constants for the CpuSetter runs.                         *)
(***************************************************************************)
EXTENDS CpuSetter

SharedName == <<"shared", "pool">>
ExclusiveName == <<"exclusive", "pool">>
CloudphoneName == <<"cloudphone", "pool">>
DefaultName == <<"default", "pool">>

Pool(cpus, policy, rounds) == [CPUset |-> cpus, HTPolicy |-> policy, Overcommitment |-> rounds]

(* Four CPUs: 0 for the default pool, 1 and 2 exclusive, 3 shared.         *)
ThreePools ==
  (SharedName :> Pool({3}, SingleThreadHTPolicy, 1)) @@
  (ExclusiveName :> Pool({1, 2}, SingleThreadHTPolicy, 1)) @@
  (DefaultName :> Pool({0}, SingleThreadHTPolicy, 1))

(* Three CPUs: 0 for the default pool, 1 exclusive, and its hyperthread 2  *)
(* in no pool.  There is no choice of devices, as only one Pod of the node *)
(* asks for one.                                                           *)
TwoPools ==
  (ExclusiveName :> Pool({1}, SingleThreadHTPolicy, 1)) @@
  (DefaultName :> Pool({0}, SingleThreadHTPolicy, 1))
PairSiblings == [x \in 0 .. 2 |-> CASE x = 1 -> {2} [] x = 2 -> {1} [] OTHER -> {}]

(* Six CPUs: 1 and 2 exclusive with their hyperthreads 4 and 5; no default *)
(* pool.                                                                   *)
HyperthreadPools == (ExclusiveName :> Pool({1, 2}, MultiThreadHTPolicy, 1))
HyperthreadSiblings == [x \in 0 .. 5 |-> CASE x = 1 -> {4} [] x = 2 -> {5} [] OTHER -> {}]

(* Eight CPUs on two NUMA nodes {0, 1, 2} and {3, .., 7}, one pool of each *)
(* type; the cloudphone CPUs are offered twice, and the exclusive CPUs 1   *)
(* and 4 have the hyperthreads 2 and 7, which are in no pool.              *)
FourPools ==
  (SharedName :> Pool({3}, SingleThreadHTPolicy, 1)) @@
  (ExclusiveName :> Pool({1, 4}, SingleThreadHTPolicy, 1)) @@
  (CloudphoneName :> Pool({5, 6}, SingleThreadHTPolicy, 2)) @@
  (DefaultName :> Pool({0}, SingleThreadHTPolicy, 1))
FarSiblings == [x \in 0 .. 7 |-> CASE x = 1 -> {2} [] x = 4 -> {7} [] OTHER -> {}]
TwoNodes == [x \in 0 .. 7 |-> IF x < 3 THEN 0 ELSE 1]

NoSiblings == [x \in 0 .. NumCPU - 1 |-> {}]
OneNode == [x \in 0 .. NumCPU - 1 |-> 0]
SameCore == [x \in 0 .. NumCPU - 1 |-> x]

JustC == {"c"}
OneContainer == [p \in Pods |-> <<"c">>]
CAndD == {"c", "d"}
TwoContainers == [p \in Pods |-> <<"c", "d">>]

ExclusiveEach == [p \in Pods |-> [c \in Containers |-> (ExclusiveName :> 1)]]
Mixed == [p \in Pods |-> [c \in Containers |->
            IF c = "c" THEN (ExclusiveName :> 1) @@ (SharedName :> 1) ELSE (CloudphoneName :> 1)]]

OneName == {"n"}
SameName == [p \in Pods |-> "n"]
OwnName == [p \in Pods |-> p]

LocalSymmetry == Permutations(Local)
WorkerSymmetry == Permutations(Workers)

(* Every instance is one the configuration theorems are about.             *)
ASSUME PlainConfiguration == Separated /\ SiblingsApart /\ PlainPools /\ PlainRequests
=============================================================================
