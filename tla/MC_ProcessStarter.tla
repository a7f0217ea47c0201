-------------------------- MODULE MC_ProcessStarter -------------------------
(***************************************************************************)
(* Values of the constants for the ProcessStarter runs.                    *)
(***************************************************************************)
EXTENDS ProcessStarter

SharedName == <<"shared", "pool">>
ExclusiveName == <<"exclusive", "pool">>
SingleName == <<"exclusive", "single">>
WideName == <<"exclusive", "wide">>
CloudphoneName == <<"cloudphone", "pool">>
DefaultName == <<"default", "pool">>

Pool(cpus, policy, rounds) == [CPUset |-> cpus, HTPolicy |-> policy, Overcommitment |-> rounds]

(* Sixteen CPUs: the exclusive ones 1 and 2 have the hyperthreads 7 and 8; *)
(* the cloudphone CPUs 4, 5, 6 are offered twice, 4 is on another node and *)
(* 5 and 6 are siblings; the wide pool has a gap.                          *)
SixPools ==
  (SharedName :> Pool({3}, SingleThreadHTPolicy, 1)) @@
  (ExclusiveName :> Pool({1, 2}, MultiThreadHTPolicy, 1)) @@
  (SingleName :> Pool({9}, SingleThreadHTPolicy, 1)) @@
  (WideName :> Pool({10, 11, 12, 14, 15}, SingleThreadHTPolicy, 1)) @@
  (CloudphoneName :> Pool({4, 5, 6}, MultiThreadHTPolicy, 2)) @@
  (DefaultName :> Pool({0}, SingleThreadHTPolicy, 1))
Siblings == [x \in 0 .. 15 |-> CASE x = 1 -> {7} [] x = 2 -> {8}
                                 [] x = 5 -> {6} [] x = 6 -> {5} [] OTHER -> {}]
TwoNodes == [x \in 0 .. 15 |-> IF x < 5 THEN 0 ELSE 1]
SameCore == [x \in 0 .. 15 |-> x]

Proc(name, n) == [PoolName |-> name, CPUs |-> n]
Case(requests, processes) ==
  [requests |-> requests, processes |-> processes, args |-> processes = <<>>, restarted |-> FALSE]
WithArgs(k) == [k EXCEPT !.args = TRUE]
Restarted(k) == [k EXCEPT !.restarted = TRUE]

OneExclusive == Case((ExclusiveName :> 1), <<>>)
TwoProcesses == Case((ExclusiveName :> 1), <<Proc(ExclusiveName, 1), Proc(ExclusiveName, 1)>>)
ExclusiveAndShared ==
  Case((ExclusiveName :> 2) @@ (SharedName :> 1),
       <<Proc(SharedName, 1), Proc(ExclusiveName, 2), Proc(ExclusiveName, 1)>>)
OneShared == Case((SharedName :> 1), <<Proc(SharedName, 1)>>)
Cloudphone == Case((CloudphoneName :> 2), <<>>)

(* Without annotation, with one that fits, and with ones that ask for more *)
(* CPUs than there are or for a negative number, which the webhook accepts *)
(* too.                                                                    *)
FirstStarts == {
  OneExclusive, TwoProcesses, WithArgs(ExclusiveAndShared), OneShared, Cloudphone,
  Case((WideName :> 2), <<>>),
  Case((WideName :> 3), <<>>),
  Case((SingleName :> 1), <<Proc(SingleName, 1), Proc(SingleName, 1)>>),
  Case((SingleName :> 1), <<Proc(SingleName, -1)>>)}

(* The same container after a restart, and the requests that the webhook   *)
(* and CPUSetter read differently.                                         *)
EveryKind == FirstStarts \cup {
  Restarted(OneExclusive), Restarted(ExclusiveAndShared), Restarted(OneShared),
  Restarted(Cloudphone),
  Case((ExclusiveName :> 1) @@ (CloudphoneName :> 1), <<>>),
  Case((CloudphoneName :> 1) @@ (SharedName :> 1), <<>>),
  Case((ExclusiveName :> 1) @@ (SingleName :> 1),
       <<Proc(ExclusiveName, 2), Proc(SingleName, 1)>>)}

(* This configuration provides what the theorems of ProcessStarterProofs   *)
(* ask for.                                                                *)
ASSUME PoolsApart ==
  DefaultApart /\ SharedApart /\ RoundsApart /\ OneCloudphone /\ SiblingsInPool
=============================================================================
