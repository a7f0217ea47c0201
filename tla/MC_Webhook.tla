----------------------------- MODULE MC_Webhook -----------------------------
(***************************************************************************)
(* Values of the constants for the Webhook run.                            *)
(***************************************************************************)
EXTENDS Webhook

SharedName == <<"shared", "pool">>
ExclusiveName == <<"exclusive", "pool">>
CloudphoneName == <<"cloudphone", "pool">>

(* The volume of the service account token is there before the webhook.    *)
Token == <<"token">>
TokenVolume == <<[name |-> Token, dir |-> <<>>]>>

Container(name, requests, command, args, env) ==
  [name |-> name, requests |-> requests, limit |-> 0, cpuRequest |-> 0,
   command |-> command, args |-> args, env |-> env, mounts |-> <<Token>>]
Pod(name, containers) ==
  [name |-> name, containers |-> containers, volumes |-> TokenVolume, annotated |-> FALSE, processes |-> <<>>]
Annotated(p, processes) == [p EXCEPT !.annotated = TRUE, !.processes = processes]
Proc(name, n) == [PoolName |-> name, CPUs |-> n]
Debug == <<EnvVar("DEBUG", <<>>)>>

ExclusiveC == Container("c", (ExclusiveName :> 2), <<"app">>, <<"-x">>, Debug)
MixedC == Container("c", (ExclusiveName :> 1) @@ (SharedName :> 500), <<>>, <<"-x">>, <<>>)
SameQuantityC == Container("c", (ExclusiveName :> 1) @@ (SharedName :> 1), <<"app">>, <<>>, <<>>)
CloudphoneC == Container("c", (CloudphoneName :> 1), <<"app">>, <<>>, <<>>)
ImplicitD == Container("d", (CloudphoneName :> 1), <<>>, <<>>, <<>>)
SharedD == [Container("d", (SharedName :> 500), <<"app">>, <<>>, Debug) EXCEPT !.limit = 900, !.cpuRequest = 900]
PlainD == Container("d", <<>>, <<"app">>, <<>>, <<>>)
HugeD == Container("d", (SharedName :> 1000000), <<"app">>, <<>>, <<>>)

MixedProcesses == ("c" :> <<Proc(ExclusiveName, 2), Proc(SharedName, 500)>>)

(* Accepted, denied and failing Pods of every kind.                        *)
AnyPod == {
  Pod("p", <<ExclusiveC, SharedD>>),
  Annotated(Pod("p", <<MixedC, PlainD>>), MixedProcesses),
  Pod("p", <<SameQuantityC>>),
  Pod("", <<CloudphoneC, ImplicitD>>),
  Pod("p", <<SharedD>>),
  Pod("p", <<PlainD>>),
  Pod("p", <<HugeD>>),
  \* what the command says cannot be moved into the arguments; in the annotation it need not be
  Pod("p", <<[ExclusiveC EXCEPT !.args = <<Quoted>>]>>),
  Annotated(Pod("p", <<[ExclusiveC EXCEPT !.command = <<Quoted>>]>>), ("c" :> <<Proc(ExclusiveName, 4)>>)),
  \* the annotation does not fit the requests, names nobody, or names no container of the Pod
  Annotated(Pod("p", <<ExclusiveC>>), ("c" :> <<Proc(ExclusiveName, 5)>>)),
  Annotated(Pod("p", <<MixedC>>), ("c" :> <<Proc(ExclusiveName, 1), Proc(SharedName, 400)>>)),
  Annotated(Pod("p", <<SharedD>>), <<>>),
  Annotated(Pod("p", <<SharedD>>), ("e" :> <<Proc(SharedName, 500)>>)),
  \* no token is mounted
  [Pod("p", <<[ExclusiveC EXCEPT !.mounts = <<>>]>>) EXCEPT !.volumes = <<>>]}

(* One that needs nothing, one that only gets its variable, one to pin.    *)
AnySidecar == {
  Container("s", <<>>, <<"proxy">>, <<>>, <<>>),
  Container("t", (SharedName :> 100), <<"proxy">>, <<>>, <<>>),
  Container("u", (ExclusiveName :> 1), <<"proxy">>, <<>>, <<>>)}

(* The sizes of the pools, by configuration file.                          *)
Small == (SharedName :> 1) @@ (ExclusiveName :> 4)
Large == (SharedName :> 3) @@ (ExclusiveName :> 2)
AnyConfigSet == {{Small, Large}, {Small}, {(ExclusiveName :> 4)}}

(* These Pods keep to what the theorems of WebhookProofs ask for.          *)
ASSUME PodsPlain == UniqueNames /\ NamesReserved /\ AnnotatedAsk /\ OneSharedName /\ PodsValid
=============================================================================
