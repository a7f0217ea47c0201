------------------------- MODULE DevicePluginProofs -------------------------
(***************************************************************************)
(* Proofs about the life cycle of the CPU device plugin, for every         *)
(* configuration, every number of pools, kubelet restarts, process starts  *)
(* and edits of the ConfigMap.                                             *)
(***************************************************************************)
EXTENDS DevicePlugin, FiniteSetTheorems, TLAPS

-----------------------------------------------------------------------------
(* The inductive invariant.                                                *)

(* The managers of the list were made by the last call of                  *)
(* createPluginsForPools, and a goroutine of ListAndWatch that outlived    *)
(* its server is not taken for one of a pool still to be started.          *)
RoundsCoherent ==
  /\ \A s \in Range(cdms) : s.round = round
  /\ \A s \in sending : s.round <= round
  /\ \A s \in Range(cdms) \cup sending : s.round = round => s.pool \notin todo

(* main enters createPluginsForPools with an empty list of managers.       *)
StartsOver == proc \in {"down", "launched", "load"} => cdms = <<>>

(* The manager being registered serves, and kubelet does not know it yet.  *)
RegistersNew ==
  proc = "register" =>
    /\ cur \in PoolNames /\ Server(cur, round, poolConf) \in serving
    /\ cur \notin registered /\ Server(cur, round, poolConf) \notin cached

(* A goroutine about to send the list of a server that serves has filled   *)
(* the cache of that server.                                               *)
SendsCached == \A s \in sending : s \in serving => IsShared(s) \/ s \in cached

(* A kubelet that does not run is connected to nobody.                     *)
DownUnregistered == kubelet # "up" => registered = {}

(* The configuration in use passed validatePools, and it is the one every  *)
(* server and every pool still to be started comes from: starting over     *)
(* takes the configuration only once all the servers are stopped.          *)
ConfValidated == Cardinality({n \in SharedPools(poolConf) : poolConf[n] # {}}) <= 1
ConfServed ==
  /\ todo \subseteq Offered(poolConf)
  /\ \A s \in serving : s.pool \in Offered(poolConf) /\ s.cpus = poolConf[s.pool]

IInv ==
  /\ TypeOK /\ RoundsCoherent /\ StartsOver /\ RegistersNew /\ SendsCached /\ DownUnregistered
  /\ ServersManaged /\ RegisteredServed /\ PreferredAnswered /\ ConfValidated /\ ConfServed

-----------------------------------------------------------------------------
(* Lemmas about the operators.                                             *)

(* What append adds to the global list of managers.                        *)
LEMMA RangeAppend ==
  ASSUME NEW S, NEW q \in Seq(S), NEW e \in S
  PROVE  /\ Append(q, e) \in Seq(S)
         /\ Range(Append(q, e)) = Range(q) \cup {e}
<1>1. Append(q, e) \in Seq(S) /\ Len(q) \in Nat /\ DOMAIN q = 1 .. Len(q)
  OBVIOUS
<1>2. DOMAIN Append(q, e) = 1 .. Len(q) + 1
  OBVIOUS
<1>3. \A i \in 1 .. Len(q) : Append(q, e)[i] = q[i]
  OBVIOUS
<1>4. Append(q, e)[Len(q) + 1] = e
  OBVIOUS
<1>5. \A i : i \in 1 .. Len(q) + 1 <=> i \in 1 .. Len(q) \/ i = Len(q) + 1
  BY <1>1
<1> QED BY <1>1, <1>2, <1>3, <1>4, <1>5 DEF Range

LEMMA RangeEmpty == Range(<<>>) = {}
BY DEF Range

(* The list of managers holds servers.                                     *)
LEMMA RangeServers ==
  ASSUME NEW S, NEW q \in Seq(S) PROVE Range(q) \subseteq S
BY DEF Range

(* The pools of a configuration that a round reads are pools.              *)
LEMMA ConfiguredPools ==
  ASSUME NEW conf \in Configs, NEW pools \in ReadPoolConfig(conf)
  PROVE  /\ pools \in {f.pools : f \in Files}
         /\ Offered(pools) \subseteq PoolNames
         /\ IsFiniteSet(DOMAIN pools)
<1>1. PICK i \in DOMAIN conf.files : pools = conf.files[i].pools
  BY DEF ReadPoolConfig
<1>2. conf.files[i] \in Files
  BY <1>1 DEF Files, Range
<1>3. DOMAIN pools \subseteq PoolNames
  BY <1>1, <1>2 DEF PoolNames
<1> QED BY <1>1, <1>2, <1>3, DevicePluginAssumption DEF Offered

(* A configuration that validatePools accepts has at most one shared pool  *)
(* with CPUs.                                                              *)
LEMMA Validated ==
  ASSUME NEW pools, TRUE \in ValidatePools(pools)
  PROVE  Cardinality({n \in SharedPools(pools) : pools[n] # {}}) <= 1
<1> DEFINE few == Cardinality({n \in SharedPools(pools) : pools[n] # {}}) <= 1
           many == Cardinality(SharedPools(pools)) > 1
                     /\ {n \in SharedPools(pools) : pools[n] # {}} # {}
<1>1. TRUE \in (IF few THEN {TRUE} ELSE {}) \cup (IF many THEN {FALSE} ELSE {})
  BY DEF ValidatePools
<1> HIDE DEF few, many
<1>2. few
  BY <1>1, Zenon
<1> QED BY <1>2 DEF few

-----------------------------------------------------------------------------
(* Type correctness.                                                       *)

LEMMA InitIInv == Init => IInv
<1> SUFFICES ASSUME Init PROVE IInv
  OBVIOUS
<1>1. TypeOK
  <2>1. <<>> \in Seq(Servers)
    OBVIOUS
  <2>2. 0 \in 0 .. DialRetry
    BY DevicePluginAssumption
  <2> QED BY <2>1, <2>2 DEF Init, TypeOK
<1>2. ConfValidated
  <2>1. {n \in SharedPools(poolConf) : poolConf[n] # {}} = {}
    BY DEF Init, SharedPools
  <2> QED BY <2>1, FS_EmptySet DEF ConfValidated
<1>3. /\ RoundsCoherent /\ StartsOver /\ RegistersNew /\ SendsCached /\ DownUnregistered
      /\ ServersManaged /\ RegisteredServed /\ PreferredAnswered
  BY RangeEmpty DEF Init, RoundsCoherent, StartsOver, RegistersNew, SendsCached,
     DownUnregistered, ServersManaged, RegisteredServed, PreferredAnswered
<1>4. ConfServed
  BY DEF Init, ConfServed
<1> QED BY <1>1, <1>2, <1>3, <1>4 DEF IInv

(* The end of the process leaves a state in which everything of it is gone. *)
LEMMA EndsIInv ==
  ASSUME IInv, ProcessEnds, UNCHANGED kubeletVars, files' \subseteq files, round' \in Nat,
         UNCHANGED launches
  PROVE  IInv'
<1>1. TypeOK'
  <2>1. <<>> \in Seq(Servers)
    OBVIOUS
  <2>2. 0 \in 0 .. DialRetry
    BY DevicePluginAssumption
  <2> QED BY <2>1, <2>2 DEF IInv, TypeOK, ProcessEnds, kubeletVars
<1>2. ConfValidated'
  <2>1. {n \in SharedPools(poolConf') : poolConf'[n] # {}} = {}
    BY DEF ProcessEnds, SharedPools
  <2> QED BY <2>1, FS_EmptySet DEF ConfValidated
<1>3. /\ RoundsCoherent' /\ StartsOver' /\ RegistersNew' /\ SendsCached' /\ DownUnregistered'
      /\ ServersManaged' /\ RegisteredServed' /\ PreferredAnswered'
  BY RangeEmpty DEF ProcessEnds, RoundsCoherent, StartsOver, RegistersNew, SendsCached,
     DownUnregistered, ServersManaged, RegisteredServed, PreferredAnswered
<1>4. ConfServed'
  BY DEF ProcessEnds, ConfServed
<1> QED BY <1>1, <1>2, <1>3, <1>4 DEF IInv

(* Kubelet's own steps and an edit of the ConfigMap.                       *)
LEMMA KubeletIInv ==
  ASSUME IInv, KubeletStops \/ KubeletCleans \/ KubeletListens \/ EditConfigMap
  PROVE  IInv'
<1>1. CASE KubeletStops
  <2>1. TypeOK'
    BY <1>1 DEF IInv, TypeOK, KubeletStops, kubeletVars, listVars, mainVars
  <2>2. RoundsCoherent' /\ StartsOver' /\ RegistersNew' /\ SendsCached' /\ DownUnregistered'
    BY <1>1 DEF IInv, KubeletStops, kubeletVars, listVars, mainVars, RoundsCoherent,
       StartsOver, RegistersNew, SendsCached, DownUnregistered
  <2>3. ServersManaged' /\ RegisteredServed' /\ PreferredAnswered' /\ ConfValidated' /\ ConfServed'
    BY <1>1 DEF IInv, KubeletStops, kubeletVars, listVars, mainVars, ServersManaged,
       RegisteredServed, PreferredAnswered, ConfValidated, ConfServed, DownUnregistered
  <2> QED BY <2>1, <2>2, <2>3 DEF IInv
<1>2. CASE KubeletCleans
  <2>1. TypeOK'
    <3>1. events' \in Nat /\ starts' \in Nat
      BY <1>2 DEF IInv, TypeOK, KubeletCleans
    <3> QED BY <1>2, <3>1 DEF IInv, TypeOK, KubeletCleans, listVars
  <2>2. RoundsCoherent' /\ StartsOver' /\ RegistersNew' /\ SendsCached' /\ DownUnregistered'
    BY <1>2 DEF IInv, KubeletCleans, kubeletVars, listVars, mainVars, RoundsCoherent,
       StartsOver, RegistersNew, SendsCached, DownUnregistered
  <2>3. ServersManaged' /\ RegisteredServed' /\ PreferredAnswered' /\ ConfValidated' /\ ConfServed'
    BY <1>2 DEF IInv, KubeletCleans, kubeletVars, listVars, mainVars, ServersManaged,
       RegisteredServed, PreferredAnswered, ConfValidated, ConfServed, DownUnregistered
  <2> QED BY <2>1, <2>2, <2>3 DEF IInv
<1>3. CASE KubeletListens
  <2>1. TypeOK'
    BY <1>3 DEF IInv, TypeOK, KubeletListens, kubeletVars, listVars, mainVars
  <2>2. RoundsCoherent' /\ StartsOver' /\ RegistersNew' /\ SendsCached' /\ DownUnregistered'
    BY <1>3 DEF IInv, KubeletListens, kubeletVars, listVars, mainVars, RoundsCoherent,
       StartsOver, RegistersNew, SendsCached, DownUnregistered
  <2>3. ServersManaged' /\ RegisteredServed' /\ PreferredAnswered' /\ ConfValidated' /\ ConfServed'
    BY <1>3 DEF IInv, KubeletListens, kubeletVars, listVars, mainVars, ServersManaged,
       RegisteredServed, PreferredAnswered, ConfValidated, ConfServed, DownUnregistered
  <2> QED BY <2>1, <2>2, <2>3 DEF IInv
<1>4. CASE EditConfigMap
  <2>1. TypeOK'
    BY <1>4 DEF IInv, TypeOK, EditConfigMap, kubeletVars, listVars, mainVars
  <2>2. RoundsCoherent' /\ StartsOver' /\ RegistersNew' /\ SendsCached' /\ DownUnregistered'
    BY <1>4 DEF IInv, EditConfigMap, kubeletVars, listVars, mainVars, RoundsCoherent,
       StartsOver, RegistersNew, SendsCached, DownUnregistered
  <2>3. ServersManaged' /\ RegisteredServed' /\ PreferredAnswered' /\ ConfValidated' /\ ConfServed'
    BY <1>4 DEF IInv, EditConfigMap, kubeletVars, listVars, mainVars, ServersManaged,
       RegisteredServed, PreferredAnswered, ConfValidated, ConfServed, DownUnregistered
  <2> QED BY <2>1, <2>2, <2>3 DEF IInv
<1> QED BY <1>1, <1>2, <1>3, <1>4

(* The steps of main that touch no manager.                                *)
LEMMA MainIInv ==
  ASSUME IInv, Launch \/ AddWatch \/ DialContext
  PROVE  IInv'
<1>1. CASE Launch
  <2>1. TypeOK'
    BY <1>1 DEF IInv, TypeOK, Launch, kubeletVars, listVars, mainVars
  <2>2. RoundsCoherent' /\ StartsOver' /\ RegistersNew' /\ SendsCached' /\ DownUnregistered'
    BY <1>1 DEF IInv, Launch, kubeletVars, listVars, mainVars, RoundsCoherent,
       StartsOver, RegistersNew, SendsCached, DownUnregistered
  <2>3. ServersManaged' /\ RegisteredServed' /\ PreferredAnswered' /\ ConfValidated' /\ ConfServed'
    BY <1>1 DEF IInv, Launch, kubeletVars, listVars, mainVars, ServersManaged,
       RegisteredServed, PreferredAnswered, ConfValidated, ConfServed, DownUnregistered
  <2> QED BY <2>1, <2>2, <2>3 DEF IInv
<1>2. CASE AddWatch
  <2>1. TypeOK'
    BY <1>2 DEF IInv, TypeOK, AddWatch, kubeletVars, listVars, mainVars
  <2>2. RoundsCoherent' /\ StartsOver' /\ RegistersNew' /\ SendsCached' /\ DownUnregistered'
    BY <1>2 DEF IInv, AddWatch, kubeletVars, listVars, mainVars, RoundsCoherent,
       StartsOver, RegistersNew, SendsCached, DownUnregistered
  <2>3. ServersManaged' /\ RegisteredServed' /\ PreferredAnswered' /\ ConfValidated' /\ ConfServed'
    BY <1>2 DEF IInv, AddWatch, kubeletVars, listVars, mainVars, ServersManaged,
       RegisteredServed, PreferredAnswered, ConfValidated, ConfServed, DownUnregistered
  <2> QED BY <2>1, <2>2, <2>3 DEF IInv
<1>3. CASE DialContext
  <2>1. TypeOK'
    <3>1. dials' \in 0 .. DialRetry
      BY <1>3, DevicePluginAssumption DEF IInv, TypeOK, DialContext
    <3> QED BY <1>3, <3>1 DEF IInv, TypeOK, DialContext, kubeletVars, listVars
  <2>2. RoundsCoherent' /\ StartsOver' /\ RegistersNew' /\ SendsCached' /\ DownUnregistered'
    BY <1>3 DEF IInv, DialContext, kubeletVars, listVars, mainVars, RoundsCoherent,
       StartsOver, RegistersNew, SendsCached, DownUnregistered
  <2>3. ServersManaged' /\ RegisteredServed' /\ PreferredAnswered' /\ ConfValidated' /\ ConfServed'
    BY <1>3 DEF IInv, DialContext, kubeletVars, listVars, mainVars, ServersManaged,
       RegisteredServed, PreferredAnswered, ConfValidated, ConfServed, DownUnregistered
  <2> QED BY <2>1, <2>2, <2>3 DEF IInv
<1> QED BY <1>1, <1>2, <1>3

(* createPluginsForPools: the list of managers is empty, and the number of *)
(* the round is new to every goroutine still sending.                      *)
LEMMA CreateIInv ==
  ASSUME IInv, CreatePluginsForPools
  PROVE  IInv'
<1>1. round \in Nat /\ round' = round + 1 /\ round' \in Nat
  BY DEF IInv, TypeOK, CreatePluginsForPools
<1>2. CASE ProcessEnds
  BY <1>1, <1>2, EndsIInv DEF CreatePluginsForPools
<1>3. ASSUME NEW pools \in ReadPoolConfig(configMap), TRUE \in ValidatePools(pools),
             poolConf' = pools, todo' = Offered(pools), proc' = AfterPool(todo'),
             UNCHANGED <<registered, listed, listVars, watched, events, cdms, serving, cur, dials>>
      PROVE  IInv'
  <2>1. configMap \in Configs
    BY DEF IInv, TypeOK
  <2>2. pools \in {f.pools : f \in Files} /\ Offered(pools) \subseteq PoolNames
    BY <2>1, ConfiguredPools
  <2>3. proc' \in {"start", "select"} /\ proc = "load"
    BY <1>3 DEF AfterPool, CreatePluginsForPools
  <2>4. TypeOK'
    BY <1>1, <1>3, <2>2, <2>3
       DEF IInv, TypeOK, CreatePluginsForPools, kubeletVars, listVars
  <2>5. RoundsCoherent'
    <3>1. Range(cdms) = {}
      BY <2>3, RangeEmpty DEF IInv, StartsOver
    <3>2. \A s \in sending : s.round \in Nat /\ s.round <= round
      BY DEF IInv, TypeOK, Servers, RoundsCoherent
    <3> QED BY <1>1, <1>3, <3>1, <3>2 DEF RoundsCoherent, listVars
  <2>6. StartsOver' /\ RegistersNew' /\ SendsCached' /\ DownUnregistered'
    BY <1>3, <2>3 DEF IInv, CreatePluginsForPools, kubeletVars, listVars, StartsOver,
       RegistersNew, SendsCached, DownUnregistered
  <2>7. ServersManaged' /\ RegisteredServed' /\ PreferredAnswered'
    BY <1>3 DEF IInv, CreatePluginsForPools, listVars, ServersManaged, RegisteredServed,
       PreferredAnswered
  <2>8. ConfValidated'
    BY <1>3, Validated DEF ConfValidated
  <2>9. ConfServed'
    <3>1. serving' = {}
      BY <1>3, <2>3, RangeEmpty DEF IInv, StartsOver, ServersManaged
    <3> QED BY <1>3, <3>1 DEF ConfServed
  <2> QED BY <2>4, <2>5, <2>6, <2>7, <2>8, <2>9 DEF IInv
<1> QED BY <1>2, <1>3 DEF CreatePluginsForPools

(* newCPUDeviceManager, append and Start for the next pool.                *)
LEMMA StartIInv ==
  ASSUME IInv, NEW n \in PoolNames, StartPool(n)
  PROVE  IInv'
<1> DEFINE new == Server(n, round, poolConf)
<1>0. n \in Offered(poolConf) /\ poolConf[n] \in PoolCpus
  <2>1. n \in todo /\ n \in DOMAIN poolConf
    BY DEF IInv, ConfServed, StartPool, Offered
  <2>2. poolConf # <<>>
    BY <2>1
  <2>3. PICK f \in Files : poolConf = f.pools
    BY <2>2 DEF IInv, TypeOK
  <2> QED BY <2>1, <2>3 DEF IInv, ConfServed, PoolCpus, Range
<1>1. new \in Servers /\ new.pool = n /\ new.round = round /\ new.cpus = poolConf[n]
  BY <1>0 DEF IInv, TypeOK, Server, Servers
<1>2. cdms \in Seq(Servers)
  BY DEF IInv, TypeOK
<1>3. cdms' \in Seq(Servers) /\ Range(cdms') = Range(cdms) \cup {new}
  <2>1. cdms' = Append(cdms, new)
    BY DEF StartPool
  <2> HIDE DEF new
  <2> QED BY <1>1, <1>2, <2>1, RangeAppend
<1>4. n \in todo /\ \A s \in Range(cdms) \cup sending : s # new
  BY <1>1 DEF IInv, RoundsCoherent, StartPool
<1>5. \A s \in serving : s # new /\ s.pool # n
  BY <1>4 DEF IInv, ServersManaged, RoundsCoherent
<1>6. n \notin registered /\ n \notin listed /\ new \notin cached
  BY <1>1, <1>5 DEF IInv, TypeOK, RegisteredServed
<1> HIDE DEF new
<1>a. /\ serving' = serving \cup {new} /\ todo' = todo \ {n} /\ cur' = n
      /\ proc' = "register" /\ files' = files \cup {n}
      /\ UNCHANGED <<round, sending, cached, registered, listed, kubelet, poolConf>>
  BY DEF StartPool, new, listVars, kubeletVars
<1>7. TypeOK'
  BY <1>1, <1>3, DevicePluginAssumption DEF IInv, TypeOK, StartPool, kubeletVars, listVars, new
<1>8. RoundsCoherent'
  BY <1>1, <1>3, <1>a DEF IInv, RoundsCoherent
<1>9. StartsOver' /\ DownUnregistered'
  BY <1>a DEF IInv, StartsOver, DownUnregistered
<1>10. RegistersNew'
  BY <1>6, <1>a DEF RegistersNew, new
<1>11. SendsCached'
  BY <1>4, <1>a DEF IInv, SendsCached
<1>12. ServersManaged'
  BY <1>1, <1>3, <1>5, <1>a DEF IInv, ServersManaged
<1>13. RegisteredServed' /\ ConfValidated'
  BY <1>a DEF IInv, RegisteredServed, ConfValidated
<1>14. PreferredAnswered'
  BY <1>1, <1>6, <1>a DEF IInv, PreferredAnswered
<1>15. ConfServed'
  BY <1>0, <1>1, <1>a DEF IInv, ConfServed
<1> QED BY <1>7, <1>8, <1>9, <1>10, <1>11, <1>12, <1>13, <1>14, <1>15 DEF IInv

(* Register, answered or refused.                                          *)
LEMMA RegisterIInv ==
  ASSUME IInv, Register
  PROVE  IInv'
<1> DEFINE new == Server(cur, round, poolConf)
<1>1. /\ cur \in PoolNames /\ new \in serving /\ cur \notin registered /\ new \notin cached
      /\ new.pool = cur
  BY DEF IInv, RegistersNew, Register, Server
<1>2. /\ proc = "register" /\ proc' \in {"start", "select"} /\ dials' = 0 /\ cur' = NoPool
      /\ UNCHANGED <<kubelet, listed, cached, sending, poolConf, round, cdms>>
  BY DEF Register, AfterPool, kubeletVars, listVars
<1>3. UNCHANGED <<sock, configMap, starts, edits, watched, events, launches>>
  BY DEF Register, kubeletVars
<1>4. 0 \in 0 .. DialRetry
  BY DevicePluginAssumption
<1>5. StartsOver' /\ RegistersNew' /\ ConfValidated' /\ ConfServed'
  <2>1. serving' \subseteq serving /\ todo' \subseteq todo
    BY DEF Register
  <2> QED BY <1>2, <2>1 DEF IInv, StartsOver, RegistersNew, ConfValidated, ConfServed
<1>6. CASE /\ kubelet = "up"
           /\ registered' = IF cur \in files THEN registered \cup {cur} ELSE registered
           /\ UNCHANGED <<files, serving, todo>>
  <2>1. TypeOK'
    BY <1>1, <1>2, <1>3, <1>4, <1>6 DEF IInv, TypeOK
  <2>2. RoundsCoherent' /\ SendsCached' /\ DownUnregistered'
    BY <1>2, <1>6 DEF IInv, RoundsCoherent, SendsCached, DownUnregistered
  <2>3. ServersManaged' /\ RegisteredServed' /\ PreferredAnswered'
    BY <1>1, <1>2, <1>6 DEF IInv, ServersManaged, RegisteredServed, PreferredAnswered
  <2> QED BY <1>5, <2>1, <2>2, <2>3 DEF IInv
<1>7. CASE /\ serving' = serving \ {new} /\ files' = files \ {cur} /\ todo' = {}
           /\ UNCHANGED registered
  <2>1. TypeOK'
    BY <1>1, <1>2, <1>3, <1>4, <1>7 DEF IInv, TypeOK
  <2>2. RoundsCoherent' /\ SendsCached' /\ DownUnregistered'
    BY <1>2, <1>7 DEF IInv, RoundsCoherent, SendsCached, DownUnregistered
  <2>3. ServersManaged' /\ PreferredAnswered'
    BY <1>1, <1>2, <1>7 DEF IInv, ServersManaged, PreferredAnswered
  <2>4. RegisteredServed'
    BY <1>1, <1>2, <1>7 DEF IInv, RegisteredServed
  <2> QED BY <1>5, <2>1, <2>2, <2>3, <2>4 DEF IInv
<1> QED BY <1>6, <1>7 DEF Register

(* Stop for every manager, and once more from the beginning: since every   *)
(* server is in the list, kubelet is left connected to none of them.       *)
LEMMA EventIInv ==
  ASSUME IInv, HandleEvent
  PROVE  IInv'
<1>1. /\ serving' = {} /\ cdms' = <<>> /\ proc' = "load" /\ files' \subseteq files
      /\ events' = events - 1 /\ events > 0
      /\ UNCHANGED <<kubelet, sending, round, todo, poolConf>>
  BY DEF IInv, ServersManaged, HandleEvent, StopAll, kubeletVars
<1>2. registered' = {} /\ listed' = {}
  <2>1. \A n \in registered : n \in PoolsOf(Range(cdms) \cap serving)
    BY DEF IInv, ServersManaged, RegisteredServed, PoolsOf
  <2>2. registered' = {}
    BY <2>1 DEF HandleEvent, StopAll
  <2>3. listed' = {}
    BY <2>1 DEF HandleEvent, StopAll, IInv, TypeOK
  <2> QED BY <2>2, <2>3
<1>3. cached' = {}
  BY DEF IInv, TypeOK, ServersManaged, HandleEvent, StopAll
<1>4. TypeOK'
  <2>1. <<>> \in Seq(Servers)
    OBVIOUS
  <2>2. events' \in Nat
    BY <1>1 DEF IInv, TypeOK
  <2> QED BY <1>1, <1>2, <1>3, <2>1, <2>2 DEF IInv, TypeOK, HandleEvent, kubeletVars
<1>5. RoundsCoherent' /\ StartsOver' /\ RegistersNew' /\ SendsCached' /\ DownUnregistered'
  BY <1>1, <1>2, RangeEmpty DEF IInv, RoundsCoherent, StartsOver, RegistersNew, SendsCached,
     DownUnregistered
<1>6. ServersManaged' /\ RegisteredServed' /\ PreferredAnswered' /\ ConfValidated' /\ ConfServed'
  BY <1>1, <1>2 DEF IInv, ServersManaged, RegisteredServed, PreferredAnswered, ConfValidated,
     ConfServed
<1> QED BY <1>4, <1>5, <1>6 DEF IInv

(* The gRPC handlers.                                                      *)
LEMMA HandlersIInv ==
  ASSUME IInv, NEW s \in serving \cup sending, ListAndWatch(s) \/ Send(s)
  PROVE  IInv'
<1>1. s \in Servers /\ s.pool \in PoolNames /\ s.round \in Nat
  BY DEF IInv, TypeOK, Servers
<1>2. /\ UNCHANGED <<kubelet, sock, configMap, starts, edits, files, registered>>
      /\ UNCHANGED <<proc, watched, events, poolConf, round, cdms, serving, todo, cur, dials,
                     launches>>
  BY DEF ListAndWatch, Send, kubeletVars, mainVars
<1>3. StartsOver' /\ DownUnregistered' /\ ServersManaged' /\ RegisteredServed' /\ ConfValidated'
      /\ ConfServed'
  BY <1>2 DEF IInv, StartsOver, DownUnregistered, ServersManaged, RegisteredServed, ConfValidated,
     ConfServed
<1>4. CASE ListAndWatch(s)
  <2>1. /\ s \in serving /\ s.pool \in registered \ listed /\ sending' = sending \cup {s}
        /\ cached' = (IF IsShared(s) THEN cached ELSE cached \cup {s}) /\ listed' = listed
    BY <1>4 DEF ListAndWatch
  <2>2. TypeOK'
    BY <1>1, <1>2, <2>1 DEF IInv, TypeOK
  <2>3. RoundsCoherent'
    <3>1. s \in Range(cdms)
      BY <2>1 DEF IInv, ServersManaged
    <3>2. s.round = round /\ s.pool \notin todo /\ round \in Nat
      BY <3>1 DEF IInv, RoundsCoherent, TypeOK
    <3> QED BY <1>2, <2>1, <3>2 DEF IInv, RoundsCoherent
  <2>4. RegistersNew'
    <3>1. SUFFICES ASSUME proc = "register" PROVE s # Server(cur, round, poolConf)
      BY <1>2, <2>1, <3>1 DEF IInv, RegistersNew
    <3> QED BY <2>1, <3>1 DEF IInv, RegistersNew, Server
  <2>5. SendsCached' /\ PreferredAnswered'
    BY <1>2, <2>1 DEF IInv, SendsCached, PreferredAnswered
  <2> QED BY <1>3, <2>2, <2>3, <2>4, <2>5 DEF IInv
<1>5. CASE Send(s)
  <2>1. /\ s \in sending /\ sending' = sending \ {s} /\ cached' = cached
        /\ listed' = IF s \in serving /\ s.pool \in registered THEN listed \cup {s.pool}
                     ELSE listed
    BY <1>5 DEF Send
  <2>2. TypeOK'
    BY <1>1, <1>2, <2>1 DEF IInv, TypeOK
  <2>3. RoundsCoherent' /\ RegistersNew' /\ SendsCached'
    BY <1>2, <2>1 DEF IInv, RoundsCoherent, RegistersNew, SendsCached
  <2>4. PreferredAnswered'
    <3>1. SUFFICES ASSUME NEW t \in serving, t.pool \in listed', ~IsShared(t)
                   PROVE  t \in cached
      BY <1>2, <2>1 DEF PreferredAnswered
    <3>2. CASE t.pool \in listed
      BY <3>1, <3>2 DEF IInv, PreferredAnswered
    <3>3. CASE s \in serving /\ t.pool = s.pool
      <4>1. t = s
        BY <3>3 DEF IInv, ServersManaged
      <4> QED BY <2>1, <3>1, <3>3, <4>1 DEF IInv, SendsCached
    <3> QED BY <2>1, <3>1, <3>2, <3>3
  <2> QED BY <1>3, <2>2, <2>3, <2>4 DEF IInv
<1> QED BY <1>4, <1>5

-----------------------------------------------------------------------------
LEMMA NextIInv == IInv /\ [Next]_vars => IInv'
<1> SUFFICES ASSUME IInv, [Next]_vars PROVE IInv'
  OBVIOUS
<1>1. CASE KubeletStops \/ KubeletCleans \/ KubeletListens \/ EditConfigMap
  BY <1>1, KubeletIInv
<1>2. CASE Launch \/ AddWatch \/ DialContext
  BY <1>2, MainIInv
<1>3. CASE CreatePluginsForPools
  BY <1>3, CreateIInv
<1>4. CASE \E n \in PoolNames : StartPool(n)
  BY <1>4, StartIInv
<1>5. CASE Register
  BY <1>5, RegisterIInv
<1>6. CASE HandleEvent
  BY <1>6, EventIInv
<1>7. CASE HandleSignal \/ Crash \/ \E s \in serving \cup sending : GetPreferredAllocation(s)
  <2>1. /\ ProcessEnds /\ files' \subseteq files
        /\ UNCHANGED kubeletVars /\ UNCHANGED launches /\ UNCHANGED round
    BY <1>7 DEF HandleSignal, Crash, GetPreferredAllocation
  <2>2. round' \in Nat
    BY <2>1 DEF IInv, TypeOK
  <2> QED BY <2>1, <2>2, EndsIInv
<1>8. CASE \E s \in serving \cup sending : ListAndWatch(s) \/ Send(s)
  BY <1>8, HandlersIInv
<1>9. CASE UNCHANGED vars
  <2>1. TypeOK'
    BY <1>9 DEF IInv, TypeOK, vars, kubeletVars, listVars, mainVars
  <2>2. RoundsCoherent' /\ StartsOver' /\ RegistersNew' /\ SendsCached' /\ DownUnregistered'
    BY <1>9 DEF IInv, vars, kubeletVars, listVars, mainVars, RoundsCoherent, StartsOver,
       RegistersNew, SendsCached, DownUnregistered
  <2>3. ServersManaged' /\ RegisteredServed' /\ PreferredAnswered' /\ ConfValidated' /\ ConfServed'
    BY <1>9 DEF IInv, vars, kubeletVars, listVars, mainVars, ServersManaged,
       RegisteredServed, PreferredAnswered, ConfValidated, ConfServed
  <2> QED BY <2>1, <2>2, <2>3 DEF IInv
<1> QED
  BY <1>1, <1>2, <1>3, <1>4, <1>5, <1>6, <1>7, <1>8, <1>9 DEF Next, Plugin, Handlers

THEOREM Invariance == Spec => []IInv
<1> QED BY InitIInv, NextIInv, PTL DEF Spec

(* The variables of the plugin model keep their types; in particular       *)
(* kubelet never knows the devices of a plugin it is not connected to, and *)
(* no cache outlives its server.                                           *)
THEOREM TypeCorrect == Spec => []TypeOK
<1>1. IInv => TypeOK
  BY DEF IInv
<1> QED BY Invariance, <1>1, PTL

(* Starting over after a restart of kubelet leaks no server (main,         *)
(* createCDMs): the server of every round is in the list that the next     *)
(* event or signal stops, however often kubelet and the plugin restart.    *)
THEOREM ServersManagedThm == Spec => []ServersManaged
<1>1. IInv => ServersManaged
  BY DEF IInv
<1> QED BY Invariance, <1>1, PTL

(* Whatever pool kubelet hands out is backed by a serving gRPC server      *)
(* behind an existing socket (Register, Stop, cleanup by kubelet).         *)
THEOREM RegisteredServedThm == Spec => []RegisteredServed
<1>1. IInv => RegisteredServed
  BY DEF IInv
<1> QED BY Invariance, <1>1, PTL

(* GetPreferredAllocation finds the devices it is asked about in           *)
(* cacheDevices, so it never dereferences a nil Topology for an exclusive  *)
(* or cloudphone pool.                                                     *)
THEOREM PreferredAnsweredThm == Spec => []PreferredAnswered
<1>1. IInv => PreferredAnswered
  BY DEF IInv
<1> QED BY Invariance, <1>1, PTL

(* Of the servers of all rounds that serve, at most one has CPUs of a      *)
(* shared pool: starting over stops the shared pool of the configuration   *)
(* before an edit before the one after it is served, however the events,   *)
(* restarts and failed registrations fall (main, validatePools).           *)
THEOREM OneSharedPoolThm == Spec => []OneSharedPool
<1>1. IInv => OneSharedPool
  <2> SUFFICES ASSUME IInv,
                      NEW s \in serving, NEW t \in serving,
                      IsShared(s), IsShared(t), s.cpus # {}, t.cpus # {}
               PROVE  s = t
    BY DEF OneSharedPool
  <2> DEFINE all == {n \in SharedPools(poolConf) : poolConf[n] # {}}
  <2>1. IsFiniteSet(DOMAIN poolConf)
    <3>1. CASE poolConf \in {f.pools : f \in Files}
      BY <3>1, DevicePluginAssumption
    <3>2. CASE poolConf = <<>>
      <4>1. DOMAIN poolConf = {}
        BY <3>2
      <4> QED BY <4>1, FS_EmptySet
    <3> QED BY <3>1, <3>2 DEF IInv, TypeOK
  <2>2. IsFiniteSet(all)
    <3>1. all \subseteq DOMAIN poolConf
      BY DEF SharedPools
    <3> QED BY <2>1, <3>1, FS_Subset
  <2>3. s.pool \in all /\ t.pool \in all
    BY DEF IInv, ConfServed, Offered, SharedPools, IsShared
  <2>4. Cardinality(all) <= 1
    BY DEF IInv, ConfValidated
  <2> HIDE DEF all
  <2>5. s.pool = t.pool
    <3>1. SUFFICES ASSUME s.pool # t.pool PROVE FALSE
      OBVIOUS
    <3>2. {s.pool, t.pool} \subseteq all
      BY <2>3
    <3>3. Cardinality({s.pool}) = 1 /\ IsFiniteSet({s.pool})
      BY FS_Singleton
    <3>4. {s.pool, t.pool} = {s.pool} \cup {t.pool}
      OBVIOUS
    <3>5. Cardinality({s.pool, t.pool}) = 2
      BY <3>1, <3>3, <3>4, FS_AddElement
    <3>6. Cardinality({s.pool, t.pool}) <= Cardinality(all)
      BY <2>2, <3>2, FS_Subset
    <3>7. Cardinality(all) \in Nat
      BY <2>2, FS_CardinalityType
    <3> QED BY <2>4, <3>5, <3>6, <3>7
  <2> QED BY <2>5 DEF IInv, ServersManaged
<1> QED BY Invariance, <1>1, PTL
=============================================================================
