---------------------------- MODULE DevicePlugin ----------------------------
(***************************************************************************)
(* The life of the CPU device plugin of one node                           *)
(* (cmd/cpu-device-plugin/cpu-device-plugin.go): watching kubelet's        *)
(* socket, choosing the pool configuration of the node, creating one       *)
(* device manager per pool, registering it, listing its devices, starting  *)
(* over when kubelet restarts, and stopping.                               *)
(*                                                                         *)
(* Kubelet, the inotify watch, the ConfigMap with the pools and the API    *)
(* server are external.  A gRPC server is identified by its pool, the CPUs *)
(* its manager was made with and the call of createPluginsForPools that    *)
(* made it; kubelet connects to a server once.                             *)
(***************************************************************************)
EXTENDS PoolTypes, Integers, FiniteSets

CONSTANTS
  Configs,          \* what a round may read: [files : ConfigMap, labels : of the Node]
  NoLabels,         \* the labels when NODE_NAME is not set
  NoPool,
  DialRetry,        \* the code's 2
  MaxKubeletStarts, \* bound: starts of kubelet
  MaxLaunches,      \* bound: starts of the plugin process
  ReadMayFail,      \* the API server or a file may be unreadable
  MaxEdits          \* bound: changes of the ConfigMap

(* A file is [NodeSelector : set of <<label, value>>, pools : pool name -> *)
(* CPUs], the files are in the order of their names.                       *)
Files == UNION {Range(conf.files) : conf \in Configs}
PoolNames == UNION {DOMAIN f.pools : f \in Files}
PoolCpus == UNION {Range(f.pools) : f \in Files}

ASSUME DevicePluginAssumption ==
  /\ NoPool \notin PoolNames /\ DialRetry \in Nat \ {0}
  /\ \A f \in Files : IsFiniteSet(DOMAIN f.pools)
  /\ MaxKubeletStarts \in Nat /\ MaxLaunches \in Nat /\ MaxEdits \in Nat
  /\ ReadMayFail \in BOOLEAN

VARIABLES
  \* kubelet and the node (external)
  kubelet,     \* "down", "cleaning" (its plugin directory), "up"
  sock,        \* kubelet.sock exists
  files,       \* the pools whose socket file exists
  registered,  \* the pools whose plugin kubelet is connected to
  listed,      \* the pools whose devices kubelet knows
  configMap,   \* the files of the ConfigMap and the labels of the Node
  starts, edits,
  \* the plugin process
  proc,        \* where main is
  watched,     \* the inotify watch on kubelet.sock exists
  events,      \* undelivered file events
  poolConf,    \* the configuration of the last createPluginsForPools
  round,       \* number of the last createPluginsForPools
  cdms,        \* the global list of device managers
  serving,     \* the gRPC servers that serve
  cached,      \* the servers whose cacheDevices hold their devices
  sending,     \* the servers whose ListAndWatch is about to send
  todo, cur,   \* createCDMs: the pools not visited yet, the current one
  dials,       \* attempts DialContext has left
  launches

kubeletVars == <<kubelet, sock, configMap, starts, edits>>
listVars == <<cached, sending>>
mainVars == <<proc, watched, events, poolConf, round, cdms, serving, todo, cur, dials, launches>>
vars == <<kubeletVars, files, registered, listed, listVars, mainVars>>

(* What newCPUDeviceManager keeps of its pool for as long as it serves.    *)
Server(n, k, conf) == [pool |-> n, round |-> k, cpus |-> conf[n]]
IsShared(s) == DeterminePoolType(s.pool) = SharedPoolID
PoolsOf(servers) == {s.pool : s \in servers}

Init ==
  /\ kubelet = "up" /\ sock = TRUE /\ starts = 1 /\ edits = 0
  /\ files = {} /\ registered = {} /\ listed = {}
  /\ configMap \in Configs
  /\ proc = "down" /\ watched = FALSE /\ events = 0
  /\ poolConf = <<>> /\ round = 0 /\ cdms = <<>> /\ serving = {}
  /\ cached = {} /\ sending = {}
  /\ todo = {} /\ cur = NoPool /\ dials = 0 /\ launches = 0

-----------------------------------------------------------------------------
(* Kubelet, the watch and the ConfigMap (external).                        *)

(* The socket file stays behind; a restarted kubelet knows no plugin.      *)
KubeletStops ==
  /\ kubelet = "up" /\ starts < MaxKubeletStarts
  /\ kubelet' = "down" /\ registered' = {} /\ listed' = {}
  /\ UNCHANGED <<sock, files, configMap, starts, edits, listVars, mainVars>>

(* A starting kubelet first removes every socket of its directory.  The    *)
(* watch is on the removed inode: it reports the removal (one event, or    *)
(* two with the change of the link count) and is gone.                     *)
KubeletCleans ==
  /\ kubelet = "down"
  /\ kubelet' = "cleaning" /\ starts' = starts + 1
  /\ sock' = FALSE /\ files' = {}
  /\ watched' = FALSE
  /\ \E k \in 1 .. 2 : events' = IF watched THEN events + k ELSE events
  /\ UNCHANGED <<registered, listed, configMap, edits, listVars, proc, poolConf, round, cdms,
                 serving, todo, cur, dials, launches>>

KubeletListens ==
  /\ kubelet = "cleaning"
  /\ kubelet' = "up" /\ sock' = TRUE
  /\ UNCHANGED <<files, registered, listed, configMap, starts, edits, listVars, mainVars>>

(* The ConfigMap or the labels of the Node change.                         *)
EditConfigMap ==
  /\ edits < MaxEdits /\ edits' = edits + 1
  /\ configMap' \in Configs \ {configMap}
  /\ UNCHANGED <<kubelet, sock, files, registered, listed, starts, listVars, mainVars>>

-----------------------------------------------------------------------------
(* The plugin process.                                                     *)

(* The DaemonSet starts the process whenever it is not there.              *)
Launch ==
  /\ proc = "down" /\ launches < MaxLaunches
  /\ proc' = "launched" /\ launches' = launches + 1
  /\ UNCHANGED <<kubeletVars, files, registered, listed, listVars, watched, events, poolConf,
                 round, cdms, serving, todo, cur, dials>>

(* watcher.Add fails when there is no file; main ignores the error.        *)
AddWatch ==
  /\ proc = "launched"
  /\ watched' = sock /\ proc' = "load"
  /\ UNCHANGED <<kubeletVars, files, registered, listed, listVars, events, poolConf, round, cdms,
                 serving, todo, cur, dials, launches>>

(* What the end of the process takes with it: the servers, kubelet's       *)
(* connections to them, the watch.                                         *)
ProcessEnds ==
  /\ proc' = "down" /\ watched' = FALSE /\ events' = 0
  /\ cdms' = <<>> /\ serving' = {} /\ registered' = {} /\ listed' = {}
  /\ cached' = {} /\ sending' = {}
  /\ todo' = {} /\ cur' = NoPool /\ dials' = 0 /\ poolConf' = <<>>

(* readPoolConfig: without labels the first file, otherwise the first one  *)
(* of whose NodeSelector any label of the Node holds; {} is the error.     *)
ReadPoolConfig(conf) ==
  LET match == {i \in DOMAIN conf.files :
                  conf.labels = NoLabels \/ conf.files[i].NodeSelector \cap conf.labels # {}}
  IN  {conf.files[i].pools : i \in {j \in match : \A k \in match : j <= k}}

SharedPools(conf) == {n \in DOMAIN conf : DeterminePoolType(n) = SharedPoolID}

(* The results validatePools can give: it fails on the second shared pool  *)
(* it meets, unless the set of the ones met before prints as "".  With one *)
(* pool that is not empty the order of the map decides.                    *)
ValidatePools(conf) ==
  LET shared   == SharedPools(conf)
      nonempty == {n \in shared : conf[n] # {}}
  IN  (IF Cardinality(nonempty) <= 1 THEN {TRUE} ELSE {}) \cup
      (IF Cardinality(shared) > 1 /\ nonempty # {} THEN {FALSE} ELSE {})

(* Default and unrecognised pools are not offered.                         *)
Offered(conf) == {n \in DOMAIN conf : DeterminePoolType(n) # DefaultPoolID}

(* After a pool, createCDMs goes on to the next one or main to its select. *)
AfterPool(rest) == IF rest = {} THEN "select" ELSE "start"

(* createPluginsForPools up to createCDMs.  The cleaning of old sockets    *)
(* looks for cpudp*, which no socket of this program matches.  When the    *)
(* Node or a file cannot be read, no file matches, or two pools are        *)
(* shared, main ends with Fatal or panic; Stop is not called.              *)
CreatePluginsForPools ==
  /\ proc = "load"
  /\ \/ \E pools \in ReadPoolConfig(configMap) :
          /\ TRUE \in ValidatePools(pools)
          /\ poolConf' = pools /\ todo' = Offered(pools)
          /\ proc' = AfterPool(todo')
          /\ UNCHANGED <<registered, listed, listVars, watched, events, cdms, serving, cur, dials>>
     \/ /\ \A pools \in ReadPoolConfig(configMap) : FALSE \in ValidatePools(pools)
        /\ ProcessEnds
     \/ ReadMayFail /\ ProcessEnds
  /\ round' = round + 1
  /\ UNCHANGED <<kubeletVars, files, launches>>

(* Faulty variant: the socket file of an earlier process is left in place, *)
(* so Listen fails.                                                        *)
StartPoolWithoutRemove(n) ==
  /\ proc = "start" /\ n \in todo
  /\ cdms' = Append(cdms, Server(n, round, poolConf))
  /\ serving' = IF n \in files THEN serving ELSE serving \cup {Server(n, round, poolConf)}
  /\ files' = files \cup {n}
  /\ todo' = todo \ {n} /\ cur' = n /\ proc' = "register" /\ dials' = DialRetry
  /\ UNCHANGED <<kubeletVars, registered, listed, listVars, watched, events, poolConf, round,
                 launches>>

(* newCPUDeviceManager, append, Start.  A socket file left behind by an    *)
(* earlier process is removed first.                                       *)
StartPool(n) ==
  /\ proc = "start" /\ n \in todo
  /\ cdms' = Append(cdms, Server(n, round, poolConf))
  /\ serving' = serving \cup {Server(n, round, poolConf)}
  /\ files' = files \cup {n}
  /\ todo' = todo \ {n} /\ cur' = n /\ proc' = "register" /\ dials' = DialRetry
  /\ UNCHANGED <<kubeletVars, registered, listed, listVars, watched, events, poolConf, round,
                 launches>>

(* Faulty variant: createCDMs returns after its first pool.                *)
RegisterOnlyOne ==
  /\ proc = "register" /\ kubelet = "up" /\ cur \in files
  /\ registered' = registered \cup {cur}
  /\ proc' = "select" /\ cur' = NoPool /\ todo' = {} /\ dials' = 0
  /\ UNCHANGED <<kubeletVars, files, listed, listVars, watched, events, poolConf, round, cdms,
                 serving, launches>>

(* DialContext tries again at once.                                        *)
DialContext ==
  /\ proc = "register" /\ kubelet # "up" /\ dials > 1
  /\ dials' = dials - 1
  /\ UNCHANGED <<kubeletVars, files, registered, listed, listVars, proc, watched, events, poolConf,
                 round, cdms, serving, todo, cur, launches>>

(* Register.  A kubelet that finds no socket behind the endpoint may       *)
(* answer before it finds out.  On a failure the server is stopped (which  *)
(* removes its socket), the loop ends, and the error is lost: createCDMs   *)
(* returns the outer err, and main goes on to wait for events.             *)
Register ==
  /\ proc = "register" /\ cur' = NoPool /\ dials' = 0
  /\ \/ /\ kubelet = "up"
        /\ registered' = IF cur \in files THEN registered \cup {cur} ELSE registered
        /\ proc' = AfterPool(todo)
        /\ UNCHANGED <<files, serving, todo>>
     \/ /\ IF kubelet = "up" THEN cur \notin files ELSE dials = 1
        /\ serving' = serving \ {Server(cur, round, poolConf)} /\ files' = files \ {cur}
        /\ todo' = {} /\ proc' = "select"
        /\ UNCHANGED registered
  /\ UNCHANGED <<kubeletVars, listed, listVars, watched, events, poolConf, round, cdms, launches>>

(* Stop, for every device manager: the server ends, its socket is removed, *)
(* and kubelet loses its connection.                                       *)
StopAll ==
  LET stopped == Range(cdms)
  IN  /\ serving' = serving \ stopped
      /\ files' = files \ PoolsOf(stopped)
      /\ registered' = registered \ PoolsOf(stopped \cap serving)
      /\ listed' = listed \ PoolsOf(stopped \cap serving)
      /\ cached' = cached \ stopped
      /\ UNCHANGED sending

(* Faulty variant: the managers are forgotten and not stopped.             *)
HandleEventWithoutStop ==
  /\ proc = "select" /\ events > 0
  /\ events' = events - 1
  /\ cdms' = <<>> /\ proc' = "load"
  /\ UNCHANGED <<kubeletVars, files, registered, listed, listVars, serving, watched, poolConf,
                 round, todo, cur, dials, launches>>

(* Faulty variant: a closed Events channel delivers forever.               *)
HandleEventAlways ==
  /\ proc = "select" /\ round < 9
  /\ events' = events - 1
  /\ StopAll
  /\ cdms' = <<>> /\ proc' = "load"
  /\ UNCHANGED <<kubeletVars, watched, poolConf, round, todo, cur, dials, launches>>

(* An event on kubelet.sock: stop everything and start over.               *)
HandleEvent ==
  /\ proc = "select" /\ events > 0
  /\ events' = events - 1
  /\ StopAll
  /\ cdms' = <<>> /\ proc' = "load"
  /\ UNCHANGED <<kubeletVars, watched, poolConf, round, todo, cur, dials, launches>>

(* SIGTERM, SIGQUIT or SIGINT: stop everything and return from main.       *)
HandleSignal ==
  /\ proc = "select"
  /\ ProcessEnds
  /\ files' = files \ PoolsOf(Range(cdms))
  /\ UNCHANGED <<kubeletVars, round, launches>>

(* The process is killed, or panics in one of its goroutines (Listen       *)
(* failed, Allocate without devices).  The socket files stay behind.       *)
Crash ==
  /\ proc # "down"
  /\ ProcessEnds
  /\ UNCHANGED <<kubeletVars, files, round, launches>>

-----------------------------------------------------------------------------
(* The gRPC handlers, one goroutine per call.                              *)

(* Faulty variant: the list is sent before the cache is filled.            *)
ListAndWatchSendingFirst(s) ==
  /\ s \in serving \ (sending \cup cached) /\ s.pool \in registered
  /\ sending' = sending \cup {s}
  /\ listed' = listed \cup {s.pool}
  /\ UNCHANGED <<kubeletVars, files, registered, cached, mainVars>>

(* Kubelet calls ListAndWatch once it is connected.  cacheDevices gets the *)
(* devices of the pool, for a shared pool an empty map.                    *)
ListAndWatch(s) ==
  /\ s \in serving \ (sending \cup cached) /\ s.pool \in registered \ listed
  /\ sending' = sending \cup {s}
  /\ cached' = IF IsShared(s) THEN cached ELSE cached \cup {s}
  /\ UNCHANGED <<kubeletVars, files, registered, listed, mainVars>>

(* stream.Send fails when the server was stopped or kubelet is gone.       *)
Send(s) ==
  /\ s \in sending
  /\ sending' = sending \ {s}
  /\ listed' = IF s \in serving /\ s.pool \in registered THEN listed \cup {s.pool} ELSE listed
  /\ UNCHANGED <<kubeletVars, files, registered, cached, mainVars>>

(* GetPreferredAllocation for devices that are not in cacheDevices: the    *)
(* nil Topology ends the process.  For devices that are it only answers    *)
(* (ProcessStarter says what).                                             *)
GetPreferredAllocation(s) ==
  /\ s \in serving \ cached /\ s.pool \in listed /\ s.cpus # {}
  /\ ProcessEnds
  /\ UNCHANGED <<kubeletVars, files, round, launches>>

-----------------------------------------------------------------------------
Plugin ==
  \/ AddWatch \/ CreatePluginsForPools \/ (\E n \in PoolNames : StartPool(n))
  \/ DialContext \/ Register \/ HandleEvent

Handlers == \E s \in serving \cup sending : ListAndWatch(s) \/ Send(s) \/ GetPreferredAllocation(s)

Next ==
  \/ KubeletStops \/ KubeletCleans \/ KubeletListens \/ EditConfigMap
  \/ Launch \/ Plugin \/ HandleSignal \/ Crash \/ Handlers

Spec == Init /\ [][Next]_vars

(* The main goroutine runs whenever it can, and a kubelet that began to    *)
(* start ends up listening.                                                *)
FairSpec == Spec /\ WF_vars(Plugin) /\ WF_vars(Launch) /\ WF_vars(KubeletCleans \/ KubeletListens)

-----------------------------------------------------------------------------
(* Properties.                                                             *)

Servers == [pool : PoolNames, round : Nat, cpus : PoolCpus]

TypeOK ==
  /\ kubelet \in {"down", "cleaning", "up"} /\ sock \in BOOLEAN
  /\ files \subseteq PoolNames /\ registered \subseteq PoolNames
  /\ listed \subseteq registered
  /\ configMap \in Configs /\ poolConf \in {f.pools : f \in Files} \cup {<<>>}
  /\ proc \in {"down", "launched", "load", "start", "register", "select"}
  /\ watched \in BOOLEAN /\ events \in Nat
  /\ round \in Nat /\ starts \in Nat /\ edits \in Nat /\ launches \in Nat
  /\ cdms \in Seq(Servers) /\ serving \subseteq Servers
  /\ cached \subseteq serving /\ sending \subseteq Servers
  /\ todo \subseteq PoolNames /\ cur \in PoolNames \cup {NoPool} /\ dials \in 0 .. DialRetry

(* Starting over after a kubelet restart leaks no server: every server     *)
(* that serves is in cdms, so the next event or SIGTERM stops it, and no   *)
(* pool has two (main, createCDMs).                                        *)
ServersManaged ==
  /\ serving \subseteq Range(cdms)
  /\ \A s, t \in serving : s.pool = t.pool => s = t

(* What kubelet hands out is backed: a registered pool has a server that   *)
(* serves, behind a socket that exists, whatever the order of kubelet's    *)
(* restarts, crashes of the plugin and rounds of registration.             *)
RegisteredServed ==
  \A n \in registered : n \in files /\ \E s \in serving : s.pool = n

(* "Only one shared pool allowed" (validatePools): of all the servers that *)
(* serve, of whatever round and of whatever configuration it read, at most *)
(* one has CPUs of a shared pool.  A server of an earlier round that       *)
(* starting over forgot would go on with the shared pool of the            *)
(* configuration before the edit, next to the new one (main,               *)
(* createPluginsForPools, validatePools).                                  *)
OneSharedPool ==
  \A s, t \in serving :
    IsShared(s) /\ IsShared(t) /\ s.cpus # {} /\ t.cpus # {} => s = t

(* GetPreferredAllocation finds the device it is asked about: when kubelet *)
(* knows the devices of an exclusive or cloudphone pool, the server it     *)
(* asks has them in cacheDevices, though ListAndWatch fills the cache and  *)
(* sends the list in a goroutine of its own, while main may be starting    *)
(* over (ListAndWatch, GetPreferredAllocation).                            *)
PreferredAnswered ==
  \A s \in serving : s.pool \in listed /\ ~IsShared(s) => s \in cached

(* A plugin that finds kubelet running registers every pool the            *)
(* configuration offers, unless kubelet goes down or the plugin ends       *)
(* meanwhile.                                                              *)
AllRegistered == proc = "select" /\ registered = Offered(poolConf)
RegistersEveryPool ==
  proc = "launched" /\ kubelet = "up" ~> AllRegistered \/ kubelet # "up" \/ proc = "down"

(* "Watch kubelet.sock; if kubelet.sock has a change event, restart the    *)
(* device-plugin registration" (the comment in main): a plugin that waits  *)
(* for events next to a running kubelet does not stay unregistered.        *)
ReRegisters ==
  proc = "select" /\ kubelet = "up" ~> AllRegistered \/ kubelet # "up" \/ proc # "select"
=============================================================================
