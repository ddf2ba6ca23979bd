------------------------------- MODULE Bridge -------------------------------
(***************************************************************************)
(* The bridge between Docker and a service registry (bridge/bridge.go and  *)
(* bridge/servicesync.go), together with the event loop and the tickers    *)
(* of registrator.go that drive it.                                        *)
(*                                                                         *)
(* Docker starts and stops containers; every start and every die event     *)
(* becomes a goroutine (Add, RemoveOnExit).  One goroutine (channelRun)    *)
(* serves the synchronisation requests, one the refresh ticker and one the *)
(* prune ticker.  They share the maps services and deadContainers under    *)
(* one mutex, and the registry without any lock.                           *)
(*                                                                         *)
(* A critical section that makes no remote call, or whose remote calls     *)
(* commute with every step other goroutines can take while it runs, is one *)
(* step; the synchronisation, which holds the mutex across many remote     *)
(* calls, takes one step for each call.                                    *)
(***************************************************************************)
EXTENDS Integers

CONSTANTS
  Containers,        \* Docker container IDs
  Names,             \* container names
  NameOf,            \* the name of each container; a name can be used again
  Ports,             \* ports
  PortsOf,           \* the ports for which newService returns a service
  HostNet,           \* containers whose ports are only in ExposedPorts
  IPs,               \* addresses
  NoIP,              \* the empty string
  BadIP,             \* a string that is not an address
  EventSlots,        \* bound: event goroutines of one container at a time
  SyncSlots,         \* bound: sync-spawned goroutines of one container
  HostFlag,          \* -ip: an address, or NoIP
  LocalIp,           \* what the host's own name resolves to
  Lookup,            \* -ip-lookup-source is set
  ExitOnIPLookupFailure,
  DeregisterAlways,  \* Config.DeregisterCheck = "always" (else "on-success")
  RefreshTtl,        \* Config.RefreshTtl; 0: no refresh ticker
  RefreshInterval,   \* Config.RefreshInterval
  Resync,            \* -resync is set
  Cleanup,           \* Config.Cleanup
  ListsServices,     \* the adapter's Services() lists the registry
  RefreshMode,       \* what the adapter's Refresh does
  KeyedByAddress,    \* the adapter's key of an entry contains the address
  Recognised,        \* the keys whose IDs cleanupServices takes for its own
  InitialEntries,    \* bound: entries of an earlier process that may exist
  MaxEvents,         \* bound: number of container starts and stops
  MaxFaults,         \* bound: number of failed remote calls, lost entries
  MaxCrashes         \* bound: number of process crashes

Slots == EventSlots \cup SyncSlots
Goroutines == Containers \X Slots
Address == IPs \cup {BadIP}
Key == Names \X Ports
Entry == Key \X Address
Service == [port : Ports, ip : Address]
Outcome == {"ok", "err", "lost"}

ASSUME BridgeAssumption ==
  /\ NameOf \in [Containers -> Names]
  /\ PortsOf \in [Containers -> SUBSET Ports]
  /\ HostNet \subseteq Containers
  /\ NoIP \notin Address /\ BadIP \notin IPs
  /\ HostFlag \in IPs \cup {NoIP}
  /\ LocalIp \in IPs
  /\ Lookup \in BOOLEAN
  /\ ExitOnIPLookupFailure \in BOOLEAN
  /\ EventSlots \cap SyncSlots = {}
  /\ DeregisterAlways \in BOOLEAN
  /\ Resync \in BOOLEAN
  /\ Cleanup \in BOOLEAN
  /\ ListsServices \in BOOLEAN
  /\ KeyedByAddress \in BOOLEAN
  /\ RefreshMode \in {"noop", "register", "heartbeat"}
  /\ Recognised \subseteq Key
  /\ InitialEntries \subseteq Entry
  /\ MaxEvents \in Nat /\ MaxFaults \in Nat /\ MaxCrashes \in Nat

\* registrator.go exits unless -ttl and -ttl-refresh are both given, or
\* neither is, and the first is the greater.
ASSUME TtlAssumption ==
  /\ RefreshTtl \in Nat /\ RefreshInterval \in Nat
  /\ RefreshTtl = 0 <=> RefreshInterval = 0
  /\ RefreshTtl > 0 => RefreshTtl > RefreshInterval

VARIABLES
  docker,    \* state of each container
  source,    \* the address the external source gives for this host
  registry,  \* the entries of this host: a key and the address it gives
  services,  \* Bridge.services; {} is nil
  dead,      \* Bridge.deadContainers; ttl 0 is nil
  mutex,     \* Bridge.Mutex; "leaked": its holder returned without Unlock
  pc,        \* where each goroutine is; "none" when it does not exist
  newIP,     \* the address an add was called with
  todo,      \* ports an add has still to register
  cur,       \* the service an add has registered and not yet appended
  hostIp,        \* Config.HostIp
  discoveredIP,  \* the address found last
  answer,        \* temporaryIP of each ticker, until it is stored
  sends,         \* the messages the tickers wait to put on SyncChannel
  spc,       \* where channelRun is; "down" when there is no process
  sIP,       \* SyncMessage.IP
  sTodo,     \* services serviceSync has still to reregister
  sMove,     \* the service reregisterService has taken off its old address
  sExt,      \* extServices that cleanupServices has still to look at
  rTodo,     \* copies that Refresh has still to send
  events, faults, crashes   \* how often each happened

env == <<docker, source, events, crashes>>
remote == <<registry, faults>>
maps == <<services, dead>>
goVars == <<pc, newIP, todo, cur>>
ipVars == <<hostIp, discoveredIP, answer, sends>>
syncVars == <<spc, sIP, sTodo, sMove, sExt>>
vars == <<env, remote, maps, mutex, goVars, ipVars, syncVars, rTodo>>

\* The tickers of main that run resyncProcess.
Tickers == (IF Lookup THEN {"ip"} ELSE {}) \cup
           (IF Resync THEN {"resync"} ELSE {})

KeyOf(c, p) == <<NameOf[c], p>>
EntryOf(c, s) == <<KeyOf(c, s.port), s.ip>>
NoDead == [ttl |-> 0, svcs |-> {}]

TypeOK ==
  /\ docker \in [Containers -> {"none", "running", "success", "failure"}]
  /\ source \in IPs
  /\ registry \subseteq Entry
  /\ services \in [Containers -> SUBSET Service]
  /\ dead \in [Containers -> [ttl : 0..RefreshTtl, svcs : SUBSET Service]]
  /\ mutex \in {"free", "sync", "leaked"}
  /\ pc \in [Goroutines -> {"none", "revive", "check", "inspect", "register",
                            "append", "decide", "remove", "keep"}]
  /\ newIP \in [Goroutines -> Address \cup {NoIP}]
  /\ todo \in [Goroutines -> SUBSET Ports]
  /\ cur \in [Goroutines -> SUBSET Service]
  /\ hostIp \in IPs \cup {NoIP}
  /\ discoveredIP \in Address \cup {NoIP}
  /\ answer \in [Tickers -> Address \cup {NoIP}]
  /\ sends \subseteq Tickers \X (Address \cup {NoIP})
  /\ spc \in {"down", "boot", "idle", "lock", "rereg", "move", "services",
              "dangling"}
  /\ sIP \in Address \cup {NoIP}
  /\ sTodo \subseteq Containers \X Service
  /\ sMove \subseteq Containers \X Service
  /\ sExt \subseteq Entry
  /\ rTodo \subseteq Entry
  /\ events \in 0..MaxEvents /\ faults \in 0..MaxFaults
  /\ crashes \in 0..MaxCrashes

-----------------------------------------------------------------------------
(* Remote calls.  A call succeeds, is refused, or is carried out although  *)
(* the caller gets an error.                                               *)

Faulty(o) ==
  IF o = "ok" THEN UNCHANGED faults
              ELSE faults < MaxFaults /\ faults' = faults + 1

\* The adapter takes e and f for the same entry.
Same(e, f) == e[1] = f[1] /\ (KeyedByAddress => e[2] = f[2])

Without(entries, e) == {f \in entries : ~Same(e, f)}

Register(e, o) ==
  /\ registry' = IF o = "err" THEN registry ELSE Without(registry, e) \cup {e}
  /\ Faulty(o)

Deregister(e, o) ==
  /\ registry' = IF o = "err" THEN registry ELSE Without(registry, e)
  /\ Faulty(o)

\* An entry is lost in the registry.
LoseEntry(e) ==
  /\ e \in registry
  /\ Deregister(e, "lost")
  /\ UNCHANGED <<env, maps, mutex, goVars, ipVars, syncVars, rTodo>>

\* A goroutine has returned and not released the mutex.
Hung == mutex = "leaked"

\* The lease of an entry that nothing refreshes ends.
Unrefreshed(e) ==
  Hung \/ \A c \in Containers : \A s \in services[c] : ~Same(e, EntryOf(c, s))

Expire(e) ==
  /\ RefreshMode # "noop" /\ RefreshTtl > 0
  /\ e \in registry /\ Unrefreshed(e)
  /\ Deregister(e, "ok")
  /\ UNCHANGED <<env, maps, mutex, goVars, ipVars, syncVars, rTodo>>

-----------------------------------------------------------------------------
(* Docker, and the event loop of main.  An event takes effect when the     *)
(* goroutine it spawns runs, so it is delivered at once.                   *)

Up == spc # "down"

\* What a goroutine finds in discoveredIP, which holds ip, when it reads it
\* without a lock: a string that one of the tickers ts is assigning to it at
\* the time can be read already, or in part.
SeenIP(ip, ts) ==
  LET racing == {answer[t] : t \in ts} \ {NoIP, ip}
  IN {ip} \cup racing \cup (IF racing # {} THEN {BadIP} ELSE {})

Spawn(g, start, ip) ==
  /\ pc[g] = "none"
  /\ pc' = [pc EXCEPT ![g] = start]
  /\ newIP' = [newIP EXCEPT ![g] = ip]
  /\ UNCHANGED <<todo, cur>>

StartContainer(c) ==
  /\ docker[c] # "running"
  /\ \A d \in Containers \ {c} : NameOf[d] = NameOf[c] => docker[d] = "none"
  /\ events < MaxEvents /\ events' = events + 1
  /\ docker' = [docker EXCEPT ![c] = "running"]
  /\ IF Up
     THEN \E i \in EventSlots, ip \in SeenIP(discoveredIP, Tickers) :
            Spawn(<<c, i>>, "revive", ip)
     ELSE UNCHANGED goVars
  /\ UNCHANGED <<source, crashes, remote, maps, mutex, syncVars, ipVars,
                 rTodo>>

StopContainer(c, how) ==
  /\ docker[c] = "running"
  /\ events < MaxEvents /\ events' = events + 1
  /\ docker' = [docker EXCEPT ![c] = how]
  /\ IF Up THEN \E i \in EventSlots : Spawn(<<c, i>>, "decide", NoIP)
           ELSE UNCHANGED goVars
  /\ UNCHANGED <<source, crashes, remote, maps, mutex, syncVars, ipVars,
                 rTodo>>

RemoveContainer(c) ==
  /\ docker[c] \in {"success", "failure"}
  /\ docker' = [docker EXCEPT ![c] = "none"]
  /\ UNCHANGED <<source, events, crashes, remote, maps, mutex, goVars, ipVars,
                 syncVars, rTodo>>

\* The host gets another address.
MoveHost(ip) ==
  /\ Lookup /\ ip # source
  /\ events < MaxEvents /\ events' = events + 1
  /\ source' = ip
  /\ UNCHANGED <<docker, crashes, remote, maps, mutex, goVars, ipVars,
                 syncVars, rTodo>>

-----------------------------------------------------------------------------
(* Bridge.add                                                              *)

Goto(g, l) == pc' = [pc EXCEPT ![g] = l]

\* Variant: a critical section without b.Lock().
AtUnlocked(g, l) == pc[g] = l

\* g is at l, a critical section, and b.Lock() returns.
AtLock(g, l) == pc[g] = l /\ mutex = "free"

\* A goroutine is gone: nothing of its locals is left.
Return(g) ==
  /\ Goto(g, "none")
  /\ newIP' = [newIP EXCEPT ![g] = NoIP]
  /\ todo' = [todo EXCEPT ![g] = {}]
  /\ cur' = [cur EXCEPT ![g] = {}]

\* deleteDeadContainer: a container that comes back gets its services back.
AddRevive(c, i) ==
  /\ AtLock(<<c, i>>, "revive")
  /\ services' = IF dead[c].ttl > 0
                 THEN [services EXCEPT ![c] = dead[c].svcs] ELSE services
  /\ dead' = [dead EXCEPT ![c] = NoDead]
  /\ Goto(<<c, i>>, "check")
  /\ UNCHANGED <<env, remote, mutex, newIP, todo, cur, syncVars, ipVars,
                 rTodo>>

\* A container that is already tracked is ignored, without an Unlock.
AddCheck(c, i) ==
  /\ AtLock(<<c, i>>, "check")
  /\ IF services[c] # {}
     THEN Return(<<c, i>>) /\ mutex' = "leaked"
     ELSE Goto(<<c, i>>, "inspect") /\ UNCHANGED <<mutex, newIP, todo, cur>>
  /\ UNCHANGED <<env, remote, maps, syncVars, ipVars, rTodo>>

AddInspect(c, i) ==
  /\ pc[<<c, i>>] = "inspect"
  /\ \/ /\ docker[c] # "none" /\ PortsOf[c] # {}
        /\ Goto(<<c, i>>, "register")
        /\ todo' = [todo EXCEPT ![<<c, i>>] = PortsOf[c]]
        /\ UNCHANGED <<faults, newIP, cur>>
     \/ /\ docker[c] = "none" \/ PortsOf[c] = {}
        /\ Return(<<c, i>>) /\ UNCHANGED faults
     \/ Return(<<c, i>>) /\ Faulty("err")
  /\ UNCHANGED <<env, registry, maps, mutex, syncVars, ipVars, rTodo>>

\* Variant: nothing stands in for an address that was not given.
GivenIP(c, ip) == IF hostIp # NoIP THEN hostIp ELSE ip

\* The address newService settles on.
ServiceIP(c, ip) ==
  IF hostIp # NoIP THEN hostIp
  ELSE IF ip # NoIP /\ c \in HostNet THEN ip ELSE LocalIp

AddRegister(c, i, p, o) ==
  LET g == <<c, i>>
      s == [port |-> p, ip |-> ServiceIP(c, newIP[g])]
  IN /\ pc[g] = "register" /\ p \in todo[g]
     /\ Register(EntryOf(c, s), o)
     /\ IF o # "ok" /\ todo[g] = {p}
        THEN Return(g)
        ELSE /\ Goto(g, IF o = "ok" THEN "append" ELSE "register")
             /\ todo' = [todo EXCEPT ![g] = @ \ {p}]
             /\ cur' = [cur EXCEPT ![g] = IF o = "ok" THEN {s} ELSE {}]
             /\ UNCHANGED newIP
     /\ UNCHANGED <<env, maps, mutex, syncVars, ipVars, rTodo>>

\* appendService: a container that has services already gets no more.
Appended(have, new) == IF have # {} THEN have ELSE new

\* Variant: the service is appended without b.Lock().
AddAppendUnlocked(c, i) ==
  LET g == <<c, i>>
  IN /\ pc[g] = "append"
     /\ services' = [services EXCEPT ![c] = Appended(@, cur[g])]
     /\ Return(g)
     /\ UNCHANGED <<env, remote, dead, mutex, syncVars, ipVars, rTodo>>

AddAppend(c, i) ==
  LET g == <<c, i>>
  IN /\ AtLock(g, "append")
     /\ services' = [services EXCEPT ![c] = Appended(@, cur[g])]
     /\ IF todo[g] = {} THEN Return(g)
                        ELSE /\ Goto(g, "register")
                             /\ cur' = [cur EXCEPT ![g] = {}]
                             /\ UNCHANGED <<newIP, todo>>
     /\ UNCHANGED <<env, remote, dead, mutex, syncVars, ipVars, rTodo>>

-----------------------------------------------------------------------------
(* Bridge.RemoveOnExit: shouldRemove runs before the mutex is taken.       *)

shouldRemove(c) == DeregisterAlways \/ docker[c] \in {"none", "success"}

RemoveDecide(c, i) ==
  /\ pc[<<c, i>>] = "decide"
  /\ \/ /\ Goto(<<c, i>>, IF shouldRemove(c) THEN "remove" ELSE "keep")
        /\ UNCHANGED faults
     \/ ~DeregisterAlways /\ Goto(<<c, i>>, "keep") /\ Faulty("err")
  /\ UNCHANGED <<env, registry, maps, mutex, newIP, todo, cur, syncVars,
                 ipVars, rTodo>>

\* Variant: only the dead container's services.
RemovedDead(c) == {EntryOf(c, s) : s \in dead[c].svcs}

\* What remove deregisters: the services, and those of the dead container.
Removed(c) == {EntryOf(c, s) : s \in services[c] \cup dead[c].svcs}

\* remove(c, true); the calls for the entries in failed are refused.
RemoveDeregister(c, i, failed) ==
  /\ AtLock(<<c, i>>, "remove")
  /\ registry' = {e \in registry : \A f \in Removed(c) \ failed : ~Same(e, f)}
  /\ Faulty(IF failed = {} THEN "ok" ELSE "err")
  /\ services' = [services EXCEPT ![c] = {}]
  /\ dead' = [dead EXCEPT ![c] = NoDead]
  /\ Return(<<c, i>>)
  /\ UNCHANGED <<env, mutex, syncVars, ipVars, rTodo>>

\* Variant: the services of a container that has died stay where they are.
RemoveKeepBoth(c, i) ==
  /\ AtLock(<<c, i>>, "keep")
  /\ dead' = IF RefreshTtl # 0 /\ services[c] # {}
             THEN [dead EXCEPT ![c] = [ttl |-> RefreshTtl,
                                       svcs |-> services[c]]]
             ELSE dead
  /\ Return(<<c, i>>)
  /\ UNCHANGED <<env, remote, services, mutex, syncVars, ipVars, rTodo>>

\* remove(c, false)
RemoveKeep(c, i) ==
  /\ AtLock(<<c, i>>, "keep")
  /\ dead' = IF RefreshTtl # 0 /\ services[c] # {}
             THEN [dead EXCEPT ![c] = [ttl |-> RefreshTtl,
                                       svcs |-> services[c]]]
             ELSE dead
  /\ services' = [services EXCEPT ![c] = {}]
  /\ Return(<<c, i>>)
  /\ UNCHANGED <<env, remote, mutex, syncVars, ipVars, rTodo>>

-----------------------------------------------------------------------------
(* The life of the process.                                                *)

\* Everything the process holds in memory is gone.
Exit ==
  /\ services' = [c \in Containers |-> {}]
  /\ dead' = [c \in Containers |-> NoDead]
  /\ mutex' = "free"
  /\ pc' = [g \in Goroutines |-> "none"]
  /\ newIP' = [g \in Goroutines |-> NoIP]
  /\ todo' = [g \in Goroutines |-> {}]
  /\ cur' = [g \in Goroutines |-> {}]
  /\ hostIp' = NoIP /\ discoveredIP' = NoIP
  /\ answer' = [t \in Tickers |-> NoIP]
  /\ sends' = {}
  /\ spc' = "down" /\ sIP' = NoIP
  /\ sTodo' = {} /\ sMove' = {} /\ sExt' = {} /\ rTodo' = {}

Crash ==
  /\ Up /\ crashes < MaxCrashes /\ crashes' = crashes + 1
  /\ Exit
  /\ UNCHANGED <<docker, source, events, remote>>

\* main: the address is looked up, the event listener is added, then the
\* first synchronisation pushed.  An answer that is no address is dropped.
\* (A process that ends before that has not started.)
Boot ==
  /\ spc = "down"
  /\ \/ /\ ~Lookup /\ UNCHANGED <<discoveredIP, faults>>
        /\ hostIp' = HostFlag
     \/ /\ Lookup /\ UNCHANGED faults
        /\ discoveredIP' = source /\ hostIp' = source
     \/ /\ Lookup /\ Faulty("err") /\ UNCHANGED discoveredIP
        /\ hostIp' = HostFlag
  /\ spc' = "boot" /\ sIP' = hostIp'
  /\ UNCHANGED <<env, registry, maps, mutex, goVars, answer, sends, sTodo,
                 sMove, sExt, rTodo>>

-----------------------------------------------------------------------------
(* resyncProcess, which both tickers run.                                 *)

\* The ticker can tick: it is not still busy with the last tick.
AtTick(t) == Up /\ answer[t] = NoIP /\ \A m \in sends : m[1] # t

\* The lookup, if there is one; some answers are no address.  Without it the
\* message is one without an address.
Tick(t) ==
  /\ AtTick(t)
  /\ \/ /\ ~Lookup /\ sends' = sends \cup {<<t, NoIP>>}
        /\ UNCHANGED <<answer, faults>>
     \/ /\ Lookup /\ UNCHANGED <<sends, faults>>
        /\ answer' = [answer EXCEPT ![t] = source]
     \/ /\ Lookup /\ Faulty("err") /\ UNCHANGED sends
        /\ answer' = [answer EXCEPT ![t] = BadIP]
  /\ UNCHANGED <<env, registry, maps, mutex, goVars, hostIp, discoveredIP,
                 syncVars, rTodo>>

\* The external source does not answer, however often it is asked.
TickFails(t) ==
  /\ AtTick(t)
  /\ Lookup /\ Faulty("err")
  /\ IF ExitOnIPLookupFailure
     THEN Exit
     ELSE UNCHANGED <<maps, mutex, goVars, ipVars, syncVars, rTodo>>
  /\ UNCHANGED <<env, registry>>

\* The answer is stored in discoveredIP, which is then read twice, to check
\* it and for the message; the other ticker may be storing its own answer.
\* What is not an address is kept, though there is no message.
TickStore(t) ==
  /\ answer[t] # NoIP
  /\ discoveredIP' = answer[t]
  /\ answer' = [answer EXCEPT ![t] = NoIP]
  /\ \E checked, sent \in SeenIP(answer[t], Tickers \ {t}) :
       sends' = IF checked = BadIP THEN sends ELSE sends \cup {<<t, sent>>}
  /\ UNCHANGED <<env, remote, maps, mutex, goVars, hostIp, syncVars, rTodo>>

resyncProcess(t) == Tick(t) \/ TickStore(t)

\* channelRun receives the message of a ticker.
SyncReceive(m) ==
  /\ spc = "idle"
  /\ sends' = sends \ {m}
  /\ spc' = "lock" /\ sIP' = m[2]
  /\ UNCHANGED <<env, remote, maps, mutex, goVars, hostIp, discoveredIP, answer,
                 sTodo, sMove, sExt, rTodo>>

-----------------------------------------------------------------------------
(* serviceSync, run by channelRun while it holds the mutex.                *)

Running == {c \in Containers : docker[c] = "running"}
Listed(svcs) == {c \in Containers : svcs[c] # {}}

\* Spawns a goroutine for each container of cs.
SpawnAll(cs, start, ip) ==
  \E slot \in [cs -> SyncSlots] :
    LET new == {<<c, slot[c]>> : c \in cs}
    IN /\ \A g \in new : pc[g] = "none"
       /\ pc' = [g \in Goroutines |-> IF g \in new THEN start ELSE pc[g]]
       /\ newIP' = [g \in Goroutines |-> IF g \in new THEN ip ELSE newIP[g]]
       /\ UNCHANGED <<todo, cur>>

SyncDone ==
  /\ spc' = "idle" /\ sIP' = NoIP /\ sTodo' = {} /\ sMove' = {} /\ sExt' = {}
  /\ mutex' = "free"

\* Running containers that are not tracked are added, the others reregistered.
\* A container has a free slot for what its synchronisation may spawn.
SyncList ==
  /\ spc \in {"boot", "lock"} /\ mutex = "free"
  /\ \A c \in Containers : \E i \in SyncSlots : pc[<<c, i>>] = "none"
  /\ SpawnAll(Running \ Listed(services), "revive", sIP)
  /\ sTodo' = {cs \in Containers \X Service :
                 cs[1] \in Running /\ cs[2] \in services[cs[1]]}
  /\ spc' = "rereg" /\ mutex' = "sync"
  /\ UNCHANGED <<env, remote, maps, sIP, sMove, sExt, ipVars, rTodo>>

\* ListContainers fails: the first synchronisation ends the process.
SyncListFails ==
  /\ mutex = "free" /\ Faulty("err")
  /\ \/ spc = "lock" /\ SyncDone /\ UNCHANGED <<maps, goVars, ipVars, rTodo>>
     \/ spc = "boot" /\ Exit
  /\ UNCHANGED <<env, registry>>

\* reregisterService, up to the second call when the address is a new one.
SyncReregister(c, s, o) ==
  /\ spc = "rereg" /\ <<c, s>> \in sTodo
  /\ sTodo' = sTodo \ {<<c, s>>}
  /\ \/ /\ sIP = NoIP
        /\ Register(EntryOf(c, s), o)
        /\ UNCHANGED <<spc, sMove>>
     \/ /\ sIP = s.ip /\ o = "ok"
        /\ UNCHANGED <<remote, spc, sMove>>
     \/ /\ sIP \notin {NoIP, s.ip}
        /\ Deregister(EntryOf(c, s), o)
        /\ IF o = "ok" THEN spc' = "move" /\ sMove' = {<<c, s>>}
                       ELSE UNCHANGED <<spc, sMove>>
  /\ UNCHANGED <<env, maps, mutex, goVars, sIP, sExt, ipVars, rTodo>>

\* The service has its new address whether or not Register succeeds.
SyncMove(c, s, o) ==
  LET moved == [port |-> s.port, ip |-> sIP]
  IN /\ spc = "move" /\ <<c, s>> \in sMove
     /\ services' = [services EXCEPT ![c] = (@ \ {s}) \cup {moved}]
     /\ Register(EntryOf(c, moved), o)
     /\ spc' = "rereg" /\ sMove' = {}
     /\ UNCHANGED <<env, dead, mutex, goVars, sIP, sTodo, sExt, ipVars, rTodo>>

\* Without Cleanup that is all; with it, tracked containers that have exited
\* are removed.
SyncStale ==
  /\ spc = "rereg" /\ sTodo = {}
  /\ \/ /\ ~Cleanup /\ SyncDone /\ UNCHANGED <<faults, goVars>>
     \/ /\ Cleanup /\ SyncDone /\ Faulty("err") /\ UNCHANGED goVars
     \/ /\ Cleanup
        /\ SpawnAll(Listed(services) \ Running, "decide", NoIP)
        /\ spc' = "services"
        /\ UNCHANGED <<faults, mutex, sIP, sTodo, sMove, sExt>>
  /\ UNCHANGED <<env, registry, maps, ipVars, rTodo>>

\* registry.Services(): this host's entries, or nothing at all if the adapter
\* does not list them.
SyncServices ==
  /\ spc = "services"
  /\ \/ /\ ListsServices
        /\ sExt' = registry /\ spc' = "dangling"
        /\ UNCHANGED <<faults, mutex, sIP, sTodo, sMove>>
     \/ ListsServices /\ SyncDone /\ Faulty("err")
     \/ ~ListsServices /\ SyncDone /\ UNCHANGED faults
  /\ UNCHANGED <<env, registry, maps, goVars, ipVars, rTodo>>

\* Variant: entries of this very host are left alone.
DanglingForeign(e) == e[1][1] \notin Names

\* cleanupServices: the ID is one that newService made up on this host, and no
\* tracked service has this name and container name.
Dangling(e) ==
  /\ e[1] \in Recognised
  /\ \A c \in Containers : \A s \in services[c] : KeyOf(c, s.port) # e[1]

SyncCleanup(e, o) ==
  /\ spc = "dangling" /\ e \in sExt
  /\ sExt' = sExt \ {e}
  /\ IF Dangling(e) THEN Deregister(e, o)
                    ELSE o = "ok" /\ UNCHANGED remote
  /\ UNCHANGED <<env, maps, mutex, goVars, spc, sIP, sTodo, sMove, ipVars,
                 rTodo>>

SyncEnd ==
  /\ spc = "dangling" /\ sExt = {}
  /\ SyncDone
  /\ UNCHANGED <<env, remote, maps, goVars, ipVars, rTodo>>

-----------------------------------------------------------------------------
(* The refresh and prune tickers.                                          *)

\* getServicesCopy
RefreshCopy ==
  /\ Up /\ RefreshTtl > 0 /\ mutex = "free" /\ rTodo = {}
  /\ rTodo' = UNION {{EntryOf(c, s) : s \in services[c]} : c \in Containers}
  /\ UNCHANGED <<env, remote, maps, mutex, goVars, ipVars, syncVars>>

\* Variant: a dropped entry is not registered again.
RefreshesPresent(e) == e \in registry

\* The adapter's Refresh: nothing (consul, consulkv), the same as Register
\* (etcd, skydns2, zookeeper), or Register if there is no entry (eureka).
Refreshes(e) ==
  \/ RefreshMode = "register"
  \/ RefreshMode = "heartbeat" /\ \A f \in registry : ~Same(e, f)

RefreshOne(e, o) ==
  /\ e \in rTodo
  /\ rTodo' = rTodo \ {e}
  /\ IF Refreshes(e) THEN Register(e, o)
                     ELSE o = "ok" /\ UNCHANGED remote
  /\ UNCHANGED <<env, maps, mutex, goVars, ipVars, syncVars>>

\* Variant: the time to live is only looked at.
PrunedUncounted(d) == IF d.ttl <= 0 THEN NoDead ELSE d

\* PruneDeadContainers, for one container.
Pruned(d) == IF d.ttl - RefreshInterval <= 0
             THEN NoDead ELSE [d EXCEPT !.ttl = @ - RefreshInterval]

Prune ==
  /\ Up /\ RefreshTtl > 0 /\ mutex = "free"
  /\ dead' = [c \in Containers |-> Pruned(dead[c])]
  /\ UNCHANGED <<env, remote, services, mutex, goVars, ipVars, syncVars,
                 rTodo>>

-----------------------------------------------------------------------------
Init ==
  /\ docker \in [Containers -> {"none", "running"}]
  /\ \A c, d \in Containers :
       docker[c] = "running" /\ docker[d] = "running" /\ NameOf[c] = NameOf[d]
         => c = d
  /\ registry = InitialEntries
  /\ services = [c \in Containers |-> {}]
  /\ dead = [c \in Containers |-> NoDead]
  /\ mutex = "free"
  /\ source = LocalIp
  /\ hostIp = NoIP /\ discoveredIP = NoIP
  /\ answer = [t \in Tickers |-> NoIP]
  /\ sends = {}
  /\ pc = [g \in Goroutines |-> "none"]
  /\ newIP = [g \in Goroutines |-> NoIP]
  /\ todo = [g \in Goroutines |-> {}]
  /\ cur = [g \in Goroutines |-> {}]
  /\ spc = "down" /\ sIP = NoIP
  /\ sTodo = {} /\ sMove = {} /\ sExt = {} /\ rTodo = {}
  /\ events = 0 /\ faults = 0 /\ crashes = 0

AddStep(c, i) ==
  \/ AddRevive(c, i) \/ AddCheck(c, i) \/ AddInspect(c, i)
  \/ \E p \in Ports, o \in Outcome : AddRegister(c, i, p, o)
  \/ AddAppend(c, i)

RemoveStep(c, i) ==
  \/ RemoveDecide(c, i) \/ RemoveKeep(c, i)
  \/ \E failed \in SUBSET Removed(c) : RemoveDeregister(c, i, failed)

GoroutineStep(c, i) == AddStep(c, i) \/ RemoveStep(c, i)

SyncStep ==
  \/ \E m \in sends : SyncReceive(m)
  \/ SyncList \/ SyncListFails \/ SyncStale \/ SyncServices \/ SyncEnd
  \/ \E c \in Containers, s \in Service, o \in Outcome :
       SyncReregister(c, s, o) \/ SyncMove(c, s, o)
  \/ \E e \in sExt, o \in Outcome : SyncCleanup(e, o)

RefreshStep ==
  \/ RefreshCopy
  \/ \E e \in rTodo, o \in Outcome : RefreshOne(e, o)

TickStep == \E t \in Tickers : resyncProcess(t) \/ TickFails(t)

HostStep ==
  \/ \E c \in Containers :
       \/ StartContainer(c) \/ RemoveContainer(c)
       \/ \E how \in {"success", "failure"} : StopContainer(c, how)
  \/ \E ip \in IPs : MoveHost(ip)

Next ==
  \/ HostStep
  \/ \E e \in registry : LoseEntry(e) \/ Expire(e)
  \/ \E c \in Containers, i \in Slots : GoroutineStep(c, i)
  \/ Boot \/ Crash \/ TickStep \/ SyncStep
  \/ RefreshStep \/ Prune

Spec == Init /\ [][Next]_vars

\* The tickers keep ticking, a goroutine that can run does, and one that
\* waits for the mutex gets it when it is free often enough.
Fairness ==
  /\ WF_vars(Boot) /\ WF_vars(SyncStep)
  /\ \A t \in Tickers : WF_vars(resyncProcess(t))
  /\ \A c \in Containers, i \in Slots : SF_vars(GoroutineStep(c, i))
  /\ RefreshTtl > 0 => /\ SF_vars(RefreshStep) /\ SF_vars(Prune)
                       /\ WF_vars(\E e \in registry : Expire(e))

FairSpec == Spec /\ Fairness

-----------------------------------------------------------------------------
\* The bridge knows of the entry, so that it will deregister or refresh it.
Tracked(e) ==
  \E c \in Containers : \E s \in services[c] \cup dead[c].svcs :
    Same(e, EntryOf(c, s))

InFlight(e) ==
  \E c \in Containers, i \in Slots : \E s \in cur[<<c, i>>] :
    Same(e, EntryOf(c, s))

Orphan(e) == ~Tracked(e) /\ ~InFlight(e)

\* Nothing but the code of the bridge can leave an entry behind: no call
\* fails, the process does not crash, exits always deregister and Refresh
\* does not write.
Reliable ==
  /\ MaxFaults = 0 /\ MaxCrashes = 0 /\ InitialEntries = {}
  /\ DeregisterAlways /\ RefreshMode = "noop" /\ ~KeyedByAddress

SinglePort == \A c \in Containers : \A p, q \in PortsOf[c] : p = q

\* Add registers before it tracks, remove deregisters while it untracks and
\* nothing serialises the two: still, when containers have one service each,
\* every entry is tracked or held by an add that is about to track it.
NoOrphan == Reliable /\ SinglePort => \A e \in registry : ~Orphan(e)

\* The same for containers with any number of services.
NoOrphanAnyPorts == Reliable => \A e \in registry : ~Orphan(e)

\* While serviceSync iterates over a snapshot of the services, which it reads
\* before its remote calls, everything it has still to reregister remains
\* tracked: no goroutine gets past the mutex it holds.
SyncSnapshotHolds ==
  /\ spc \in {"rereg", "move", "services", "dangling"} <=> mutex = "sync"
  /\ \A cs \in sTodo \cup sMove : cs[2] \in services[cs[1]]

\* A goroutine never ends while it holds the mutex; "already exists,
\* ignoring" says the duplicate add has no effect.
MutexReleased == ~Hung

\* Cleanup removes dangling services: no entry that it deregisters is one of
\* a running container.
CleanupOnlyDangling ==
  [][\A e \in (sExt \ sExt') \cap (registry \ registry') :
       \A c \in Running : \A p \in PortsOf[c] : KeyOf(c, p) # e[1]]_vars

\* Once an add has leaked the mutex the bridge is frozen until the process
\* ends: nothing is tracked, untracked, revived or pruned any more, and no
\* synchronisation starts.
FrozenOnceHung ==
  [][Hung => \/ UNCHANGED <<maps, mutex, sTodo>>
             \/ spc' = "down"]_vars

\* The address the services of a running container should be found at.
RightIP ==
  IF Lookup THEN source ELSE IF HostFlag # NoIP THEN HostFlag ELSE LocalIp

Wanted ==
  UNION {{<<KeyOf(c, p), RightIP>> : p \in PortsOf[c]} : c \in Running}

\* The registry is right, but for entries under IDs that cleanupServices does
\* not take for its own.
InSync ==
  /\ Wanted \subseteq registry
  /\ \A e \in registry \ Wanted : e[1] \notin Recognised

\* Whatever was missed, failed or lost, resynchronisation brings the registry
\* to the services of the running containers, and keeps it there, unless the
\* bridge hangs: every one of them at the right address, and nothing else
\* under an ID that cleanupServices recognises.
Converges == <>[]Hung \/ <>[]InSync

\* A dead container is remembered only for a time: it is pruned, revived or
\* removed, unless the bridge hangs.
DeadForgotten ==
  \A c \in Containers : []<>(dead[c].ttl = 0 \/ Hung)

=============================================================================
