----------------------------- MODULE TypeProofs -----------------------------
(* Type correctness of Bridge, group of variables by group of variables.   *)
EXTENDS Bridge, TLAPS

PCs == {"none", "revive", "check", "inspect", "register", "append", "decide",
        "remove", "keep"}

EnvOK ==
  /\ docker \in [Containers -> {"none", "running", "success", "failure"}]
  /\ source \in IPs
  /\ events \in 0..MaxEvents /\ crashes \in 0..MaxCrashes

RemoteOK == registry \subseteq Entry /\ faults \in 0..MaxFaults

MapsOK ==
  /\ services \in [Containers -> SUBSET Service]
  /\ dead \in [Containers -> [ttl : 0..RefreshTtl, svcs : SUBSET Service]]

MutexOK == mutex \in {"free", "sync", "leaked"}

GoOK ==
  /\ pc \in [Goroutines -> PCs]
  /\ newIP \in [Goroutines -> Address \cup {NoIP}]
  /\ todo \in [Goroutines -> SUBSET Ports]
  /\ cur \in [Goroutines -> SUBSET Service]

IpOK ==
  /\ hostIp \in IPs \cup {NoIP}
  /\ discoveredIP \in Address \cup {NoIP}
  /\ answer \in [Tickers -> Address \cup {NoIP}]
  /\ sends \subseteq Tickers \X (Address \cup {NoIP})

SyncOK ==
  /\ spc \in {"down", "boot", "idle", "lock", "rereg", "move", "services",
              "dangling"}
  /\ sIP \in Address \cup {NoIP}
  /\ sTodo \subseteq Containers \X Service
  /\ sMove \subseteq Containers \X Service
  /\ sExt \subseteq Entry

RefreshOK == rTodo \subseteq Entry

\* The type invariant is that of all groups of variables ...
LEMMA TypeSplit ==
  TypeOK <=> /\ EnvOK /\ RemoteOK /\ MapsOK /\ MutexOK /\ GoOK /\ IpOK
             /\ SyncOK /\ RefreshOK
BY DEF TypeOK, EnvOK, RemoteOK, MapsOK, MutexOK, GoOK, PCs, IpOK, SyncOK,
   RefreshOK

\* ... before and after a step.
LEMMA TypeSplitNext ==
  TypeOK' <=> /\ EnvOK' /\ RemoteOK' /\ MapsOK' /\ MutexOK' /\ GoOK' /\ IpOK'
              /\ SyncOK' /\ RefreshOK'
BY DEF TypeOK, EnvOK, RemoteOK, MapsOK, MutexOK, GoOK, PCs, IpOK, SyncOK,
   RefreshOK

\* A group of variables that does not change keeps its type.
LEMMA Untouched ==
  /\ EnvOK /\ UNCHANGED env => EnvOK'
  /\ RemoteOK /\ UNCHANGED remote => RemoteOK'
  /\ MapsOK /\ UNCHANGED maps => MapsOK'
  /\ MutexOK /\ UNCHANGED mutex => MutexOK'
  /\ GoOK /\ UNCHANGED goVars => GoOK'
  /\ IpOK /\ UNCHANGED ipVars => IpOK'
  /\ SyncOK /\ UNCHANGED syncVars => SyncOK'
  /\ RefreshOK /\ UNCHANGED rTodo => RefreshOK'
<1>1. EnvOK /\ UNCHANGED env => EnvOK'
  BY DEF EnvOK, env
<1>2. RemoteOK /\ UNCHANGED remote => RemoteOK'
  BY DEF RemoteOK, remote
<1>3. MapsOK /\ UNCHANGED maps => MapsOK'
  BY DEF MapsOK, maps
<1>4. GoOK /\ UNCHANGED goVars => GoOK'
  BY DEF GoOK, goVars
<1>5. IpOK /\ UNCHANGED ipVars => IpOK'
  BY DEF IpOK, ipVars
<1>6. SyncOK /\ UNCHANGED syncVars => SyncOK'
  BY DEF SyncOK, syncVars
<1> QED BY <1>1, <1>2, <1>3, <1>4, <1>5, <1>6 DEF MutexOK, RefreshOK

-----------------------------------------------------------------------------
(* The operators that several actions share.                               *)

LEMMA GotoType ==
  ASSUME NEW g \in Goroutines, NEW l \in PCs, GoOK, Goto(g, l)
  PROVE  pc' \in [Goroutines -> PCs]
BY DEF GoOK, Goto

LEMMA ReturnType ==
  ASSUME NEW g \in Goroutines, GoOK, Return(g)
  PROVE  GoOK'
BY Zenon DEF GoOK, Return, Goto, PCs

LEMMA SpawnType ==
  ASSUME NEW g \in Goroutines, NEW l \in PCs, NEW ip \in Address \cup {NoIP},
         GoOK, Spawn(g, l, ip)
  PROVE  GoOK'
BY DEF GoOK, Spawn

LEMMA SpawnAllType ==
  ASSUME NEW cs, NEW l \in PCs, NEW ip \in Address \cup {NoIP}, GoOK,
         SpawnAll(cs, l, ip)
  PROVE  GoOK'
BY DEF GoOK, SpawnAll

LEMMA FaultyType ==
  ASSUME NEW o \in Outcome, RemoteOK, Faulty(o)
  PROVE  faults' \in 0..MaxFaults
BY BridgeAssumption DEF RemoteOK, Faulty

LEMMA FaultType ==
  ASSUME RemoteOK, UNCHANGED registry, UNCHANGED faults \/ Faulty("err")
  PROVE  RemoteOK'
BY FaultyType DEF RemoteOK, Outcome

LEMMA EntryType ==
  ASSUME NEW c \in Containers, NEW s \in Service
  PROVE  EntryOf(c, s) \in Entry
BY BridgeAssumption DEF EntryOf, KeyOf, Entry, Key, Service

LEMMA RegisterType ==
  ASSUME NEW e \in Entry, NEW o \in Outcome, RemoteOK,
         Register(e, o) \/ Deregister(e, o)
  PROVE  RemoteOK'
BY FaultyType DEF RemoteOK, Register, Deregister, Without

LEMMA ServiceIPType ==
  ASSUME NEW c \in Containers, NEW ip \in Address \cup {NoIP}, IpOK
  PROVE  ServiceIP(c, ip) \in Address
BY BridgeAssumption DEF ServiceIP, IpOK, Address

LEMMA ExitType ==
  ASSUME Exit
  PROVE  MapsOK' /\ MutexOK' /\ GoOK' /\ IpOK' /\ SyncOK' /\ RefreshOK'
<1>1. MapsOK' /\ MutexOK'
  BY TtlAssumption DEF Exit, MapsOK, MutexOK, NoDead
<1>2. GoOK'
  BY DEF Exit, GoOK, PCs
<1>3. IpOK' /\ SyncOK' /\ RefreshOK'
  BY DEF Exit, IpOK, SyncOK, RefreshOK
<1> QED BY <1>1, <1>2, <1>3

LEMMA SyncDoneType ==
  ASSUME SyncDone
  PROVE  MutexOK' /\ SyncOK'
BY DEF SyncDone, MutexOK, SyncOK

-----------------------------------------------------------------------------
(* The steps: each lemma shows the groups that its actions change, and      *)
(* Untouched the others.                                                   *)

\* Types at the start.
LEMMA InitTypeOK == Init => TypeOK
<1> SUFFICES ASSUME Init PROVE TypeOK
  OBVIOUS
<1>1. EnvOK /\ RemoteOK
  BY BridgeAssumption DEF Init, EnvOK, RemoteOK
<1>2. MapsOK /\ MutexOK
  BY TtlAssumption DEF Init, MapsOK, MutexOK, NoDead
<1>3. GoOK
  BY DEF Init, GoOK, PCs
<1>4. IpOK /\ SyncOK /\ RefreshOK
  BY DEF Init, IpOK, SyncOK, RefreshOK
<1> QED BY <1>1, <1>2, <1>3, <1>4, TypeSplit

\* What is read of an address without a lock is a string that is empty or not.
LEMMA SeenType ==
  ASSUME IpOK, NEW ip \in Address \cup {NoIP}, NEW ts \in SUBSET Tickers
  PROVE  SeenIP(ip, ts) \subseteq Address \cup {NoIP}
BY DEF SeenIP, IpOK, Address

\* Types after a step of Docker or the host.
LEMMA HostTypeOK == TypeOK /\ HostStep => TypeOK'
<1> SUFFICES ASSUME TypeOK, HostStep PROVE TypeOK'
  OBVIOUS
<1>1. EnvOK /\ GoOK /\ IpOK
  BY TypeSplit
<1>2. ASSUME NEW c \in Containers, StartContainer(c) PROVE EnvOK' /\ GoOK'
  <2>1. GoOK'
    <3>1. CASE Up
      <4>1. PICK i \in EventSlots, ip \in SeenIP(discoveredIP, Tickers) :
              Spawn(<<c, i>>, "revive", ip)
        BY <1>2, <3>1 DEF StartContainer
      <4>2. <<c, i>> \in Goroutines /\ ip \in Address \cup {NoIP}
        BY <1>1, <4>1, SeenType DEF IpOK, Goroutines, Slots
      <4> QED BY <1>1, <4>1, <4>2, SpawnType DEF PCs
    <3>2. CASE ~Up
      BY <1>1, <1>2, <3>2, Untouched DEF StartContainer
    <3> QED BY <3>1, <3>2
  <2>2. EnvOK'
    BY <1>1, <1>2, BridgeAssumption DEF EnvOK, StartContainer
  <2> QED BY <2>1, <2>2
<1>3. ASSUME NEW c \in Containers, NEW how \in {"success", "failure"},
             StopContainer(c, how)
      PROVE  EnvOK' /\ GoOK'
  <2>1. GoOK'
    <3>1. CASE Up
      <4>1. PICK i \in EventSlots : Spawn(<<c, i>>, "decide", NoIP)
        BY <1>3, <3>1 DEF StopContainer
      <4>2. <<c, i>> \in Goroutines
        BY <4>1 DEF Goroutines, Slots
      <4> QED BY <1>1, <4>1, <4>2, SpawnType DEF PCs
    <3>2. CASE ~Up
      BY <1>1, <1>3, <3>2, Untouched DEF StopContainer
    <3> QED BY <3>1, <3>2
  <2>2. EnvOK'
    BY <1>1, <1>3, BridgeAssumption DEF EnvOK, StopContainer
  <2> QED BY <2>1, <2>2
<1>4. ASSUME NEW c \in Containers, RemoveContainer(c) PROVE EnvOK' /\ GoOK'
  BY <1>1, <1>4, Untouched DEF EnvOK, RemoveContainer
<1>5. ASSUME NEW ip \in IPs, MoveHost(ip) PROVE EnvOK' /\ GoOK'
  BY <1>1, <1>5, BridgeAssumption, Untouched DEF EnvOK, MoveHost
<1>6. EnvOK' /\ GoOK'
  BY <1>2, <1>3, <1>4, <1>5 DEF HostStep
<1>7. UNCHANGED <<remote, maps, mutex, ipVars, syncVars, rTodo>>
  BY DEF HostStep, StartContainer, StopContainer, RemoveContainer, MoveHost
<1> QED BY <1>6, <1>7, Untouched, TypeSplit, TypeSplitNext

\* Types after a step of Bridge.add.
LEMMA AddTypeOK ==
  ASSUME NEW c \in Containers, NEW i \in Slots, TypeOK, AddStep(c, i)
  PROVE  TypeOK'
<1> DEFINE g == <<c, i>>
<1>1. g \in Goroutines /\ RemoteOK /\ MapsOK /\ GoOK /\ IpOK
  BY TypeSplit DEF Goroutines
<1> HIDE DEF g
<1>2. CASE AddRevive(c, i)
  <2>1. /\ Goto(g, "check")
        /\ UNCHANGED <<newIP, todo, cur>>
        /\ UNCHANGED <<env, remote, mutex, syncVars, ipVars, rTodo>>
    BY <1>2 DEF AddRevive, g
  <2>2. GoOK'
    BY <1>1, <2>1, GotoType DEF PCs, GoOK
  <2>3. MapsOK'
    BY <1>1, <1>2, TtlAssumption DEF MapsOK, AddRevive, NoDead
  <2> QED BY <2>1, <2>2, <2>3, Untouched, TypeSplit, TypeSplitNext
<1>3. CASE AddCheck(c, i)
  <2>1. MutexOK' /\ UNCHANGED <<env, remote, maps, syncVars, ipVars, rTodo>>
    BY <1>3 DEF AddCheck, AtLock, MutexOK
  <2>2. GoOK'
    <3>1. CASE services[c] # {}
      BY <1>1, <1>3, <3>1, ReturnType, Zenon DEF AddCheck, g
    <3>2. CASE services[c] = {}
      <4>1. Goto(g, "inspect") /\ UNCHANGED <<newIP, todo, cur>>
        BY <1>3, <3>2, Zenon DEF AddCheck, g
      <4> QED BY <1>1, <4>1, GotoType DEF GoOK, PCs
    <3> QED BY <3>1, <3>2, Zenon
  <2> QED BY <2>1, <2>2, Untouched, TypeSplit, TypeSplitNext, Zenon
<1>4. CASE AddInspect(c, i)
  <2>1. /\ \/ /\ Goto(g, "register")
              /\ todo' = [todo EXCEPT ![g] = PortsOf[c]]
              /\ UNCHANGED <<newIP, cur>>
           \/ Return(g)
        /\ UNCHANGED faults \/ Faulty("err")
        /\ UNCHANGED registry
        /\ UNCHANGED <<env, maps, mutex, syncVars, ipVars, rTodo>>
    BY <1>4, Zenon DEF AddInspect, g
  <2>2. GoOK'
    BY <1>1, <2>1, GotoType, ReturnType, BridgeAssumption DEF GoOK, PCs
  <2>3. RemoteOK'
    BY <1>1, <2>1, FaultType
  <2> QED BY <2>1, <2>2, <2>3, Untouched, TypeSplit, TypeSplitNext
<1>5. ASSUME NEW p \in Ports, NEW o \in Outcome, AddRegister(c, i, p, o)
      PROVE  TypeOK'
  <2> DEFINE s == [port |-> p, ip |-> ServiceIP(c, newIP[g])]
  <2>1. s \in Service
    BY <1>1, ServiceIPType, SMTT(30) DEF Service, GoOK
  <2> HIDE DEF s
  <2>2. /\ Register(EntryOf(c, s), o)
        /\ \/ Return(g)
           \/ /\ Goto(g, "append") \/ Goto(g, "register")
              /\ todo' = [todo EXCEPT ![g] = @ \ {p}]
              /\ cur' = [cur EXCEPT ![g] = {s}] \/ cur' = [cur EXCEPT ![g] = {}]
              /\ UNCHANGED newIP
    BY <1>5 DEF AddRegister, g, s
  <2>3. UNCHANGED <<env, maps, mutex, syncVars, ipVars, rTodo>>
    BY <1>5, Zenon DEF AddRegister
  <2>4. GoOK'
    <3>1. CASE Return(g)
      BY <1>1, <3>1, ReturnType
    <3>2. CASE ~Return(g)
      <4>1. pc' \in [Goroutines -> PCs]
        BY <1>1, <2>2, <3>2, GotoType DEF PCs
      <4> QED BY <1>1, <2>1, <2>2, <3>2, <4>1 DEF GoOK
    <3> QED BY <3>1, <3>2
  <2>5. RemoteOK'
    BY <1>1, <2>1, <2>2, EntryType, RegisterType
  <2> QED BY <2>3, <2>4, <2>5, Untouched, TypeSplit, TypeSplitNext
<1>6. CASE AddAppend(c, i)
  <2>1. /\ services' = [services EXCEPT ![c] = Appended(@, cur[g])]
        /\ \/ Return(g)
           \/ /\ Goto(g, "register") /\ cur' = [cur EXCEPT ![g] = {}]
              /\ UNCHANGED <<newIP, todo>>
    BY <1>6 DEF AddAppend, g
  <2>2. UNCHANGED dead /\ UNCHANGED <<env, remote, mutex, syncVars, ipVars, rTodo>>
    BY <1>6, Zenon DEF AddAppend
  <2>3. GoOK'
    BY <1>1, <2>1, GotoType, ReturnType DEF GoOK, PCs
  <2>4. MapsOK'
    BY <1>1, <2>1, <2>2 DEF MapsOK, GoOK, Appended
  <2> QED BY <2>2, <2>3, <2>4, Untouched, TypeSplit, TypeSplitNext
<1> QED BY <1>2, <1>3, <1>4, <1>5, <1>6 DEF AddStep

\* Types after a step of RemoveOnExit.
LEMMA RemoveTypeOK ==
  ASSUME NEW c \in Containers, NEW i \in Slots, TypeOK, RemoveStep(c, i)
  PROVE  TypeOK'
<1> DEFINE g == <<c, i>>
<1>1. g \in Goroutines /\ RemoteOK /\ MapsOK /\ GoOK
  BY TypeSplit DEF Goroutines
<1> HIDE DEF g
<1>2. CASE RemoveDecide(c, i)
  <2>1. /\ Goto(g, "remove") \/ Goto(g, "keep")
        /\ UNCHANGED faults \/ Faulty("err")
        /\ UNCHANGED <<registry, newIP, todo, cur>>
        /\ UNCHANGED <<env, maps, mutex, syncVars, ipVars, rTodo>>
    BY <1>2, Zenon DEF RemoveDecide, g
  <2>2. GoOK'
    BY <1>1, <2>1, GotoType DEF PCs, GoOK
  <2>3. RemoteOK'
    BY <1>1, <2>1, FaultType
  <2> QED BY <2>1, <2>2, <2>3, Untouched, TypeSplit, TypeSplitNext
<1>3. CASE RemoveKeep(c, i)
  <2>1. Return(g) /\ UNCHANGED <<env, remote, mutex, syncVars, ipVars, rTodo>>
    BY <1>3 DEF RemoveKeep, g
  <2>2. MapsOK'
    BY <1>1, <1>3, TtlAssumption DEF MapsOK, RemoveKeep
  <2> QED BY <1>1, <2>1, <2>2, ReturnType, Untouched, TypeSplit, TypeSplitNext
<1>4. ASSUME NEW failed \in SUBSET Removed(c), RemoveDeregister(c, i, failed)
      PROVE  TypeOK'
  <2>1. Return(g) /\ UNCHANGED <<env, mutex, syncVars, ipVars, rTodo>>
    BY <1>4 DEF RemoveDeregister, g
  <2>2. MapsOK'
    BY <1>1, <1>4, TtlAssumption DEF MapsOK, RemoveDeregister, NoDead
  <2>3. RemoteOK'
    <3>1. registry' \subseteq registry /\ (Faulty("ok") \/ Faulty("err"))
      BY <1>4 DEF RemoveDeregister
    <3> QED BY <1>1, <3>1, FaultyType DEF RemoteOK, Outcome
  <2> QED BY <1>1, <2>1, <2>2, <2>3, ReturnType, Untouched, TypeSplit,
             TypeSplitNext
<1> QED BY <1>2, <1>3, <1>4 DEF RemoveStep

\* What TypeOK needs to be inductive: reregisterService moves a service only
\* to an address that the message gave.
MoveHasAddress == spc = "move" => sIP # NoIP

\* Types after a step of channelRun.
LEMMA SyncTypeOK == TypeOK /\ MoveHasAddress /\ SyncStep => TypeOK'
<1> SUFFICES ASSUME TypeOK, MoveHasAddress, SyncStep PROVE TypeOK'
  OBVIOUS
<1>1. RemoteOK /\ MapsOK /\ MutexOK /\ GoOK /\ IpOK /\ SyncOK
  BY TypeSplit
<1>2. CASE SyncList
  <2>1. /\ SpawnAll(Running \ Listed(services), "revive", sIP)
        /\ UNCHANGED <<env, remote, maps, ipVars, rTodo>>
    BY <1>2, Zenon DEF SyncList
  <2>2. SyncOK' /\ MutexOK'
    <3>1. /\ spc' = "rereg" /\ mutex' = "sync" /\ UNCHANGED <<sIP, sMove, sExt>>
          /\ sTodo' \subseteq Containers \X Service
      BY <1>2, Zenon DEF SyncList
    <3> QED BY <1>1, <3>1 DEF SyncOK, MutexOK
  <2>3. sIP \in Address \cup {NoIP}
    BY <1>1 DEF SyncOK, Address
  <2>4. GoOK'
    BY <1>1, <2>1, <2>3, SpawnAllType DEF PCs
  <2> QED BY <2>1, <2>2, <2>4, Untouched, TypeSplit, TypeSplitNext, SMTT(30)
<1>3. CASE SyncListFails
  <2>1. /\ Faulty("err") /\ UNCHANGED registry /\ UNCHANGED env
        /\ \/ SyncDone /\ UNCHANGED <<maps, goVars, ipVars, rTodo>>
           \/ Exit
    BY <1>3 DEF SyncListFails
  <2>2. RemoteOK'
    BY <1>1, <2>1, FaultType
  <2> QED BY <2>1, <2>2, SyncDoneType, ExitType, Untouched, TypeSplit,
             TypeSplitNext
<1>4. CASE SyncStale
  <2>1. /\ UNCHANGED registry /\ UNCHANGED <<env, maps, ipVars, rTodo>>
        /\ UNCHANGED faults \/ Faulty("err")
        /\ \/ UNCHANGED goVars
           \/ SpawnAll(Listed(services) \ Running, "decide", NoIP)
    BY <1>4 DEF SyncStale
  <2>2. SyncOK' /\ MutexOK'
    BY <1>1, <1>4, SyncDoneType DEF SyncStale, SyncOK, MutexOK
  <2>3. SpawnAll(Listed(services) \ Running, "decide", NoIP) => GoOK'
    BY <1>1, SpawnAllType DEF PCs
  <2>4. RemoteOK'
    BY <1>1, <2>1, FaultType
  <2> QED BY <2>1, <2>2, <2>3, <2>4, Untouched, TypeSplit, TypeSplitNext
<1>5. CASE SyncServices \/ SyncEnd
  <2>1. /\ UNCHANGED registry /\ UNCHANGED <<env, maps, goVars, ipVars, rTodo>>
        /\ UNCHANGED faults \/ Faulty("err")
    BY <1>5 DEF SyncServices, SyncEnd, remote
  <2>2. SyncOK' /\ MutexOK'
    BY <1>1, <1>5, SyncDoneType
    DEF SyncServices, SyncEnd, SyncOK, MutexOK, RemoteOK
  <2>3. RemoteOK'
    BY <1>1, <2>1, FaultType
  <2> QED BY <2>1, <2>2, <2>3, Untouched, TypeSplit, TypeSplitNext
<1>6. ASSUME NEW c \in Containers, NEW s \in Service, NEW o \in Outcome,
             SyncReregister(c, s, o)
      PROVE  TypeOK'
  <2>1. /\ \/ Register(EntryOf(c, s), o) \/ Deregister(EntryOf(c, s), o)
           \/ UNCHANGED remote
        /\ UNCHANGED <<env, maps, mutex, goVars, ipVars, rTodo>>
    BY <1>6 DEF SyncReregister
  <2>2. RemoteOK'
    BY <1>1, <2>1, EntryType, RegisterType, Untouched
  <2>3. SyncOK'
    BY <1>1, <1>6 DEF SyncReregister, SyncOK
  <2> QED BY <2>1, <2>2, <2>3, Untouched, TypeSplit, TypeSplitNext
<1>7. ASSUME NEW c \in Containers, NEW s \in Service, NEW o \in Outcome,
             SyncMove(c, s, o)
      PROVE  TypeOK'
  <2> DEFINE moved == [port |-> s.port, ip |-> sIP]
  <2>1. moved \in Service
    BY <1>1, <1>7 DEF SyncMove, MoveHasAddress, SyncOK, Service, Address
  <2> HIDE DEF moved
  <2>2. /\ Register(EntryOf(c, moved), o)
        /\ services' = [services EXCEPT ![c] = (@ \ {s}) \cup {moved}]
        /\ UNCHANGED dead
        /\ UNCHANGED <<env, mutex, goVars, ipVars, rTodo>>
    BY <1>7 DEF SyncMove, moved
  <2>3. RemoteOK'
    BY <1>1, <2>1, <2>2, EntryType, RegisterType
  <2>4. MapsOK'
    BY <1>1, <2>1, <2>2 DEF MapsOK
  <2>5. SyncOK'
    BY <1>1, <1>7 DEF SyncMove, SyncOK
  <2> QED BY <2>2, <2>3, <2>4, <2>5, Untouched, TypeSplit, TypeSplitNext
<1>8. ASSUME NEW e \in sExt, NEW o \in Outcome, SyncCleanup(e, o)
      PROVE  TypeOK'
  <2>1. /\ Deregister(e, o) \/ UNCHANGED remote
        /\ UNCHANGED <<env, maps, mutex, goVars, ipVars, rTodo>>
    BY <1>8 DEF SyncCleanup
  <2>2. SyncOK' /\ e \in Entry
    BY <1>1, <1>8 DEF SyncCleanup, SyncOK
  <2>3. RemoteOK'
    BY <1>1, <2>1, <2>2, RegisterType, Untouched
  <2> QED BY <2>1, <2>2, <2>3, Untouched, TypeSplit, TypeSplitNext
<1>9. ASSUME NEW m \in sends, SyncReceive(m) PROVE TypeOK'
  <2>1. UNCHANGED <<env, remote, maps, mutex, goVars, rTodo>>
    BY <1>9 DEF SyncReceive
  <2>2. SyncOK' /\ IpOK'
    BY <1>1, <1>9 DEF SyncReceive, SyncOK, IpOK
  <2> QED BY <2>1, <2>2, Untouched, TypeSplit, TypeSplitNext
<1> QED BY <1>2, <1>3, <1>4, <1>5, <1>6, <1>7, <1>8, <1>9 DEF SyncStep

\* Types after any step.
LEMMA NextTypeOK == TypeOK /\ MoveHasAddress /\ [Next]_vars => TypeOK'
<1> SUFFICES ASSUME TypeOK, MoveHasAddress, [Next]_vars PROVE TypeOK'
  OBVIOUS
<1>1. EnvOK /\ RemoteOK /\ MapsOK /\ IpOK /\ SyncOK /\ RefreshOK
  BY TypeSplit
<1>2. ASSUME NEW e \in registry, LoseEntry(e) \/ Expire(e) PROVE TypeOK'
  <2>1. /\ \E o \in Outcome : Deregister(e, o)
        /\ UNCHANGED <<env, maps, mutex, goVars, syncVars, ipVars, rTodo>>
    BY <1>2 DEF LoseEntry, Expire, Outcome
  <2>2. RemoteOK'
    BY <1>1, <2>1, RegisterType DEF RemoteOK
  <2> QED BY <2>1, <2>2, Untouched, TypeSplit, TypeSplitNext
<1>3. CASE Boot
  <2>1. /\ UNCHANGED registry /\ UNCHANGED <<env, maps, mutex, goVars, rTodo>>
        /\ UNCHANGED faults \/ Faulty("err")
    BY <1>3 DEF Boot
  <2>2. RemoteOK'
    BY <1>1, <2>1, FaultType
  <2>3. IpOK' /\ SyncOK'
    BY <1>1, <1>3, BridgeAssumption DEF Boot, EnvOK, IpOK, SyncOK, Address
  <2> QED BY <2>1, <2>2, <2>3, Untouched, TypeSplit, TypeSplitNext
<1>4. ASSUME NEW t \in Tickers, Tick(t) PROVE TypeOK'
  <2>1. /\ UNCHANGED registry
        /\ UNCHANGED <<env, maps, mutex, goVars, syncVars, rTodo>>
        /\ UNCHANGED faults \/ Faulty("err")
    BY <1>4 DEF Tick
  <2>2. RemoteOK'
    BY <1>1, <2>1, FaultType
  <2>3. IpOK'
    BY <1>1, <1>4 DEF Tick, EnvOK, IpOK, Address
  <2> QED BY <2>1, <2>2, <2>3, Untouched, TypeSplit, TypeSplitNext
<1>5. ASSUME NEW t \in Tickers, TickFails(t) PROVE TypeOK'
  <2>1. /\ UNCHANGED registry /\ UNCHANGED env /\ Faulty("err")
        /\ Exit \/ UNCHANGED <<maps, mutex, goVars, ipVars, syncVars, rTodo>>
    BY <1>5 DEF TickFails
  <2>2. RemoteOK'
    BY <1>1, <2>1, FaultType
  <2> QED BY <2>1, <2>2, ExitType, Untouched, TypeSplit, TypeSplitNext
<1>6. CASE Crash
  <2>1. Exit /\ UNCHANGED remote
    BY <1>6 DEF Crash
  <2>2. EnvOK'
    BY <1>1, <1>6, BridgeAssumption DEF Crash, EnvOK
  <2> QED BY <2>1, <2>2, ExitType, Untouched, TypeSplit, TypeSplitNext
<1>7. CASE RefreshCopy
  <2>1. UNCHANGED <<env, remote, maps, mutex, goVars, ipVars, syncVars>>
    BY <1>7 DEF RefreshCopy
  <2>2. RefreshOK'
    <3>1. ASSUME NEW e \in rTodo' PROVE e \in Entry
      <4>1. PICK c \in Containers : e \in {EntryOf(c, s) : s \in services[c]}
        BY <1>7, <3>1, Zenon DEF RefreshCopy
      <4>2. PICK s \in services[c] : e = EntryOf(c, s)
        BY <4>1
      <4>3. s \in Service
        BY <1>1, <4>2 DEF MapsOK
      <4> QED BY <4>2, <4>3, EntryType
    <3> QED BY <3>1 DEF RefreshOK
  <2> QED BY <2>1, <2>2, Untouched, TypeSplit, TypeSplitNext
<1>8. ASSUME NEW e \in rTodo, NEW o \in Outcome, RefreshOne(e, o)
      PROVE  TypeOK'
  <2>1. /\ Register(e, o) \/ UNCHANGED remote
        /\ UNCHANGED <<env, maps, mutex, goVars, ipVars, syncVars>>
    BY <1>8 DEF RefreshOne
  <2>2. RefreshOK' /\ e \in Entry
    BY <1>1, <1>8 DEF RefreshOne, RefreshOK
  <2>3. RemoteOK'
    BY <1>1, <2>1, <2>2, RegisterType, Untouched
  <2> QED BY <2>1, <2>2, <2>3, Untouched, TypeSplit, TypeSplitNext
<1>9. CASE Prune
  <2>1. UNCHANGED <<env, remote, mutex, goVars, ipVars, syncVars, rTodo>>
    BY <1>9 DEF Prune
  <2>2. MapsOK'
    BY <1>1, <1>9, TtlAssumption DEF MapsOK, Prune, Pruned, NoDead
  <2> QED BY <2>1, <2>2, Untouched, TypeSplit, TypeSplitNext
<1>10. CASE UNCHANGED vars
  BY <1>10, Untouched, TypeSplit, TypeSplitNext DEF vars
<1>11. ASSUME NEW t \in Tickers, TickStore(t) PROVE TypeOK'
  <2>1. UNCHANGED <<env, remote, maps, mutex, goVars, syncVars, rTodo>>
    BY <1>11 DEF TickStore
  <2>2. answer[t] \in Address \cup {NoIP}
    BY <1>1 DEF IpOK
  <2>3. SeenIP(answer[t], Tickers \ {t}) \subseteq Address \cup {NoIP}
    BY <1>1, <2>2, SeenType
  <2>4. sends' \subseteq Tickers \X (Address \cup {NoIP})
    <3>1. PICK sent \in SeenIP(answer[t], Tickers \ {t}) :
            sends' \subseteq sends \cup {<<t, sent>>}
      BY <1>11, Zenon DEF TickStore
    <3>2. <<t, sent>> \in Tickers \X (Address \cup {NoIP})
      BY <2>3, <3>1
    <3> QED BY <1>1, <3>1, <3>2 DEF IpOK
  <2>5. IpOK'
    BY <1>1, <1>11, <2>2, <2>4 DEF TickStore, IpOK
  <2> QED BY <2>1, <2>5, Untouched, TypeSplit, TypeSplitNext
<1> QED
  BY <1>2, <1>3, <1>4, <1>5, <1>6, <1>7, <1>8, <1>9, <1>10, <1>11,
     HostTypeOK, AddTypeOK, RemoveTypeOK, SyncTypeOK
  DEF Next, GoroutineStep, RefreshStep, TickStep, resyncProcess

=============================================================================
