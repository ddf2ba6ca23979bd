---------------------------- MODULE BridgeProofs ----------------------------
(* The bridge is type correct; which steps get past the mutex; and so a    *)
(* synchronisation keeps its snapshot, and nothing gets past a mutex that  *)
(* was not released.                                                       *)
EXTENDS TypeProofs

USE DEF env, remote, maps, goVars, ipVars, syncVars, vars

\* Only channelRun, boots and crashes change the state of a synchronisation;
\* every other step leaves the maps and the mutex alone unless it gets the
\* mutex, and it does not keep it for a synchronisation.
Guarded ==
  /\ UNCHANGED syncVars
  /\ UNCHANGED <<maps, mutex>> \/ (mutex = "free" /\ mutex' # "sync")

\* Every step is one of channelRun, a start, an end or a guarded one.
LEMMA StepKinds ==
  ASSUME [Next]_vars
  PROVE  SyncStep \/ Boot \/ Exit \/ Guarded
<1>1. HostStep => Guarded
  BY DEF Guarded, HostStep, StartContainer, StopContainer, RemoveContainer,
     MoveHost
<1>2. \A e \in registry : LoseEntry(e) \/ Expire(e) => Guarded
  BY DEF Guarded, LoseEntry, Expire
<1>3. ASSUME NEW c \in Containers, NEW i \in Slots, AddStep(c, i) PROVE Guarded
  <2>1. AddRevive(c, i) => Guarded
    BY DEF Guarded, AddRevive, AtLock
  <2>2. AddCheck(c, i) => Guarded
    BY DEF Guarded, AddCheck, AtLock
  <2>3. AddInspect(c, i) => Guarded
    BY DEF Guarded, AddInspect
  <2>4. \A p \in Ports, o \in Outcome : AddRegister(c, i, p, o) => Guarded
    BY Zenon DEF Guarded, AddRegister
  <2>5. AddAppend(c, i) => Guarded
    BY Zenon DEF Guarded, AddAppend, AtLock
  <2> QED BY <1>3, <2>1, <2>2, <2>3, <2>4, <2>5 DEF AddStep
<1>4. ASSUME NEW c \in Containers, NEW i \in Slots, RemoveStep(c, i)
      PROVE  Guarded
  BY <1>4 DEF Guarded, RemoveStep, RemoveDecide, RemoveKeep, RemoveDeregister,
     AtLock
<1>5. RefreshStep => Guarded
  BY Zenon DEF Guarded, RefreshStep, RefreshCopy, RefreshOne
<1>6. Prune => Guarded
  BY DEF Guarded, Prune
<1>7. UNCHANGED vars => Guarded
  BY DEF Guarded
<1>8. TickStep => Exit \/ Guarded
  BY DEF Guarded, TickStep, resyncProcess, Tick, TickStore, TickFails
<1> QED
  BY <1>1, <1>2, <1>3, <1>4, <1>5, <1>6, <1>7, <1>8
  DEF Next, GoroutineStep, Crash

\* Whatever the constants, the state of the bridge stays well formed.
THEOREM TypeCorrect == Spec => []TypeOK
<1>1. Init => MoveHasAddress
  BY DEF Init, MoveHasAddress
<1>2. MoveHasAddress /\ [Next]_vars => MoveHasAddress'
  <2> SUFFICES ASSUME MoveHasAddress, [Next]_vars PROVE MoveHasAddress'
    OBVIOUS
  <2>1. CASE SyncStep
    <3>1. CASE SyncList \/ SyncListFails \/ SyncStale \/ SyncServices \/ SyncEnd
      BY <3>1 DEF MoveHasAddress, SyncList, SyncListFails, Exit, SyncStale,
         SyncServices, SyncEnd, SyncDone
    <3>2. \A m \in sends : SyncReceive(m) => MoveHasAddress'
      BY DEF MoveHasAddress, SyncReceive
    <3>3. \A c \in Containers, s \in Service, o \in Outcome :
            SyncReregister(c, s, o) => MoveHasAddress'
      BY DEF MoveHasAddress, SyncReregister
    <3>4. \A c \in Containers, s \in Service, o \in Outcome :
            SyncMove(c, s, o) => MoveHasAddress'
      BY DEF MoveHasAddress, SyncMove
    <3>5. \A e \in sExt, o \in Outcome : SyncCleanup(e, o) => MoveHasAddress'
      BY DEF MoveHasAddress, SyncCleanup
    <3> QED BY <2>1, <3>1, <3>2, <3>3, <3>4, <3>5, Zenon DEF SyncStep
  <2>2. CASE Boot \/ Exit
    BY <2>2 DEF MoveHasAddress, Boot, Exit
  <2>3. CASE Guarded
    BY <2>3 DEF MoveHasAddress, Guarded
  <2> QED BY <2>1, <2>2, <2>3, StepKinds
<1> QED BY <1>1, <1>2, InitTypeOK, NextTypeOK, PTL DEF Spec

-----------------------------------------------------------------------------
\* SyncSnapshotHolds is not inductive: it also takes that nothing is left to
\* reregister outside a synchronisation, and that the service that is being
\* moved is not waiting to be reregistered.
SnapInv ==
  /\ SyncSnapshotHolds
  /\ spc # "move" => sMove = {}
  /\ spc \notin {"rereg", "move"} => sTodo = {}
  /\ sMove \cap sTodo = {}

\* Every step keeps the snapshot of a synchronisation sound.
LEMMA NextSnapInv == TypeOK /\ SnapInv /\ [Next]_vars => SnapInv'
<1> SUFFICES ASSUME TypeOK, SnapInv, [Next]_vars PROVE SnapInv'
  OBVIOUS
<1> USE DEF SnapInv, SyncSnapshotHolds
<1>1. CASE Guarded
  BY <1>1 DEF Guarded
<1>2. CASE Boot \/ \E m \in sends : SyncReceive(m)
  BY <1>2, Zenon DEF Boot, SyncReceive
<1>3. CASE Exit
  BY <1>3, Zenon DEF Exit
<1>4. CASE SyncList
  BY <1>4 DEF SyncList, TypeOK
<1>5. CASE SyncListFails
  BY <1>5, Zenon DEF SyncListFails, SyncDone, Exit
<1>6. CASE SyncStale
  BY <1>6, Zenon DEF SyncStale, SyncDone
<1>7. CASE SyncServices \/ SyncEnd
  BY <1>7, Zenon DEF SyncServices, SyncEnd, SyncDone
<1>8. ASSUME NEW c \in Containers, NEW s \in Service, NEW o \in Outcome,
             SyncReregister(c, s, o)
      PROVE  SnapInv'
  BY <1>8, Zenon DEF SyncReregister
<1>9. ASSUME NEW c \in Containers, NEW s \in Service, NEW o \in Outcome,
             SyncMove(c, s, o)
      PROVE  SnapInv'
  <2>1. /\ <<c, s>> \in sMove /\ spc = "move" /\ spc' = "rereg" /\ sMove' = {}
        /\ services' = [services EXCEPT ![c] =
                          (@ \ {s}) \cup {[port |-> s.port, ip |-> sIP]}]
        /\ UNCHANGED <<mutex, sTodo>>
    BY <1>9 DEF SyncMove
  <2>2. /\ services \in [Containers -> SUBSET Service]
        /\ sTodo \subseteq Containers \X Service
    BY TypeSplit DEF MapsOK, SyncOK
  <2> QED BY <2>1, <2>2
<1>10. ASSUME NEW e \in sExt, NEW o \in Outcome, SyncCleanup(e, o)
       PROVE  SnapInv'
  BY <1>10 DEF SyncCleanup
<1> HIDE DEF SnapInv, SyncSnapshotHolds
<1> QED
  BY <1>1, <1>2, <1>3, <1>4, <1>5, <1>6, <1>7, <1>8, <1>9, <1>10, StepKinds
  DEF SyncStep

\* So it always is.
LEMMA SnapInvariant == Spec => []SnapInv
<1>1. Init => SnapInv
  BY DEF Init, SnapInv, SyncSnapshotHolds
<1> QED BY <1>1, NextSnapInv, TypeCorrect, PTL DEF Spec

\* No add, removal or prune gets past the mutex while serviceSync works on its
\* snapshot: what it has still to reregister stays tracked.
THEOREM SnapshotHolds == Spec => []SyncSnapshotHolds
BY SnapInvariant, PTL DEF SnapInv

\* After add has returned with the mutex locked the bridge never tracks,
\* untracks, revives, prunes or synchronises again before a restart.
THEOREM Frozen == Spec => FrozenOnceHung
<1>1. SnapInv /\ [Next]_vars =>
        [Hung => UNCHANGED <<maps, mutex, sTodo>> \/ spc' = "down"]_vars
  <2> SUFFICES ASSUME SnapInv, [Next]_vars, Hung
               PROVE  UNCHANGED <<maps, mutex, sTodo>> \/ spc' = "down"
    OBVIOUS
  <2>1. CASE Guarded
    BY <2>1 DEF Guarded, Hung
  <2>2. CASE Boot \/ Exit
    BY <2>2 DEF Boot, Exit
  <2>3. CASE SyncStep
    <3>1. mutex = "leaked" /\ spc \notin {"rereg", "move", "services", "dangling"}
      BY Zenon DEF Hung, SnapInv, SyncSnapshotHolds
    <3>2. ~SyncList /\ ~SyncListFails /\ ~SyncStale /\ ~SyncServices /\ ~SyncEnd
      BY <3>1, Zenon DEF SyncList, SyncListFails, SyncStale, SyncServices, SyncEnd
    <3>3. \A c \in Containers, s \in Service, o \in Outcome :
            ~SyncReregister(c, s, o) /\ ~SyncMove(c, s, o)
      <4>1. \A c \in Containers, s \in Service, o \in Outcome :
              ~SyncReregister(c, s, o)
        BY <3>1 DEF SyncReregister
      <4>2. \A c \in Containers, s \in Service, o \in Outcome :
              ~SyncMove(c, s, o)
        BY <3>1, Zenon DEF SyncMove
      <4> QED BY <4>1, <4>2, Zenon
    <3>4. \A e \in sExt, o \in Outcome : ~SyncCleanup(e, o)
      BY <3>1 DEF SyncCleanup
    <3>5. PICK m \in sends : SyncReceive(m)
      BY <2>3, <3>2, <3>3, <3>4 DEF SyncStep
    <3> QED BY <3>5 DEF SyncReceive
  <2> QED BY <2>1, <2>2, <2>3, StepKinds
<1> QED BY <1>1, SnapInvariant, PTL DEF Spec, FrozenOnceHung

-----------------------------------------------------------------------------
(* What the goroutines and the maps hold of each container.                *)

HIDE DEF env, remote, maps, goVars, ipVars, syncVars, vars

\* What the goroutines of a container hold: services on its ports, and one
\* that is registered and not yet appended only between the two.
LocalsInv ==
  \A c \in Containers, i \in Slots :
    /\ todo[<<c, i>>] \subseteq PortsOf[c]
    /\ \A s \in cur[<<c, i>>] : s.port \in PortsOf[c]
    /\ pc[<<c, i>>] # "append" => cur[<<c, i>>] = {}

\* The services of a container are on its ports.
PortsInv ==
  \A c \in Containers : \A s \in services[c] \cup dead[c].svcs :
    s.port \in PortsOf[c]

\* What a step does to the goroutines and the maps.
LEMMA StepEffects ==
  ASSUME [Next]_vars
  PROVE  \/ UNCHANGED <<maps, goVars>>
         \/ Exit
         \/ \E c \in Containers, i \in Slots : GoroutineStep(c, i)
         \/ /\ UNCHANGED maps
            /\ \E c \in Containers, i \in Slots :
               \E ip \in SeenIP(discoveredIP, Tickers) \cup {NoIP} :
                 Spawn(<<c, i>>, "revive", ip) \/ Spawn(<<c, i>>, "decide", ip)
         \/ /\ UNCHANGED maps
            /\ \E cs \in SUBSET Containers, ip \in {sIP, NoIP} :
                 SpawnAll(cs, "revive", ip) \/ SpawnAll(cs, "decide", ip)
         \/ UNCHANGED goVars /\ Prune
         \/ /\ UNCHANGED goVars
            /\ \E c \in Containers, s \in Service, o \in Outcome :
                 SyncMove(c, s, o)
<1>1. CASE HostStep
  <2>1. ASSUME NEW c \in Containers, StartContainer(c), ~UNCHANGED goVars
        PROVE  \E i \in EventSlots, ip \in SeenIP(discoveredIP, Tickers) :
                 Spawn(<<c, i>>, "revive", ip)
    BY <2>1 DEF StartContainer
  <2>2. ASSUME NEW c \in Containers, NEW how, StopContainer(c, how),
               ~UNCHANGED goVars
        PROVE  \E i \in EventSlots : Spawn(<<c, i>>, "decide", NoIP)
    BY <2>2 DEF StopContainer
  <2>3. UNCHANGED maps
    BY <1>1 DEF HostStep, StartContainer, StopContainer, RemoveContainer,
       MoveHost
  <2>4. /\ \A c \in Containers : RemoveContainer(c) => UNCHANGED goVars
        /\ \A ip \in IPs : MoveHost(ip) => UNCHANGED goVars
    BY DEF RemoveContainer, MoveHost
  <2>5. CASE UNCHANGED goVars
    BY <2>3, <2>5
  <2>6. CASE ~UNCHANGED goVars
    <3>1. PICK c \in Containers :
            StartContainer(c) \/ \E how : StopContainer(c, how)
      BY <1>1, <2>4, <2>6 DEF HostStep
    <3>2. \E i \in EventSlots, ip \in SeenIP(discoveredIP, Tickers) \cup {NoIP} :
            Spawn(<<c, i>>, "revive", ip) \/ Spawn(<<c, i>>, "decide", ip)
      BY <2>1, <2>2, <2>6, <3>1
    <3> QED BY <2>3, <3>2 DEF Slots
  <2> QED BY <2>5, <2>6
<1>2. CASE SyncStep
  <2>1. SyncList => /\ UNCHANGED maps
                    /\ SpawnAll(Running \ Listed(services), "revive", sIP)
    BY DEF SyncList
  <2>2. SyncStale =>
          /\ UNCHANGED maps
          /\ \/ UNCHANGED goVars
             \/ SpawnAll(Listed(services) \ Running, "decide", NoIP)
    BY DEF SyncStale
  <2>3. /\ Running \ Listed(services) \in SUBSET Containers
        /\ Listed(services) \ Running \in SUBSET Containers
    BY DEF Running, Listed
  <2>4. SyncListFails => Exit \/ UNCHANGED <<maps, goVars>>
    BY DEF SyncListFails
  <2>5. SyncServices \/ SyncEnd => UNCHANGED <<maps, goVars>>
    BY DEF SyncServices, SyncEnd
  <2>6. \A m \in sends : SyncReceive(m) => UNCHANGED <<maps, goVars>>
    BY DEF SyncReceive
  <2>7. \A c \in Containers, s \in Service, o \in Outcome :
          SyncReregister(c, s, o) => UNCHANGED <<maps, goVars>>
    BY DEF SyncReregister
  <2>8. \A c \in Containers, s \in Service, o \in Outcome :
          SyncMove(c, s, o) => UNCHANGED goVars
    BY Zenon DEF SyncMove
  <2>9. \A e \in sExt, o \in Outcome :
          SyncCleanup(e, o) => UNCHANGED <<maps, goVars>>
    BY DEF SyncCleanup
  <2>10. CASE SyncList \/ SyncStale
    BY <2>1, <2>2, <2>3, <2>10
  <2> QED BY <1>2, <2>4, <2>5, <2>6, <2>7, <2>8, <2>9, <2>10, Zenon DEF SyncStep
<1>3. TickStep => Exit \/ UNCHANGED <<maps, goVars>>
  BY DEF TickStep, resyncProcess, Tick, TickStore, TickFails
<1>4. Boot \/ RefreshStep => UNCHANGED <<maps, goVars>>
  BY DEF Boot, RefreshStep, RefreshCopy, RefreshOne
<1>5. \A e \in registry : LoseEntry(e) \/ Expire(e) => UNCHANGED <<maps, goVars>>
  BY DEF LoseEntry, Expire
<1>6. (Prune => UNCHANGED goVars) /\ (Crash => Exit)
  BY DEF Prune, Crash
<1>7. UNCHANGED vars => UNCHANGED <<maps, goVars>>
  BY DEF vars
<1> QED
  BY <1>1, <1>2, <1>3, <1>4, <1>5, <1>6, <1>7, Zenon DEF Next

\* Every step keeps what adds hold in order.
LEMMA NextLocalsInv == TypeOK /\ LocalsInv /\ [Next]_vars => LocalsInv'
<1> SUFFICES ASSUME TypeOK, LocalsInv, [Next]_vars PROVE LocalsInv'
  OBVIOUS
<1>0. GoOK
  BY TypeSplit
<1>1. CASE UNCHANGED goVars
  BY <1>1, Zenon DEF LocalsInv, goVars
<1>2. ASSUME NEW c \in Containers, NEW i \in Slots, NEW l, NEW ip,
             Spawn(<<c, i>>, l, ip), l # "append"
      PROVE  LocalsInv'
  BY <1>0, <1>2, Zenon DEF LocalsInv, Spawn, GoOK, Goroutines
<1>3. ASSUME NEW c \in Containers, NEW i \in Slots, Return(<<c, i>>)
      PROVE  LocalsInv'
  BY <1>0, <1>3, Zenon DEF LocalsInv, Return, Goto, GoOK, Goroutines
<1>4. ASSUME NEW c \in Containers, NEW i \in Slots, NEW l,
             Goto(<<c, i>>, l), l # "append", pc[<<c, i>>] # "append",
             UNCHANGED <<todo, cur>>
      PROVE  LocalsInv'
  BY <1>0, <1>4, Zenon DEF LocalsInv, Goto, GoOK, Goroutines
<1>5. ASSUME NEW cs, NEW l, NEW ip, SpawnAll(cs, l, ip), l # "append"
      PROVE  LocalsInv'
  BY <1>5, Zenon DEF LocalsInv, SpawnAll, Goroutines
<1>7. ASSUME NEW c \in Containers, NEW i \in Slots, AddStep(c, i)
      PROVE  LocalsInv'
  <2>1. CASE AddRevive(c, i)
    BY <1>4, <2>1, Zenon DEF AddRevive, AtLock
  <2>2. CASE AddCheck(c, i)
    BY <1>3, <1>4, <2>2, Zenon DEF AddCheck, AtLock
  <2>3. CASE AddInspect(c, i)
    <3>1. CASE Return(<<c, i>>)
      BY <1>3, <3>1, Zenon
    <3>2. CASE ~Return(<<c, i>>)
      <4>1. /\ pc[<<c, i>>] = "inspect" /\ Goto(<<c, i>>, "register")
            /\ todo' = [todo EXCEPT ![<<c, i>>] = PortsOf[c]]
            /\ UNCHANGED cur
        BY <2>3, <3>2 DEF AddInspect
      <4> QED BY <1>0, <4>1, Zenon DEF LocalsInv, Goto, GoOK, Goroutines
    <3> QED BY <3>1, <3>2, Zenon
  <2>4. ASSUME NEW p \in Ports, NEW o \in Outcome, AddRegister(c, i, p, o)
        PROVE  LocalsInv'
    <3>1. CASE Return(<<c, i>>)
      BY <1>3, <3>1, Zenon
    <3>2. CASE ~Return(<<c, i>>)
      <4> DEFINE sv == [port |-> p, ip |-> ServiceIP(c, newIP[<<c, i>>])]
      <4>1. /\ pc[<<c, i>>] = "register" /\ p \in todo[<<c, i>>]
            /\ Goto(<<c, i>>, IF o = "ok" THEN "append" ELSE "register")
            /\ todo' = [todo EXCEPT ![<<c, i>>] = @ \ {p}]
            /\ cur' = [cur EXCEPT ![<<c, i>>] = IF o = "ok" THEN {sv} ELSE {}]
        BY <2>4, <3>2 DEF AddRegister
      <4>2. sv.port = p
        OBVIOUS
      <4> HIDE DEF sv
      <4> QED BY <1>0, <4>1, <4>2, Zenon DEF LocalsInv, Goto, GoOK, Goroutines
    <3> QED BY <3>1, <3>2, Zenon
  <2>5. CASE AddAppend(c, i)
    <3>1. CASE Return(<<c, i>>)
      BY <1>3, <3>1
    <3>2. CASE ~Return(<<c, i>>)
      <4>1. /\ Goto(<<c, i>>, "register") /\ UNCHANGED todo
            /\ cur' = [cur EXCEPT ![<<c, i>>] = {}]
        BY <2>5, <3>2 DEF AddAppend
      <4> QED BY <1>0, <4>1, Zenon DEF LocalsInv, Goto, GoOK, Goroutines
    <3> QED BY <3>1, <3>2
  <2> QED BY <1>7, <2>1, <2>2, <2>3, <2>4, <2>5, Zenon DEF AddStep
<1>8. ASSUME NEW c \in Containers, NEW i \in Slots, RemoveStep(c, i)
      PROVE  LocalsInv'
  BY <1>3, <1>4, <1>8, Zenon
  DEF RemoveStep, RemoveDecide, RemoveKeep, RemoveDeregister, AtLock
<1>9. CASE Exit
  BY <1>9, Zenon DEF LocalsInv, Exit, Goroutines
<1>10. CASE UNCHANGED goVars \/ Exit
  BY <1>1, <1>9, <1>10
<1>11. ASSUME NEW c \in Containers, NEW i \in Slots, NEW ip,
              Spawn(<<c, i>>, "revive", ip) \/ Spawn(<<c, i>>, "decide", ip)
       PROVE  LocalsInv'
  BY <1>2, <1>11
<1>12. ASSUME NEW cs, NEW ip,
              SpawnAll(cs, "revive", ip) \/ SpawnAll(cs, "decide", ip)
       PROVE  LocalsInv'
  BY <1>5, <1>12
<1> QED
  BY <1>7, <1>8, <1>10, <1>11, <1>12, StepEffects, Zenon DEF GoroutineStep

\* Every step keeps the services in the maps on ports of their containers.
LEMMA NextPortsInv ==
  TypeOK /\ SnapInv /\ LocalsInv /\ PortsInv /\ [Next]_vars => PortsInv'
<1> SUFFICES ASSUME TypeOK, SnapInv, LocalsInv, PortsInv, [Next]_vars
             PROVE  PortsInv'
  OBVIOUS
<1>0. MapsOK
  BY TypeSplit
<1>1. CASE UNCHANGED maps
  BY <1>1 DEF PortsInv, maps
<1>4. ASSUME NEW c \in Containers, NEW i \in Slots, AddStep(c, i)
      PROVE  PortsInv'
  <2>1. CASE AddRevive(c, i)
    <3>1. /\ \/ UNCHANGED services
             \/ services' = [services EXCEPT ![c] = dead[c].svcs]
          /\ dead' = [dead EXCEPT ![c] = NoDead]
      BY <2>1, SMTT(30) DEF AddRevive
    <3> QED BY <1>0, <3>1 DEF PortsInv, NoDead, MapsOK
  <2>2. CASE AddCheck(c, i) \/ AddInspect(c, i)
    BY <1>1, <2>2 DEF AddCheck, AddInspect
  <2>3. \A p \in Ports, o \in Outcome : AddRegister(c, i, p, o) => PortsInv'
    BY <1>1, Zenon DEF AddRegister
  <2>4. CASE AddAppend(c, i)
    <3>1. /\ services' = [services EXCEPT ![c] = Appended(@, cur[<<c, i>>])]
          /\ UNCHANGED dead
      BY <2>4, Zenon DEF AddAppend
    <3> QED BY <1>0, <3>1 DEF PortsInv, Appended, LocalsInv, MapsOK
  <2> QED BY <1>4, <2>1, <2>2, <2>3, <2>4 DEF AddStep
<1>5. ASSUME NEW c \in Containers, NEW i \in Slots, RemoveStep(c, i)
      PROVE  PortsInv'
  <2>1. CASE RemoveDecide(c, i)
    BY <1>1, <2>1 DEF RemoveDecide
  <2>2. CASE RemoveKeep(c, i)
    BY <1>0, <2>2 DEF PortsInv, RemoveKeep, MapsOK
  <2>3. ASSUME NEW failed, RemoveDeregister(c, i, failed) PROVE PortsInv'
    <3>1. /\ services' = [services EXCEPT ![c] = {}]
          /\ dead' = [dead EXCEPT ![c] = NoDead]
      BY <2>3 DEF RemoveDeregister
    <3> QED BY <1>0, <3>1 DEF PortsInv, NoDead, MapsOK
  <2> QED BY <1>5, <2>1, <2>2, <2>3 DEF RemoveStep
<1>6. CASE Exit
  BY <1>6, Zenon DEF PortsInv, Exit, NoDead
<1>7. ASSUME NEW c \in Containers, NEW s \in Service, NEW o \in Outcome,
             SyncMove(c, s, o)
      PROVE  PortsInv'
  <2>1. s \in services[c]
    BY <1>7 DEF SyncMove, SnapInv, SyncSnapshotHolds
  <2>2. /\ UNCHANGED dead
        /\ services' = [services EXCEPT ![c] =
                          (@ \ {s}) \cup {[port |-> s.port, ip |-> sIP]}]
    BY <1>7 DEF SyncMove
  <2> QED BY <1>0, <2>1, <2>2 DEF PortsInv, MapsOK
<1>8. CASE Prune
  BY <1>0, <1>8 DEF PortsInv, Prune, Pruned, NoDead, MapsOK
<1> QED
  BY <1>1, <1>4, <1>5, <1>6, <1>7, <1>8, StepEffects DEF GoroutineStep

=============================================================================
