---------------------------- MODULE OrphanProofs ----------------------------
(* Adds, removals and synchronisations leave no entry behind.              *)
EXTENDS BridgeProofs

\* With "always" no container is kept as dead.
AlwaysInv ==
  DeregisterAlways =>
    /\ \A c \in Containers : dead[c] = NoDead
    /\ \A c \in Containers, i \in Slots : pc[<<c, i>>] # "keep"

\* Where every exit deregisters, no step remembers a dead container.
LEMMA NextAlwaysInv == TypeOK /\ AlwaysInv /\ [Next]_vars => AlwaysInv'
<1> SUFFICES ASSUME TypeOK, AlwaysInv, [Next]_vars, DeregisterAlways
             PROVE  AlwaysInv'
  BY DEF AlwaysInv
<1>0. GoOK /\ MapsOK
  BY TypeSplit
<1>1. CASE UNCHANGED <<dead, pc>>
  BY <1>1 DEF AlwaysInv
<1>2. ASSUME NEW c \in Containers, NEW i \in Slots, NEW l, NEW ip,
             Spawn(<<c, i>>, l, ip), l # "keep", UNCHANGED dead
      PROVE  AlwaysInv'
  BY <1>0, <1>2 DEF AlwaysInv, Spawn, GoOK, Goroutines
<1>3. ASSUME NEW c \in Containers, NEW i \in Slots, NEW l,
             Goto(<<c, i>>, l), l # "keep",
             dead' = dead \/ dead' = [dead EXCEPT ![c] = NoDead]
      PROVE  AlwaysInv'
  BY <1>0, <1>3 DEF AlwaysInv, Goto, GoOK, MapsOK, Goroutines
<1>4. ASSUME NEW cs, NEW l, NEW ip, SpawnAll(cs, l, ip), l # "keep",
             UNCHANGED dead
      PROVE  AlwaysInv'
  BY <1>4 DEF AlwaysInv, SpawnAll, Goroutines
<1>7. ASSUME NEW c \in Containers, NEW i \in Slots, AddStep(c, i)
      PROVE  AlwaysInv'
  <2>1. CASE AddRevive(c, i)
    <3>1. Goto(<<c, i>>, "check") /\ dead' = [dead EXCEPT ![c] = NoDead]
      BY <2>1 DEF AddRevive
    <3> QED BY <1>3, <3>1, Zenon
  <2>2. CASE AddCheck(c, i)
    <3>1. Goto(<<c, i>>, "none") \/ Goto(<<c, i>>, "inspect")
      BY <2>2 DEF AddCheck, Return
    <3>2. UNCHANGED dead
      BY <2>2, Zenon DEF AddCheck, maps
    <3> QED BY <1>3, <3>1, <3>2
  <2>3. CASE AddInspect(c, i)
    <3>1. Goto(<<c, i>>, "none") \/ Goto(<<c, i>>, "register")
      BY <2>3 DEF AddInspect, Return
    <3>2. UNCHANGED dead
      BY <2>3 DEF AddInspect, maps
    <3> QED BY <1>3, <3>1, <3>2
  <2>4. ASSUME NEW p \in Ports, NEW o \in Outcome, AddRegister(c, i, p, o)
        PROVE  AlwaysInv'
    <3>1. \/ Goto(<<c, i>>, "none")
          \/ Goto(<<c, i>>, IF o = "ok" THEN "append" ELSE "register")
      BY <2>4 DEF AddRegister, Return
    <3>2. UNCHANGED dead
      BY <2>4, Zenon DEF AddRegister, maps
    <3> QED BY <1>3, <3>1, <3>2
  <2>5. CASE AddAppend(c, i)
    <3>1. Goto(<<c, i>>, "none") \/ Goto(<<c, i>>, "register")
      BY <2>5 DEF AddAppend, Return
    <3>2. UNCHANGED dead
      BY <2>5, Zenon DEF AddAppend
    <3> QED BY <1>3, <3>1, <3>2
  <2> QED BY <1>7, <2>1, <2>2, <2>3, <2>4, <2>5 DEF AddStep
<1>8. ASSUME NEW c \in Containers, NEW i \in Slots, RemoveStep(c, i)
      PROVE  AlwaysInv'
  <2>1. CASE RemoveDecide(c, i)
    <3>1. ~DeregisterAlways \/ Goto(<<c, i>>, "remove")
      BY <2>1 DEF RemoveDecide, shouldRemove
    <3>2. UNCHANGED dead
      BY <2>1 DEF RemoveDecide, maps
    <3> QED BY <1>3, <3>1, <3>2
  <2>2. CASE RemoveKeep(c, i)
    <3>1. pc[<<c, i>>] = "keep"
      BY <2>2 DEF RemoveKeep, AtLock
    <3> QED BY <3>1, Zenon DEF AlwaysInv
  <2>3. ASSUME NEW failed, RemoveDeregister(c, i, failed) PROVE AlwaysInv'
    <3>1. Goto(<<c, i>>, "none") /\ dead' = [dead EXCEPT ![c] = NoDead]
      BY <2>3 DEF RemoveDeregister, Return
    <3> QED BY <1>3, <3>1, Zenon
  <2> QED BY <1>8, <2>1, <2>2, <2>3 DEF RemoveStep
<1>9. CASE Exit
  BY <1>9 DEF AlwaysInv, Exit, Goroutines
<1>10. CASE UNCHANGED goVars /\ Prune
  BY <1>10, TtlAssumption DEF AlwaysInv, goVars, Prune, Pruned, NoDead
<1>11. ASSUME NEW c \in Containers, NEW s \in Service, NEW o \in Outcome,
              UNCHANGED goVars, SyncMove(c, s, o)
       PROVE  AlwaysInv'
  <2>1. UNCHANGED dead
    BY <1>11, Zenon DEF SyncMove
  <2> QED BY <1>1, <1>11, <2>1 DEF goVars
<1>12. CASE UNCHANGED <<maps, goVars>>
  BY <1>1, <1>12 DEF maps, goVars
<1>13. ASSUME UNCHANGED maps, NEW c \in Containers, NEW i \in Slots, NEW ip,
              Spawn(<<c, i>>, "revive", ip) \/ Spawn(<<c, i>>, "decide", ip)
       PROVE  AlwaysInv'
  BY <1>2, <1>13 DEF maps
<1>14. ASSUME UNCHANGED maps, NEW cs, NEW ip,
              SpawnAll(cs, "revive", ip) \/ SpawnAll(cs, "decide", ip)
       PROVE  AlwaysInv'
  BY <1>4, <1>14 DEF maps
<1> QED
  BY <1>7, <1>8, <1>9, <1>10, <1>11, <1>12, <1>13, <1>14, StepEffects, Zenon
  DEF GoroutineStep

-----------------------------------------------------------------------------
(* The entries of the registry                                             *)

\* A key that the bridge tracks, or that an add is about to.
Covered(k) ==
  \/ \E c \in Containers : \E s \in services[c] : KeyOf(c, s.port) = k
  \/ \E g \in Goroutines : \E s \in cur[g] : KeyOf(g[1], s.port) = k

CoverInv == \A e \in registry : Covered(e[1])

\* What is covered stays so when a goroutine that held nothing is reset or
\* is given a service.
LEMMA CoveredKept ==
  ASSUME TypeOK, NEW c \in Containers, NEW i \in Slots, cur[<<c, i>>] = {},
         NEW held \in SUBSET Service,
         cur' = [cur EXCEPT ![<<c, i>>] = held], UNCHANGED services
  PROVE  /\ \A k : Covered(k) => Covered(k)'
         /\ \A s \in held : Covered(KeyOf(c, s.port))'
<1> DEFINE g == <<c, i>>
<1>1. g \in Goroutines /\ g[1] = c
  BY DEF Goroutines
<1>2. cur'[g] = held /\ \A h \in Goroutines : h # g => cur'[h] = cur[h]
  BY <1>1, TypeSplit DEF GoOK
<1> HIDE DEF g
<1>3. cur[g] = {}
  BY DEF g
<1> QED BY <1>1, <1>2, <1>3 DEF Covered

\* Every step leaves each entry tracked or held by an add.
LEMMA NextCoverInv ==
  ASSUME Reliable, SinglePort, TypeOK, SnapInv, LocalsInv, PortsInv, AlwaysInv,
         CoverInv, [Next]_vars
  PROVE  CoverInv'
<1>0. GoOK /\ MapsOK /\ IpOK
  BY TypeSplit
<1>1. \A o \in Outcome : Faulty(o) => o = "ok"
  BY TypeSplit DEF Faulty, Reliable, RemoteOK
<1>2. ASSUME registry' \subseteq registry,
             \A k : Covered(k) => Covered(k)'
      PROVE  CoverInv'
  BY <1>2 DEF CoverInv
<1>3. ASSUME UNCHANGED <<services, cur>> PROVE \A k : Covered(k) => Covered(k)'
  BY <1>3 DEF Covered
<1>4. ASSUME NEW c \in Containers, NEW i \in Slots, Return(<<c, i>>),
             pc[<<c, i>>] # "append", UNCHANGED services
      PROVE  \A k : Covered(k) => Covered(k)'
  <2>1. cur[<<c, i>>] = {} /\ cur' = [cur EXCEPT ![<<c, i>>] = {}]
    BY <1>4 DEF Return, LocalsInv
  <2>2. {} \in SUBSET Service
    OBVIOUS
  <2> QED BY <1>4, <2>1, <2>2, CoveredKept, Zenon
<1>5. CASE HostStep
  <2>1. UNCHANGED <<registry, services, cur>>
    <3>1. \A c \in Containers :
            StartContainer(c) => UNCHANGED <<registry, services, cur>>
      BY Zenon DEF StartContainer, Spawn, remote, maps, goVars
    <3>2. \A c \in Containers, how \in {"success", "failure"} :
            StopContainer(c, how) => UNCHANGED <<registry, services, cur>>
      BY Zenon DEF StopContainer, Spawn, remote, maps, goVars
    <3>3. \A c \in Containers :
            RemoveContainer(c) => UNCHANGED <<registry, services, cur>>
      BY DEF RemoveContainer, remote, maps, goVars
    <3>4. \A ip \in IPs : MoveHost(ip) => UNCHANGED <<registry, services, cur>>
      BY DEF MoveHost, remote, maps, goVars
    <3> QED BY <1>5, <3>1, <3>2, <3>3, <3>4 DEF HostStep
  <2> QED BY <1>2, <1>3, <2>1
<1>6. ASSUME NEW e \in registry, LoseEntry(e) \/ Expire(e) PROVE CoverInv'
  BY <1>1, <1>6 DEF LoseEntry, Expire, Deregister, Reliable, Outcome
<1>7. ASSUME NEW c \in Containers, NEW i \in Slots, AddStep(c, i)
      PROVE  CoverInv'
  <2>1. CASE AddRevive(c, i)
    <3>1. UNCHANGED <<registry, services, cur>>
      BY <2>1 DEF AddRevive, AlwaysInv, Reliable, NoDead, remote
    <3> QED BY <1>2, <1>3, <3>1
  <2>2. CASE AddCheck(c, i)
    <3>1. /\ UNCHANGED registry /\ UNCHANGED services
          /\ pc[<<c, i>>] = "check" /\ (Return(<<c, i>>) \/ UNCHANGED cur)
      BY <2>2 DEF AddCheck, AtLock, remote, maps
    <3> QED BY <1>2, <1>3, <1>4, <3>1
  <2>3. CASE AddInspect(c, i)
    <3>1. /\ UNCHANGED registry /\ UNCHANGED services
          /\ pc[<<c, i>>] = "inspect" /\ (Return(<<c, i>>) \/ UNCHANGED cur)
      BY <2>3 DEF AddInspect, maps
    <3> QED BY <1>2, <1>3, <1>4, <3>1
  <2>4. ASSUME NEW p \in Ports, NEW o \in Outcome, AddRegister(c, i, p, o)
        PROVE  CoverInv'
    <3> DEFINE sv == [port |-> p, ip |-> ServiceIP(c, newIP[<<c, i>>])]
    <3>1. o = "ok"
      BY <1>1, <2>4 DEF AddRegister, Register
    <3>2. /\ registry' = Without(registry, EntryOf(c, sv)) \cup {EntryOf(c, sv)}
          /\ cur' = [cur EXCEPT ![<<c, i>>] = {sv}]
          /\ pc[<<c, i>>] = "register" /\ p \in todo[<<c, i>>]
      BY <2>4, <3>1 DEF AddRegister, Register
    <3>6. cur[<<c, i>>] = {} /\ p \in PortsOf[c]
      BY <3>2 DEF LocalsInv
    <3>7. UNCHANGED services
      BY <2>4, Zenon DEF AddRegister, maps
    <3>3. sv \in Service /\ sv.port = p
      <4>1. newIP[<<c, i>>] \in Address \cup {NoIP}
        BY <1>0 DEF GoOK, Goroutines
      <4>2. ServiceIP(c, newIP[<<c, i>>]) \in Address
        BY <1>0, <4>1, ServiceIPType
      <4> QED BY <4>2 DEF Service
    <3>4. /\ \A k : Covered(k) => Covered(k)'
          /\ Covered(KeyOf(c, p))'
      <4> HIDE DEF sv
      <4>1. {sv} \in SUBSET Service
        BY <3>3
      <4>2. \A t \in {sv} : t.port = p
        BY <3>3
      <4>3. /\ \A k : Covered(k) => Covered(k)'
            /\ \A t \in {sv} : Covered(KeyOf(c, t.port))'
        BY <3>2, <3>6, <3>7, <4>1, CoveredKept, Zenon
      <4> QED BY <4>2, <4>3
    <3>5. EntryOf(c, sv)[1] = KeyOf(c, p)
      BY DEF EntryOf
    <3> HIDE DEF sv
    <3> QED BY <3>2, <3>4, <3>5 DEF CoverInv, Without
  <2>5. CASE AddAppend(c, i)
    <3>1. /\ services' = [services EXCEPT ![c] = Appended(@, cur[<<c, i>>])]
          /\ cur' = [cur EXCEPT ![<<c, i>>] = {}] /\ UNCHANGED registry
      BY <2>5 DEF AddAppend, Return, remote
    <3>2. ASSUME NEW k, Covered(k) PROVE Covered(k)'
      <4>1. CASE \E d \in Containers : \E s \in services[d] :
                   KeyOf(d, s.port) = k
        BY <1>0, <3>1, <4>1 DEF Covered, Appended, MapsOK
      <4>2. ASSUME NEW g \in Goroutines, NEW s \in cur[g],
                   KeyOf(g[1], s.port) = k
            PROVE  Covered(k)'
        <5>1. CASE g # <<c, i>>
          <6>1. cur'[g] = cur[g]
            BY <1>0, <3>1, <5>1 DEF GoOK
          <6> QED BY <4>2, <6>1 DEF Covered
        <5>2. CASE g = <<c, i>>
          <6>1. g[1] = c /\ s \in cur[<<c, i>>]
            BY <5>2
          <6>2. services'[c] = Appended(services[c], cur[<<c, i>>])
            BY <1>0, <3>1 DEF MapsOK
          <6>3. CASE services[c] = {}
            BY <4>2, <6>1, <6>2, <6>3 DEF Covered, Appended
          <6>4. CASE services[c] # {}
            <7>1. PICK t \in services[c] : TRUE
              BY <6>4
            <7>2. t.port \in PortsOf[c]
              BY <7>1 DEF PortsInv
            <7>3. s.port \in PortsOf[c]
              BY <6>1 DEF LocalsInv
            <7>4. t.port = s.port
              BY <7>2, <7>3 DEF SinglePort
            <7> QED BY <4>2, <6>1, <6>2, <6>4, <7>4 DEF Covered, Appended
          <6> QED BY <6>3, <6>4
        <5> QED BY <5>1, <5>2
      <4> QED BY <3>2, <4>1, <4>2 DEF Covered
    <3> QED BY <1>2, <3>1, <3>2
  <2> QED BY <1>7, <2>1, <2>2, <2>3, <2>4, <2>5 DEF AddStep
<1>8. ASSUME NEW c \in Containers, NEW i \in Slots, RemoveStep(c, i)
      PROVE  CoverInv'
  <2>1. CASE RemoveDecide(c, i)
    <3>1. UNCHANGED <<registry, services, cur>>
      BY <2>1 DEF RemoveDecide, maps
    <3> QED BY <1>2, <1>3, <3>1
  <2>2. CASE RemoveKeep(c, i)
    BY <2>2 DEF RemoveKeep, AtLock, AlwaysInv, Reliable
  <2>3. ASSUME NEW failed \in SUBSET Removed(c), RemoveDeregister(c, i, failed)
        PROVE  CoverInv'
    <3>1. failed = {}
      BY <1>1, <2>3 DEF RemoveDeregister, Outcome
    <3>2. /\ services' = [services EXCEPT ![c] = {}]
          /\ cur' = [cur EXCEPT ![<<c, i>>] = {}]
          /\ pc[<<c, i>>] = "remove"
      BY <2>3 DEF RemoveDeregister, Return, AtLock
    <3>4. cur[<<c, i>>] = {}
      BY <3>2 DEF LocalsInv
    <3>3. ASSUME NEW e \in registry' PROVE Covered(e[1])'
      <4>1. e \in registry /\ \A f \in Removed(c) : ~Same(e, f)
        BY <2>3, <3>1 DEF RemoveDeregister
      <4>2. \A s \in services[c] : EntryOf(c, s) \in Removed(c)
        BY DEF Removed
      <4>3. \A s \in services[c] : KeyOf(c, s.port) # e[1]
        BY <4>1, <4>2, Zenon DEF Same, EntryOf, Reliable
      <4>4. CASE \E d \in Containers : \E s \in services[d] :
                   KeyOf(d, s.port) = e[1]
        BY <1>0, <3>2, <4>3, <4>4 DEF Covered, MapsOK
      <4>5. CASE \E g \in Goroutines : \E s \in cur[g] :
                   KeyOf(g[1], s.port) = e[1]
        <5>1. PICK g \in Goroutines : \E s \in cur[g] :
                KeyOf(g[1], s.port) = e[1]
          BY <4>5
        <5>2. g # <<c, i>>
          BY <3>4, <5>1
        <5>3. cur'[g] = cur[g]
          BY <1>0, <3>2, <5>2 DEF GoOK
        <5> QED BY <5>1, <5>3 DEF Covered
      <4> QED BY <4>1, <4>4, <4>5 DEF CoverInv, Covered
    <3> QED BY <3>3 DEF CoverInv
  <2> QED BY <1>8, <2>1, <2>2, <2>3 DEF RemoveStep
<1>9. CASE Boot \/ TickStep \/ Prune \/ UNCHANGED vars
  <2>1. UNCHANGED <<registry, services, cur>>
    <3>1. Boot \/ Prune => UNCHANGED <<registry, services, cur>>
      BY DEF Boot, Prune, remote, maps, goVars
    <3>2. \A t \in Tickers :
            resyncProcess(t) => UNCHANGED <<registry, services, cur>>
      BY DEF resyncProcess, Tick, TickStore, remote, maps, goVars
    <3>3. \A t \in Tickers : ~TickFails(t)
      BY <1>1 DEF TickFails, Outcome
    <3>4. UNCHANGED vars => UNCHANGED <<registry, services, cur>>
      BY DEF vars, remote, maps, goVars
    <3> QED BY <1>9, <3>1, <3>2, <3>3, <3>4 DEF TickStep
  <2> QED BY <1>2, <1>3, <2>1
<1>10. CASE Crash
  BY <1>10, TypeSplit DEF Crash, Reliable, EnvOK
<1>11. CASE RefreshStep
  <2>1. UNCHANGED <<registry, services, cur>>
    BY <1>11 DEF RefreshStep, RefreshCopy, RefreshOne, Refreshes, Reliable,
       remote, maps, goVars
  <2> QED BY <1>2, <1>3, <2>1
<1>12. CASE SyncStep
  <2>1. CASE SyncList \/ SyncStale
    <3>1. UNCHANGED <<registry, services, cur>>
      BY <2>1 DEF SyncList, SyncStale, SpawnAll, remote, maps, goVars
    <3> QED BY <1>2, <1>3, <3>1
  <2>2. CASE SyncListFails
    BY <1>1, <2>2 DEF SyncListFails, Outcome
  <2>3. CASE SyncServices \/ SyncEnd
    <3>1. UNCHANGED <<registry, services, cur>>
      BY <2>3 DEF SyncServices, SyncEnd, remote, maps, goVars
    <3> QED BY <1>2, <1>3, <3>1
  <2>7. CASE \E m \in sends : SyncReceive(m)
    <3>1. UNCHANGED <<registry, services, cur>>
      BY <2>7 DEF SyncReceive, remote, maps, goVars
    <3> QED BY <1>2, <1>3, <3>1
  <2>4. ASSUME NEW c \in Containers, NEW s \in Service, NEW o \in Outcome,
               SyncReregister(c, s, o)
        PROVE  CoverInv'
    <3>0. UNCHANGED <<services, cur>> /\ <<c, s>> \in sTodo
      BY <2>4 DEF SyncReregister, maps, goVars
    <3>1. s \in services[c]
      <4>1. \A cs \in sTodo \cup sMove : cs[2] \in services[cs[1]]
        BY DEF SnapInv, SyncSnapshotHolds
      <4>2. <<c, s>>[2] \in services[<<c, s>>[1]]
        BY <3>0, <4>1
      <4> QED BY <4>2
    <3>2. registry' \subseteq registry \cup {EntryOf(c, s)}
      BY <2>4 DEF SyncReregister, Register, Deregister, Without, remote
    <3>3. Covered(EntryOf(c, s)[1])
      BY <3>1 DEF Covered, EntryOf
    <3> QED BY <1>3, <3>0, <3>2, <3>3 DEF CoverInv
  <2>5. ASSUME NEW c \in Containers, NEW s \in Service, NEW o \in Outcome,
               SyncMove(c, s, o)
        PROVE  CoverInv'
    <3> DEFINE moved == [port |-> s.port, ip |-> sIP]
    <3>1. /\ <<c, s>> \in sMove /\ UNCHANGED cur
          /\ services' = [services EXCEPT ![c] = (@ \ {s}) \cup {moved}]
          /\ registry' \subseteq registry \cup {EntryOf(c, moved)}
      BY <2>5 DEF SyncMove, Register, Without, goVars
    <3>6. s \in services[c]
      BY <3>1 DEF SnapInv, SyncSnapshotHolds
    <3>2. moved.port = s.port
      OBVIOUS
    <3> HIDE DEF moved
    <3>3. \A k : Covered(k) => Covered(k)'
      BY <1>0, <3>1, <3>2, <3>6 DEF Covered, MapsOK
    <3>4. Covered(KeyOf(c, s.port))'
      BY <1>0, <3>1, <3>2, <3>6 DEF Covered, MapsOK
    <3>5. EntryOf(c, moved)[1] = KeyOf(c, s.port)
      BY <3>2 DEF EntryOf
    <3> QED BY <3>1, <3>3, <3>4, <3>5 DEF CoverInv
  <2>6. ASSUME NEW e \in sExt, NEW o \in Outcome, SyncCleanup(e, o)
        PROVE  CoverInv'
    <3>1. registry' \subseteq registry /\ UNCHANGED <<services, cur>>
      BY <2>6 DEF SyncCleanup, Deregister, Without, remote, maps, goVars
    <3> QED BY <1>2, <1>3, <3>1
  <2> QED BY <1>12, <2>1, <2>2, <2>3, <2>4, <2>5, <2>6, <2>7 DEF SyncStep
<1> QED
  BY <1>5, <1>6, <1>7, <1>8, <1>9, <1>10, <1>11, <1>12 DEF Next, GoroutineStep

\* Adds, removals and synchronisations may interleave in any order: with one
\* service for each container and no failing call, none of them leaves an
\* entry in the registry that nobody knows of.
THEOREM OrphanFree == Spec => []NoOrphan
<1>1. Init => LocalsInv /\ PortsInv /\ AlwaysInv /\ (Reliable => CoverInv)
  <2> SUFFICES ASSUME Init
               PROVE  /\ LocalsInv /\ PortsInv /\ AlwaysInv
                      /\ Reliable => CoverInv
    OBVIOUS
  <2>1. \A c \in Containers, i \in Slots :
          /\ todo[<<c, i>>] = {} /\ cur[<<c, i>>] = {}
          /\ pc[<<c, i>>] = "none"
    BY DEF Init, Goroutines
  <2>2. \A c \in Containers : services[c] = {} /\ dead[c] = NoDead
    BY Zenon DEF Init
  <2>3. PortsInv
    BY <2>2 DEF PortsInv, NoDead
  <2>4. Reliable => CoverInv
    BY DEF Init, CoverInv, Reliable
  <2> QED BY <2>1, <2>2, <2>3, <2>4 DEF LocalsInv, AlwaysInv
<1>2. (Reliable /\ SinglePort => CoverInv) /\ TypeOK /\ SnapInv /\ LocalsInv
        /\ PortsInv /\ AlwaysInv /\ [Next]_vars
      => (Reliable /\ SinglePort => CoverInv)'
  BY NextCoverInv DEF Reliable, SinglePort
<1>3. TypeOK /\ (Reliable /\ SinglePort => CoverInv) => NoOrphan
  <2> SUFFICES ASSUME TypeOK, Reliable, CoverInv, NEW e \in registry
               PROVE  Tracked(e) \/ InFlight(e)
    BY DEF NoOrphan, Orphan
  <2>1. ASSUME NEW c \in Containers, NEW s \in Service, KeyOf(c, s.port) = e[1]
        PROVE  Same(e, EntryOf(c, s))
    BY <2>1 DEF Same, EntryOf, Reliable
  <2>2. CASE \E c \in Containers : \E s \in services[c] : KeyOf(c, s.port) = e[1]
    BY <2>1, <2>2, TypeSplit DEF Tracked, MapsOK
  <2>3. CASE \E g \in Goroutines : \E s \in cur[g] : KeyOf(g[1], s.port) = e[1]
    <3>1. PICK c \in Containers, i \in Slots : \E s \in cur[<<c, i>>] :
            KeyOf(c, s.port) = e[1]
      BY <2>3 DEF Goroutines
    <3>2. cur[<<c, i>>] \subseteq Service
      BY TypeSplit DEF GoOK, Goroutines
    <3> QED BY <2>1, <3>1, <3>2 DEF InFlight
  <2> QED BY <2>2, <2>3 DEF CoverInv, Covered
<1> QED
  BY <1>1, <1>2, <1>3, TypeCorrect, SnapInvariant, NextLocalsInv, NextPortsInv,
     NextAlwaysInv, PTL DEF Spec
=============================================================================
