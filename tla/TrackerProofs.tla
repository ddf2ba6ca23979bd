--------------------------- MODULE TrackerProofs ----------------------------
(* Bridge implements Tracker: the maps are a monitor.                      *)
EXTENDS BridgeProofs, BridgeTracker

-----------------------------------------------------------------------------
(* The mutex is lost by AddCheck only.                                     *)

\* A synchronisation does not lose the mutex.
LEMMA SyncHung ==
  ASSUME SnapInv, SyncStep
  PROVE  Exit \/ UNCHANGED Hung
<1> USE DEF Hung
<1>1. CASE SyncList \/ SyncListFails
  BY <1>1 DEF SyncList, SyncListFails, SyncDone
<1>2. CASE SyncStale \/ SyncServices \/ SyncEnd
  BY <1>2 DEF SyncStale, SyncServices, SyncEnd, SyncDone, SnapInv,
              SyncSnapshotHolds
<1>3. \A m \in sends : SyncReceive(m) => UNCHANGED mutex
  BY DEF SyncReceive
<1>4. \A c \in Containers, s \in Service, o \in Outcome :
        SyncReregister(c, s, o) \/ SyncMove(c, s, o) => UNCHANGED mutex
  <2>1. \A c \in Containers, s \in Service, o \in Outcome :
          SyncReregister(c, s, o) => UNCHANGED mutex
    BY DEF SyncReregister
  <2>2. \A c \in Containers, s \in Service, o \in Outcome :
          SyncMove(c, s, o) => UNCHANGED mutex
    BY Zenon DEF SyncMove
  <2> QED BY <2>1, <2>2, Zenon
<1>5. \A e \in sExt, o \in Outcome : SyncCleanup(e, o) => UNCHANGED mutex
  BY DEF SyncCleanup
<1> QED BY <1>1, <1>2, <1>3, <1>4, <1>5 DEF SyncStep

\* Only an add that finds its container tracked loses the mutex.
LEMMA HungSteps ==
  ASSUME SnapInv, [Next]_vars
  PROVE  \/ Exit \/ UNCHANGED Hung
         \/ \E c \in Containers, i \in Slots : AddCheck(c, i)
<1> USE DEF Hung
<1>1. HostStep => UNCHANGED mutex
  BY DEF HostStep, StartContainer, StopContainer, RemoveContainer, MoveHost
<1>2. \A e \in registry : LoseEntry(e) \/ Expire(e) => UNCHANGED mutex
  BY DEF LoseEntry, Expire
<1>3. ASSUME NEW c \in Containers, NEW i \in Slots, AddStep(c, i)
      PROVE  AddCheck(c, i) \/ UNCHANGED mutex
  <2>1. AddRevive(c, i) \/ AddInspect(c, i) \/ AddAppend(c, i)
          => UNCHANGED mutex
    BY DEF AddRevive, AddInspect, AddAppend
  <2>2. \A p \in Ports, o \in Outcome : AddRegister(c, i, p, o)
                                          => UNCHANGED mutex
    BY Zenon DEF AddRegister
  <2> QED BY <1>3, <2>1, <2>2 DEF AddStep
<1>4. ASSUME NEW c \in Containers, NEW i \in Slots, RemoveStep(c, i)
      PROVE  UNCHANGED mutex
  <2>1. RemoveDecide(c, i) \/ RemoveKeep(c, i) => UNCHANGED mutex
    BY DEF RemoveDecide, RemoveKeep
  <2>2. \A failed : RemoveDeregister(c, i, failed) => UNCHANGED mutex
    BY Zenon DEF RemoveDeregister
  <2> QED BY <1>4, <2>1, <2>2 DEF RemoveStep
<1>5. RefreshStep \/ Prune \/ Boot \/ UNCHANGED vars => UNCHANGED mutex
  BY DEF RefreshStep, RefreshCopy, RefreshOne, Prune, Boot, vars
<1>6. TickStep => Exit \/ UNCHANGED mutex
  BY DEF TickStep, resyncProcess, Tick, TickStore, TickFails
<1> QED
  BY <1>1, <1>2, <1>3, <1>4, <1>5, <1>6, SyncHung
  DEF Next, GoroutineStep, Crash

-----------------------------------------------------------------------------
(* What an add holds.                                                      *)

OneAtMost(held) ==
  held # {} => \E p \in Ports, ip \in Address : held = {[port |-> p, ip |-> ip]}

\* Steps of goroutines on what they hold: all but AddRegister empty it.
LEMMA CurSteps ==
  ASSUME TypeOK, NEW c \in Containers, NEW i \in Slots, GoroutineStep(c, i)
  PROVE  \/ UNCHANGED cur
         \/ cur' = [cur EXCEPT ![<<c, i>>] = {}]
         \/ \E s \in Service : cur' = [cur EXCEPT ![<<c, i>>] = {s}]
<1> USE DEF Return
<1>1. AddRevive(c, i) \/ RemoveDecide(c, i) => UNCHANGED cur
  BY DEF AddRevive, RemoveDecide
<1>2. AddCheck(c, i) \/ AddInspect(c, i) \/ AddAppend(c, i) \/ RemoveKeep(c, i)
        => UNCHANGED cur \/ cur' = [cur EXCEPT ![<<c, i>>] = {}]
  BY DEF AddCheck, AddInspect, AddAppend, RemoveKeep
<1>3. \A failed : RemoveDeregister(c, i, failed)
        => cur' = [cur EXCEPT ![<<c, i>>] = {}]
  BY Zenon DEF RemoveDeregister
<1>4. ASSUME NEW p \in Ports, NEW o \in Outcome, AddRegister(c, i, p, o)
      PROVE  \/ cur' = [cur EXCEPT ![<<c, i>>] = {}]
             \/ \E s \in Service : cur' = [cur EXCEPT ![<<c, i>>] = {s}]
  <2> DEFINE s == [port |-> p, ip |-> ServiceIP(c, newIP[<<c, i>>])]
  <2>1. \/ cur' = [cur EXCEPT ![<<c, i>>] = {}]
        \/ cur' = [cur EXCEPT ![<<c, i>>] = {s}]
    BY <1>4 DEF AddRegister
  <2>2. ServiceIP(c, newIP[<<c, i>>]) \in Address
    BY TypeSplit, BridgeAssumption
    DEF ServiceIP, GoOK, IpOK, Goroutines, Address
  <2>3. s \in Service
    BY <2>2 DEF Service
  <2> HIDE DEF s
  <2> QED BY <2>1, <2>3
<1> QED BY <1>1, <1>2, <1>3, <1>4 DEF GoroutineStep, AddStep, RemoveStep

\* An add never holds more than one service.
LEMMA NextCur ==
  ASSUME TypeOK, \A g \in Goroutines : OneAtMost(cur[g]), [Next]_vars
  PROVE  \A g \in Goroutines : OneAtMost(cur'[g])
<1>0. cur \in [Goroutines -> SUBSET Service]
  BY TypeSplit DEF GoOK
<1>1. OneAtMost({}) /\ \A s \in Service : OneAtMost({s})
  BY DEF OneAtMost, Service
<1>2. CASE UNCHANGED cur
  BY <1>2
<1>3. CASE Exit
  BY <1>1, <1>3 DEF Exit
<1>4. ASSUME NEW c \in Containers, NEW i \in Slots, GoroutineStep(c, i)
      PROVE  \A g \in Goroutines : OneAtMost(cur'[g])
  <2>1. PICK held : /\ OneAtMost(held)
                    /\ UNCHANGED cur \/ cur' = [cur EXCEPT ![<<c, i>>] = held]
    BY <1>1, <1>4, CurSteps, Zenon
  <2> QED BY <1>0, <2>1
<1>5. \A g, l, ip : Spawn(g, l, ip) => UNCHANGED cur
  BY DEF Spawn
<1>6. \A cs, l, ip : SpawnAll(cs, l, ip) => UNCHANGED cur
  BY DEF SpawnAll
<1>7. UNCHANGED goVars => UNCHANGED cur
  BY DEF goVars
<1> QED BY <1>2, <1>3, <1>4, <1>5, <1>6, <1>7, StepEffects, Zenon

-----------------------------------------------------------------------------
(* What is left of the dead containers.                                    *)

NoneLeft == \A c \in Containers : dead[c].ttl = 0 => dead[c] = NoDead

\* A container with no time left is not remembered as dead.
LEMMA NextNoneLeft ==
  ASSUME TypeOK, NoneLeft, [Next]_vars
  PROVE  NoneLeft'
<1> USE DEF NoneLeft
<1>0. MapsOK
  BY TypeSplit
<1>1. CASE UNCHANGED dead
  BY <1>1
<1>2. CASE Exit
  BY <1>2 DEF Exit
<1>3. ASSUME NEW c \in Containers, dead' = [dead EXCEPT ![c] = NoDead]
      PROVE  NoneLeft'
  BY <1>0, <1>3 DEF MapsOK
<1>4. ASSUME NEW c \in Containers, NEW i \in Slots, RemoveKeep(c, i)
      PROVE  NoneLeft'
  BY <1>0, <1>4 DEF MapsOK, RemoveKeep
<1>5. CASE Prune
  BY <1>0, <1>5, TtlAssumption DEF MapsOK, Prune, Pruned
<1> HIDE DEF NoneLeft
<1>6. ASSUME NEW c \in Containers, NEW i \in Slots, GoroutineStep(c, i)
      PROVE  NoneLeft'
  <2>1. AddRevive(c, i) => dead' = [dead EXCEPT ![c] = NoDead]
    BY DEF AddRevive
  <2>2. \A failed : RemoveDeregister(c, i, failed)
          => dead' = [dead EXCEPT ![c] = NoDead]
    BY Zenon DEF RemoveDeregister
  <2>3. AddCheck(c, i) \/ AddInspect(c, i) \/ AddAppend(c, i)
          \/ RemoveDecide(c, i) => UNCHANGED dead
    BY DEF AddCheck, AddInspect, AddAppend, RemoveDecide, maps
  <2>4. \A p \in Ports, o \in Outcome : AddRegister(c, i, p, o)
          => UNCHANGED dead
    BY Zenon DEF AddRegister, maps
  <2> QED
    BY <1>1, <1>3, <1>4, <1>6, <2>1, <2>2, <2>3, <2>4
    DEF GoroutineStep, AddStep, RemoveStep
<1>7. \A c \in Containers, s \in Service, o \in Outcome :
        SyncMove(c, s, o) => UNCHANGED dead
  BY Zenon DEF SyncMove
<1> QED BY <1>1, <1>2, <1>5, <1>6, <1>7, StepEffects DEF maps

-----------------------------------------------------------------------------
(* The steps of Bridge are steps of Tracker.                               *)

LifeVars == <<Kept, Grave, Left, Hung>>

\* What the abstract state depends on.
LEMMA SameMaps ==
  /\ UNCHANGED services => UNCHANGED Kept
  /\ UNCHANGED dead => UNCHANGED <<Grave, Left>>
BY DEF Kept, Grave, Left

\* The other containers keep what they have.
LEMMA OneChanged ==
  ASSUME TypeOK, NEW c \in Containers
  PROVE  /\ \A S : services' = [services EXCEPT ![c] = S]
              => Kept' = [Kept EXCEPT ![c] = {s.port : s \in S}]
         /\ \A d : dead' = [dead EXCEPT ![c] = d]
              => /\ Grave' = [Grave EXCEPT ![c] = {s.port : s \in d.svcs}]
                 /\ Left' = [Left EXCEPT ![c] = d.ttl]
<1>0. MapsOK
  BY TypeSplit
<1>1. ASSUME NEW S, services' = [services EXCEPT ![c] = S]
      PROVE  Kept' = [Kept EXCEPT ![c] = {s.port : s \in S}]
  BY <1>0, <1>1, Zenon DEF MapsOK, Kept
<1>2. ASSUME NEW d, dead' = [dead EXCEPT ![c] = d]
      PROVE  /\ Grave' = [Grave EXCEPT ![c] = {s.port : s \in d.svcs}]
             /\ Left' = [Left EXCEPT ![c] = d.ttl]
  BY <1>0, <1>2, Zenon DEF MapsOK, Grave, Left
<1> QED BY <1>1, <1>2, Zenon

\* An add takes its container out of the dead ones, if it is there.
LEMMA ReviveStep ==
  ASSUME TypeOK, NoneLeft, NEW c \in Containers, NEW i \in Slots,
         AddRevive(c, i)
  PROVE  Life!Revive(c) \/ UNCHANGED LifeVars
<1>0. MapsOK
  BY TypeSplit
<1>1. /\ mutex = "free" /\ UNCHANGED mutex
      /\ services' = IF dead[c].ttl > 0
                     THEN [services EXCEPT ![c] = dead[c].svcs] ELSE services
      /\ dead' = [dead EXCEPT ![c] = NoDead]
  BY DEF AddRevive, AtLock
<1>2. dead[c].ttl \in Nat /\ Left[c] = dead[c].ttl
  BY <1>0, TtlAssumption DEF MapsOK, Left
<1>3. CASE dead[c].ttl > 0
  <2>1. /\ Kept' = [Kept EXCEPT ![c] = {s.port : s \in dead[c].svcs}]
        /\ Grave' = [Grave EXCEPT ![c] = {s.port : s \in NoDead.svcs}]
        /\ Left' = [Left EXCEPT ![c] = NoDead.ttl]
    BY <1>1, <1>3, OneChanged, Zenon
  <2>2. {s.port : s \in NoDead.svcs} = {} /\ NoDead.ttl = 0
    BY DEF NoDead
  <2>3. Grave[c] = {s.port : s \in dead[c].svcs}
    BY DEF Grave
  <2>4. ~Hung /\ UNCHANGED Hung
    BY <1>1 DEF Hung
  <2> QED BY <1>2, <1>3, <2>1, <2>2, <2>3, <2>4, Zenon DEF Life!Revive
<1>4. CASE dead[c].ttl = 0
  <2>1. UNCHANGED <<services, dead>>
    BY <1>0, <1>1, <1>2, <1>4 DEF NoneLeft, MapsOK
  <2> QED BY <1>1, <2>1, SameMaps DEF LifeVars, Hung
<1> QED BY <1>2, <1>3, <1>4

\* appendService tracks a container by one port, if it tracks none yet.
LEMMA TrackStep ==
  ASSUME TypeOK, \A g \in Goroutines : OneAtMost(cur[g]),
         NEW c \in Containers, NEW i \in Slots, AddAppend(c, i)
  PROVE  (\E p \in Ports : Life!Track(c, p)) \/ UNCHANGED LifeVars
<1> DEFINE held == cur[<<c, i>>]
<1>0. MapsOK
  BY TypeSplit
<1>1. /\ mutex = "free" /\ UNCHANGED <<mutex, dead>>
      /\ services' = [services EXCEPT ![c] = Appended(services[c], held)]
  BY DEF AddAppend, AtLock
<1>2. ~Hung /\ UNCHANGED Hung /\ UNCHANGED <<Grave, Left>>
  BY <1>1, SameMaps DEF Hung
<1>3. CASE services[c] # {} \/ held = {}
  <2>1. Appended(services[c], held) = services[c]
    BY <1>3 DEF Appended
  <2>2. services \in [Containers -> SUBSET Service]
    BY <1>0, Zenon DEF MapsOK
  <2>3. services' = [services EXCEPT ![c] = services[c]]
    BY <1>1, <2>1, Zenon
  <2>4. UNCHANGED services
    BY <2>2, <2>3
  <2> QED BY <1>2, <2>4, SameMaps, Zenon DEF LifeVars
<1>4. CASE services[c] = {} /\ held # {}
  <2>1. PICK p \in Ports, ip \in Address : held = {[port |-> p, ip |-> ip]}
    BY <1>4 DEF OneAtMost, Goroutines
  <2>2. {s.port : s \in held} = {p}
    BY <2>1
  <2>3. Kept[c] = {}
    BY <1>4 DEF Kept
  <2>4. Kept' = [Kept EXCEPT ![c] = {p}]
    <3>1. services' = [services EXCEPT ![c] = held]
      BY <1>1, <1>4 DEF Appended
    <3>2. Kept' = [Kept EXCEPT ![c] = {s.port : s \in held}]
      BY <3>1, OneChanged, Zenon
    <3> QED BY <2>2, <3>2, Zenon
  <2>5. Life!Track(c, p)
    BY <1>2, <2>3, <2>4 DEF Life!Track
  <2> QED BY <2>5
<1> QED BY <1>3, <1>4

\* A removal that deregisters forgets the container in both maps.
LEMMA DropStep ==
  ASSUME TypeOK, NEW c \in Containers, NEW i \in Slots, NEW failed,
         RemoveDeregister(c, i, failed)
  PROVE  Life!Drop(c)
<1>1. /\ mutex = "free" /\ UNCHANGED mutex
      /\ services' = [services EXCEPT ![c] = {}]
      /\ dead' = [dead EXCEPT ![c] = NoDead]
  BY DEF RemoveDeregister, AtLock
<1>2. /\ Kept' = [Kept EXCEPT ![c] = {s.port : s \in {}}]
      /\ Grave' = [Grave EXCEPT ![c] = {s.port : s \in NoDead.svcs}]
      /\ Left' = [Left EXCEPT ![c] = NoDead.ttl]
  BY <1>1, OneChanged, Zenon
<1>3. {s.port : s \in {}} = {} /\ NoDead.svcs = {} /\ NoDead.ttl = 0
  BY DEF NoDead
<1>4. ~Hung /\ UNCHANGED Hung
  BY <1>1 DEF Hung
<1> QED BY <1>2, <1>3, <1>4, Zenon DEF Life!Drop

\* A removal that does not deregister remembers what was tracked.
LEMMA RetireStep ==
  ASSUME TypeOK, NoneLeft, NEW c \in Containers, NEW i \in Slots,
         RemoveKeep(c, i)
  PROVE  Life!Retire(c) \/ Life!Drop(c) \/ UNCHANGED LifeVars
<1> DEFINE kept == [ttl |-> RefreshTtl, svcs |-> services[c]]
<1>0. MapsOK
  BY TypeSplit
<1>1. /\ mutex = "free" /\ UNCHANGED mutex
      /\ services' = [services EXCEPT ![c] = {}]
      /\ dead' = IF RefreshTtl # 0 /\ services[c] # {}
                 THEN [dead EXCEPT ![c] = kept] ELSE dead
  BY DEF RemoveKeep, AtLock
<1>2. ~Hung /\ UNCHANGED Hung
  BY <1>1 DEF Hung
<1>3. Kept' = [Kept EXCEPT ![c] = {}]
  <2>1. Kept' = [Kept EXCEPT ![c] = {s.port : s \in {}}]
    BY <1>1, OneChanged, Zenon
  <2>2. {s.port : s \in {}} = {}
    OBVIOUS
  <2> QED BY <2>1, <2>2, Zenon
<1>4. CASE RefreshTtl # 0 /\ services[c] # {}
  <2>1. /\ Grave' = [Grave EXCEPT ![c] = {s.port : s \in kept.svcs}]
        /\ Left' = [Left EXCEPT ![c] = kept.ttl]
    BY <1>1, <1>4, OneChanged, Zenon
  <2>2. kept.svcs = services[c] /\ kept.ttl = RefreshTtl
    OBVIOUS
  <2>3. Kept[c] = {s.port : s \in services[c]} /\ Kept[c] # {}
    BY <1>4 DEF Kept
  <2>4. RefreshTtl > 0
    BY <1>4, TtlAssumption
  <2> HIDE DEF kept
  <2> QED BY <1>2, <1>3, <2>1, <2>2, <2>3, <2>4 DEF Life!Retire
<1>5. CASE RefreshTtl = 0
  <2>1. UNCHANGED <<Grave, Left>>
    BY <1>1, <1>5, SameMaps
  <2>2. dead[c].ttl = 0 /\ dead[c].svcs = {}
    BY <1>0, <1>5 DEF NoneLeft, MapsOK, NoDead
  <2>3. Grave[c] = {} /\ Left[c] = 0
    BY <2>2 DEF Grave, Left
  <2>4. /\ Grave = [Grave EXCEPT ![c] = Grave[c]]
        /\ Left = [Left EXCEPT ![c] = Left[c]]
    BY Zenon DEF Grave, Left
  <2> QED BY <1>2, <1>3, <2>1, <2>3, <2>4 DEF Life!Drop
<1>6. CASE RefreshTtl # 0 /\ services[c] = {}
  <2>1. UNCHANGED services /\ UNCHANGED dead
    BY <1>0, <1>1, <1>6 DEF MapsOK
  <2> QED BY <1>2, <2>1, SameMaps DEF LifeVars
<1> QED BY <1>4, <1>5, <1>6

\* A prune ages every dead container.
LEMMA AgeStep ==
  ASSUME TypeOK, Prune
  PROVE  Life!Age
<1>1. /\ mutex = "free" /\ UNCHANGED <<mutex, services>>
      /\ dead' = [c \in Containers |-> Pruned(dead[c])]
  BY DEF Prune
<1>2. ~Hung /\ UNCHANGED Hung /\ UNCHANGED Kept
  BY <1>1, SameMaps DEF Hung
<1>3. ASSUME NEW c \in Containers
      PROVE  /\ Left'[c] = IF Left[c] <= RefreshInterval
                           THEN 0 ELSE Left[c] - RefreshInterval
             /\ Grave'[c] = IF Left[c] <= RefreshInterval
                            THEN {} ELSE Grave[c]
  <2>1. /\ dead[c] \in [ttl : 0..RefreshTtl, svcs : SUBSET Service]
        /\ dead'[c] = Pruned(dead[c]) /\ RefreshInterval \in Nat
        /\ dead[c].ttl \in Nat
    BY <1>1, TypeSplit, TtlAssumption DEF MapsOK
  <2>2. /\ Left[c] = dead[c].ttl /\ Left'[c] = dead'[c].ttl
        /\ Grave[c] = {s.port : s \in dead[c].svcs}
        /\ Grave'[c] = {s.port : s \in dead'[c].svcs}
    BY DEF Left, Grave
  <2>3. CASE dead[c].ttl <= RefreshInterval
    <3>1. dead'[c].ttl = 0 /\ dead'[c].svcs = {}
      BY <2>1, <2>3 DEF Pruned, NoDead
    <3> QED BY <2>2, <2>3, <3>1
  <2>4. CASE ~(dead[c].ttl <= RefreshInterval)
    <3>1. /\ dead'[c].ttl = dead[c].ttl - RefreshInterval
          /\ dead'[c].svcs = dead[c].svcs
      BY <2>1, <2>4 DEF Pruned
    <3> QED BY <2>2, <2>4, <3>1
  <2> QED BY <2>3, <2>4
<1>4. /\ Left' = [c \in Containers |-> Left'[c]]
      /\ Grave' = [c \in Containers |-> Grave'[c]]
  BY DEF Left, Grave
<1>5. /\ Left' = [c \in Containers |->
                    IF Left[c] <= RefreshInterval
                    THEN 0 ELSE Left[c] - RefreshInterval]
      /\ Grave' = [c \in Containers |->
                     IF Left[c] <= RefreshInterval THEN {} ELSE Grave[c]]
  BY <1>3, <1>4
<1> QED BY <1>2, <1>5 DEF Life!Age

\* A service that is moved to another address keeps its port.
LEMMA MoveStep ==
  ASSUME TypeOK, SnapInv, NEW c \in Containers, NEW s \in Service,
         NEW o \in Outcome, SyncMove(c, s, o)
  PROVE  UNCHANGED LifeVars
<1> DEFINE moved == [port |-> s.port, ip |-> sIP]
           now == (services[c] \ {s}) \cup {moved}
<1>0. MapsOK
  BY TypeSplit
<1>1. /\ services' = [services EXCEPT ![c] = now] /\ UNCHANGED <<dead, mutex>>
      /\ <<c, s>> \in sMove
  BY DEF SyncMove
<1>2. s \in services[c]
  BY <1>1 DEF SnapInv, SyncSnapshotHolds
<1>3. moved.port = s.port
  OBVIOUS
<1> HIDE DEF moved
<1>4. {x.port : x \in now} = {x.port : x \in services[c]}
  BY <1>2, <1>3
<1>5. Kept' = [Kept EXCEPT ![c] = Kept[c]]
  <2>1. Kept' = [Kept EXCEPT ![c] = {x.port : x \in now}]
    BY <1>1, OneChanged, Zenon
  <2> QED BY <1>4, <2>1, Zenon DEF Kept
<1>6. UNCHANGED Kept
  BY <1>5, Zenon DEF Kept
<1> QED BY <1>1, <1>6, SameMaps DEF LifeVars, Hung

\* The early return of add loses the lock and nothing else.
LEMMA LoseStep ==
  ASSUME NEW c \in Containers, NEW i \in Slots, AddCheck(c, i)
  PROVE  Life!Lose \/ UNCHANGED LifeVars
<1>1. /\ mutex = "free" /\ UNCHANGED <<services, dead>>
      /\ UNCHANGED mutex \/ (services[c] # {} /\ mutex' = "leaked")
  BY DEF AddCheck, AtLock, maps
<1>2. UNCHANGED <<Kept, Grave, Left>>
  BY <1>1, SameMaps
<1>3. CASE UNCHANGED mutex
  BY <1>2, <1>3 DEF LifeVars, Hung
<1>4. CASE services[c] # {} /\ mutex' = "leaked"
  <2>1. Kept[c] # {}
    BY <1>4, Zenon DEF Kept
  <2>2. ~Hung /\ Hung' = TRUE
    BY <1>1, <1>4 DEF Hung
  <2> QED BY <1>2, <2>1, <2>2 DEF Life!Lose
<1> QED BY <1>1, <1>3, <1>4, SMTT(30)

\* The end of the process empties the maps and frees the lock.
LEMMA RestartStep ==
  ASSUME Exit
  PROVE  Life!Restart
BY Zenon DEF Exit, Life!Restart, Kept, Grave, Left, NoDead, Hung

\* Adds and removals are steps of Tracker, or change none of its state.
LEMMA GoroutineLife ==
  ASSUME TypeOK, \A g \in Goroutines : OneAtMost(cur[g]), NoneLeft,
         NEW c \in Containers, NEW i \in Slots, GoroutineStep(c, i)
  PROVE  [Life!Next]_LifeVars
<1>1. AddRevive(c, i) => Life!Revive(c) \/ UNCHANGED LifeVars
  BY ReviveStep
<1>2. AddCheck(c, i) => Life!Lose \/ UNCHANGED LifeVars
  BY LoseStep
<1>3. AddAppend(c, i)
        => (\E p \in Ports : Life!Track(c, p)) \/ UNCHANGED LifeVars
  BY TrackStep
<1>4. RemoveKeep(c, i)
        => Life!Retire(c) \/ Life!Drop(c) \/ UNCHANGED LifeVars
  BY RetireStep
<1>5. \A failed : RemoveDeregister(c, i, failed) => Life!Drop(c)
  BY DropStep
<1>6. AddInspect(c, i) \/ RemoveDecide(c, i) => UNCHANGED LifeVars
  BY SameMaps DEF AddInspect, RemoveDecide, LifeVars, Hung, maps
<1>7. \A p \in Ports, o \in Outcome : AddRegister(c, i, p, o)
        => UNCHANGED LifeVars
  <2>1. \A p \in Ports, o \in Outcome : AddRegister(c, i, p, o)
          => UNCHANGED <<services, dead, mutex>>
    BY Zenon DEF AddRegister, maps
  <2> QED BY <2>1, SameMaps DEF LifeVars, Hung
<1> QED
  BY <1>1, <1>2, <1>3, <1>4, <1>5, <1>6, <1>7
  DEF GoroutineStep, AddStep, RemoveStep, Life!Next

\* So is every step.
LEMMA StepLife ==
  ASSUME TypeOK, SnapInv, \A g \in Goroutines : OneAtMost(cur[g]), NoneLeft,
         [Next]_vars
  PROVE  [Life!Next]_LifeVars
<1>1. CASE Exit
  BY <1>1, RestartStep DEF Life!Next
<1>2. CASE \E c \in Containers, i \in Slots : GoroutineStep(c, i)
  BY <1>2, GoroutineLife
<1>3. CASE UNCHANGED Hung /\ UNCHANGED maps
  BY <1>3, SameMaps DEF LifeVars, maps
<1>4. CASE Prune
  BY <1>4, AgeStep DEF Life!Next
<1>5. CASE \E c \in Containers, s \in Service, o \in Outcome :
             SyncMove(c, s, o)
  BY <1>5, MoveStep
<1>6. ASSUME NEW c \in Containers, NEW i \in Slots, AddCheck(c, i)
      PROVE  GoroutineStep(c, i)
  BY <1>6 DEF GoroutineStep, AddStep
<1>7. UNCHANGED <<maps, goVars>> => UNCHANGED maps
  OBVIOUS
<1> QED BY <1>1, <1>2, <1>3, <1>4, <1>5, <1>6, <1>7, HungSteps, StepEffects

\* For any number of containers, ports and goroutines, the maps of the bridge
\* go through the life cycle that Tracker states, in spite of the overlapping
\* adds, removals, synchronisations and prunings.
THEOREM ImplementsTracker == Spec => Lifecycle
<1> DEFINE OneHeld == \A g \in Goroutines : OneAtMost(cur[g])
<1>1. Init => Life!Init /\ OneHeld /\ NoneLeft
  BY DEF Init, Life!Init, Kept, Grave, Left, Hung, NoDead, OneAtMost, NoneLeft
<1>2. TypeOK /\ OneHeld /\ [Next]_vars => OneHeld'
  BY NextCur
<1>3. TypeOK /\ NoneLeft /\ [Next]_vars => NoneLeft'
  BY NextNoneLeft
<1>4. TypeOK /\ SnapInv /\ OneHeld /\ NoneLeft /\ [Next]_vars
        => [Life!Next]_(Life!vars)
  BY StepLife DEF LifeVars, Life!vars
<1> QED
  BY <1>1, <1>2, <1>3, <1>4, TypeCorrect, SnapInvariant, PTL
  DEF Spec, Lifecycle, Life!Spec
=============================================================================
