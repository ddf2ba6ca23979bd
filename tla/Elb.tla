-------------------------------- MODULE Elb ---------------------------------
(***************************************************************************)
(* Containers behind an AWS load balancer, registered in Eureka by the     *)
(* endpoint of the load balancer (aws/elb.go, aws/healthchecks.go,         *)
(* aws/cache.go and the ELB branches of eureka/eureka.go).                 *)
(*                                                                         *)
(* All containers of a target group share one Eureka entry.  Its status is *)
(* worked out from three sources that can all be out of date: the entry    *)
(* itself, the status the container was given last, and the health of the  *)
(* targets, which is cached under the key that the search for the load     *)
(* balancer also uses, for values of another type.                         *)
(*                                                                         *)
(* The goroutines that call the adapter are those of the bridge: an add    *)
(* for each container, the refresh ticker, and the synchronisation, which  *)
(* holds the mutex of the bridge while it calls.  An explicit Unlock/Lock  *)
(* is not modelled here: the mutex is free unless "sync" is busy.  Of the  *)
(* calls that one step stands for, at most one fails.                      *)
(***************************************************************************)
EXTENDS Integers, FiniteSets

CONSTANTS
  Containers,
  TargetGroups,
  TgOf,            \* the target group a container's port belongs to
  Labels,          \* bound: the label sets the containers may have
  ManyPages,       \* there is more than one page of target groups
  Resync,          \* -resync is set
  Cleanup,         \* -cleanup is set
  None,
  Retries,         \* attempts of RegisterWithELBv2 after the first: 3
  MaxEvents,       \* bound: container starts and stops
  MaxTurns,        \* bound: changes of a target's health
  MaxFaults        \* bound: failed remote calls, lost entries

Threads == Containers \cup {"refresh", "sync"}
Label == {"explicit", "service", "elsewhere", "task", "none"}
Status == {"none", "UNKNOWN", "STARTING", "UP"}

ASSUME ElbAssumption ==
  /\ TgOf \in [Containers -> TargetGroups]
  /\ Labels \subseteq [Containers -> Label] /\ Labels # {}
  /\ ManyPages \in BOOLEAN /\ Resync \in BOOLEAN /\ Cleanup \in BOOLEAN
  /\ None \notin TargetGroups /\ None \notin Containers
  /\ {"refresh", "sync"} \cap Containers = {}
  /\ Retries \in Nat /\ MaxEvents \in Nat /\ MaxTurns \in Nat
  /\ MaxFaults \in Nat

VARIABLES
  label,       \* which of the ELB attributes each container has
  running,     \* the running containers
  target,      \* what the load balancer knows of each container's port
  wasHealthy,  \* history: target groups that have had a healthy target
  eureka,      \* status of the entry of each target group's endpoint
  tracked,     \* containers in Bridge.services
  leaving,     \* containers whose RemoveOnExit waits for the mutex
  rTodo,       \* copies that Bridge.Refresh has still to send
  sTodo,       \* services that serviceSync has still to register
  lbCache,     \* generalCache, "container_" + ID: never expires
  tgCache,     \* generalCache, "tg_arn_" + ARN: a value of either type
  previousStatus,
  th,          \* the goroutines
  events, turns, faults   \* how often each happened

aws == <<running, target, wasHealthy, events, turns>>
bridge == <<tracked, leaving, rTodo, sTodo>>
caches == <<lbCache, tgCache>>
vars == <<label, aws, eureka, bridge, caches, previousStatus, th, faults>>

\* What DescribeTargetHealth returns, or the healthy ones of its targets.
Cached == [type : {"output", "healthy"}, targets : SUBSET Containers]

Goroutine ==
  [pc : {"idle", "list", "loop", "find", "probe", "fetch", "detail", "beat",
         "status", "decide", "health", "post", "append"},
   job : Containers \cup {None}, tries : 0..Retries, left : SUBSET TargetGroups,
   found : TargetGroups \cup {None}, status : Status]

Idle(c) == [pc |-> "idle", job |-> c, tries |-> 0, left |-> {},
            found |-> None, status |-> "none"]

\* main pushes the first synchronisation.
NewProcess ==
  [t \in Threads |->
     IF t = "sync" THEN [Idle(None) EXCEPT !.pc = "list"]
     ELSE IF t = "refresh" THEN Idle(None) ELSE Idle(t)]

TypeOK ==
  /\ label \in Labels
  /\ running \subseteq Containers
  /\ target \in [Containers -> {"none", "unhealthy", "healthy"}]
  /\ wasHealthy \subseteq TargetGroups
  /\ eureka \in [TargetGroups -> {"none", "STARTING", "UP"}]
  /\ tracked \subseteq Containers /\ leaving \subseteq Containers
  /\ rTodo \subseteq Containers /\ sTodo \subseteq Containers
  /\ lbCache \in [Containers -> TargetGroups \cup {None}]
  /\ tgCache \in [TargetGroups -> Cached \cup {None}]
  /\ previousStatus \in [Containers -> Status]
  /\ th \in [Threads -> Goroutine]
  /\ events \in 0..MaxEvents /\ turns \in 0..MaxTurns
  /\ faults \in 0..MaxFaults

-----------------------------------------------------------------------------
(* Remote calls: one succeeds, is refused, or is carried out although the  *)
(* caller gets an error.                                                   *)

Outcome == {"ok", "err", "lost"}

Faulty(o) ==
  IF o = "ok" THEN UNCHANGED faults
              ELSE faults < MaxFaults /\ faults' = faults + 1

Members(tg) == {c \in Containers : TgOf[c] = tg /\ target[c] # "none"}
HealthyMembers(tg) == {c \in Members(tg) : target[c] = "healthy"}

\* Docker and the load balancer.  A restart is seen when the removal is over:
\* other orders are the subject of Bridge.
Start(c) ==
  /\ c \notin running \cup tracked \cup leaving /\ th[c].pc = "idle"
  /\ events < MaxEvents /\ events' = events + 1
  /\ running' = running \cup {c}
  /\ th' = [th EXCEPT ![c] = [Idle(c) EXCEPT !.pc = "find"]]
  /\ UNCHANGED <<label, target, wasHealthy, turns, eureka, bridge, caches,
                 previousStatus, faults>>

Stop(c) ==
  /\ c \in running
  /\ events < MaxEvents /\ events' = events + 1
  /\ running' = running \ {c}
  /\ target' = [target EXCEPT ![c] = "none"]
  /\ leaving' = leaving \cup {c}
  /\ UNCHANGED <<label, wasHealthy, turns, eureka, tracked, rTodo, sTodo,
                 caches, previousStatus, th, faults>>

\* A running container becomes a target some time after it has started.
TargetAdded(c) ==
  /\ c \in running /\ target[c] = "none"
  /\ target' = [target EXCEPT ![c] = "unhealthy"]
  /\ UNCHANGED <<label, running, wasHealthy, events, turns, eureka, bridge,
                 caches, previousStatus, th, faults>>

TargetTurns(c) ==
  /\ target[c] # "none"
  /\ turns < MaxTurns /\ turns' = turns + 1
  /\ target' = [target EXCEPT ![c] = IF @ = "healthy" THEN "unhealthy"
                                                      ELSE "healthy"]
  /\ wasHealthy' = IF target[c] = "healthy" THEN wasHealthy
                                            ELSE wasHealthy \cup {TgOf[c]}
  /\ UNCHANGED <<label, running, events, eureka, bridge, caches,
                 previousStatus, th, faults>>

\* A lease of 35 seconds ends when nobody sends heartbeats: no container of
\* the target group is tracked, or the synchronisation keeps the refresh
\* waiting for the mutex while it sleeps between two attempts.
LeaseEnds(tg) ==
  /\ eureka[tg] # "none"
  /\ (\A c \in tracked : TgOf[c] # tg) \/ th["sync"].tries > 0
  /\ eureka' = [eureka EXCEPT ![tg] = "none"]
  /\ UNCHANGED <<label, aws, bridge, caches, previousStatus, th, faults>>

LoseEntry(tg) ==
  /\ eureka[tg] # "none" /\ Faulty("lost")
  /\ eureka' = [eureka EXCEPT ![tg] = "none"]
  /\ UNCHANGED <<label, aws, bridge, caches, previousStatus, th>>

\* Variant: the list of healthy targets is cached for good.
ExpireOutputs(tg) ==
  /\ tgCache[tg] # None /\ tgCache[tg].type = "output"
  /\ tgCache' = [tgCache EXCEPT ![tg] = None]
  /\ UNCHANGED <<label, aws, eureka, bridge, lbCache, previousStatus, th,
                 faults>>

\* DEFAULT_EXP_TIME has passed; refreshInterval of this package is never set.
CacheExpires(tg) ==
  /\ tgCache[tg] # None
  /\ tgCache' = [tgCache EXCEPT ![tg] = None]
  /\ UNCHANGED <<label, aws, eureka, bridge, lbCache, previousStatus, th,
                 faults>>

-----------------------------------------------------------------------------
(* mutateRegistrationInfo: the load balancer of a container.               *)

\* The mutex of the bridge is not held by the synchronisation.
MutexFree == th["sync"].pc \in {"idle", "list"}

Goto(t, l) == th' = [th EXCEPT ![t].pc = l]

\* The call returns to the bridge: add goes on to track the container if it
\* got no error, Refresh and serviceSync go on with the next one.
Returned(t, ok) ==
  IF t \in Containers THEN [Idle(t) EXCEPT !.pc = IF ok THEN "append" ELSE @]
  ELSE [Idle(None) EXCEPT !.pc = IF t = "sync" THEN "loop" ELSE @]

\* There is no load balancer: RegisterWithELBv2 sleeps and tries again a
\* number of times, HeartbeatELBv2 does not.
NotFound(t) ==
  th' = [th EXCEPT ![t] =
           IF t # "refresh" /\ @.tries < Retries
           THEN [Idle(@.job) EXCEPT !.pc = "find", !.tries = th[t].tries + 1]
           ELSE Returned(t, FALSE)]

\* RegisterWithELBv2 and HeartbeatELBv2 go on with what has been found.
Found(t, tg) ==
  th' = [th EXCEPT ![t].pc = IF t = "refresh" THEN "beat" ELSE "status",
                   ![t].found = tg]

\* getELBMetadata, when the endpoint is given or cached.
Find(t) ==
  LET c == th[t].job
  IN /\ th[t].pc = "find"
     /\ \/ /\ label[c] = "explicit"
           /\ lbCache' = [lbCache EXCEPT ![c] = TgOf[c]]
           /\ Found(t, TgOf[c])
        \/ /\ label[c] # "explicit" /\ lbCache[c] # None
           /\ Found(t, lbCache[c]) /\ UNCHANGED lbCache
     /\ UNCHANGED <<label, aws, eureka, bridge, tgCache, previousStatus,
                    faults>>

Searches(t, l) ==
  th[t].pc = "find" /\ label[th[t].job] \in l /\ lbCache[th[t].job] = None

\* The name of the service is a label, or lookupServiceName finds it.
Named == {"service", "elsewhere", "task"}

\* There is no name: nothing to look it up with, or lookupServiceName fails, or
\* no service of the cluster, or more than one, has the task's definition.
Unnamed == {"task", "none"}

\* getLoadBalancerFromService.  A service that lookupServiceName has found is
\* looked for in its cluster, one that is named by a label in the default
\* cluster, where it is not found if it runs elsewhere.
Describe(t) ==
  LET c == th[t].job
  IN /\ Searches(t, Named)
     /\ \/ /\ label[c] # "elsewhere" /\ UNCHANGED faults
           /\ th' = [th EXCEPT ![t].pc = "detail", ![t].found = TgOf[c]]
        \/ label[c] = "elsewhere" /\ NotFound(t) /\ UNCHANGED faults
        \/ NotFound(t) /\ Faulty("err")
     /\ UNCHANGED <<label, aws, eureka, bridge, caches, previousStatus>>

\* getAllTargetGroups, through the cache.
Search(t) ==
  /\ Searches(t, Unnamed)
  /\ \/ /\ th' = [th EXCEPT ![t].pc = "probe", ![t].left = TargetGroups]
        /\ UNCHANGED faults
     \/ NotFound(t) /\ Faulty("err")
  /\ UNCHANGED <<label, aws, eureka, bridge, caches, previousStatus>>

\* The target groups are looked at in the order of the listing; where a page
\* of it ends makes no difference.
NextGroup(left) == CHOOSE tg \in left : TRUE

\* One target group is compared with what DescribeTargetHealth returned.
Compared(t, targets) ==
  LET tg == NextGroup(th[t].left)
      left == th[t].left \ {tg}
      tgArn == IF th[t].job \in targets THEN tg ELSE th[t].found
  IN IF left = {} /\ tgArn = None
     THEN NotFound(t)
     ELSE th' = [th EXCEPT ![t].left = left, ![t].found = tgArn,
                   ![t].pc = IF left # {} THEN "probe" ELSE "detail"]

\* GetAndCache finds a value, or does not; one of the other type is skipped.
Probe(t) ==
  LET value == tgCache[NextGroup(th[t].left)]
  IN /\ th[t].pc = "probe"
     /\ IF value = None
        THEN Goto(t, "fetch")
        ELSE Compared(t, IF value.type = "output" THEN value.targets ELSE {})
     /\ UNCHANGED <<label, aws, eureka, bridge, caches, previousStatus,
                    faults>>

\* GetAndCache calls DescribeTargetHealth and stores what it returns,
\* whatever another goroutine has stored since.
Fetch(t) ==
  LET tg == NextGroup(th[t].left)
  IN /\ th[t].pc = "fetch"
     /\ \/ /\ Compared(t, Members(tg)) /\ UNCHANGED faults
           /\ tgCache' = [tgCache EXCEPT ![tg] =
                            [type |-> "output", targets |-> Members(tg)]]
        \/ NotFound(t) /\ Faulty("err") /\ UNCHANGED tgCache
     /\ UNCHANGED <<label, aws, eureka, bridge, lbCache, previousStatus>>

\* DescribeListeners and DescribeLoadBalancers; then GetAndCache stores what
\* has been found for the container.
Detail(t) ==
  /\ th[t].pc = "detail"
  /\ \/ /\ Found(t, th[t].found) /\ UNCHANGED faults
        /\ lbCache' = [lbCache EXCEPT ![th[t].job] = th[t].found]
     \/ NotFound(t) /\ Faulty("err") /\ UNCHANGED lbCache
  /\ UNCHANGED <<label, aws, eureka, bridge, tgCache, previousStatus>>

-----------------------------------------------------------------------------
(* RegisterWithELBv2, HeartbeatELBv2 and testHealth                        *)

\* HeartBeatInstance: an error, an entry that is gone included, has no
\* consequence.  A status that is not UP is worked out again.
Beat ==
  /\ th["refresh"].pc = "beat"
  /\ IF previousStatus[th["refresh"].job] # "UP"
     THEN Goto("refresh", "status")
     ELSE th' = [th EXCEPT !["refresh"] = Returned("refresh", TRUE)]
  /\ UNCHANGED <<label, aws, eureka, bridge, caches, previousStatus, faults>>

\* getELBStatus
GetStatus(t) ==
  /\ th[t].pc = "status"
  /\ \/ /\ th' = [th EXCEPT ![t].pc = "decide",
                    ![t].status = IF eureka[th[t].found] = "none" THEN "UNKNOWN"
                                  ELSE eureka[th[t].found]]
        /\ UNCHANGED faults
     \/ /\ Faulty("err")
        /\ th' = [th EXCEPT ![t].pc = "decide", ![t].status = "UNKNOWN"]
  /\ UNCHANGED <<label, aws, eureka, bridge, caches, previousStatus>>

\* testHealth has a new status for the container, and one to register.
Decided(t, new, registration) ==
  /\ previousStatus' = [previousStatus EXCEPT ![th[t].job] = new]
  /\ th' = [th EXCEPT ![t].pc = "post", ![t].status = registration]

\* The list of healthy targets has been read.
Counted(t, thList) ==
  IF thList = {} THEN Decided(t, "STARTING", "STARTING")
                 ELSE Decided(t, "UP", "UP")

\* determineNewEurekaStatus.  A cached value of the other type is no list.
Decide(t) ==
  LET c == th[t].job
      tg == lbCache[c]
  IN /\ th[t].pc = "decide"
     /\ IF th[t].status = "UP" \/ previousStatus[c] = "UP"
        THEN Decided(t, "UP", "UP")
        ELSE IF tg = None THEN Decided(t, "UNKNOWN", "STARTING")
        ELSE IF tgCache[tg] = None
        THEN /\ th' = [th EXCEPT ![t].pc = "health", ![t].left = {tg}]
             /\ UNCHANGED previousStatus
        ELSE Counted(t, IF tgCache[tg].type = "healthy"
                        THEN tgCache[tg].targets ELSE {})
     /\ UNCHANGED <<label, aws, eureka, bridge, caches, faults>>

\* Variant: every target counts, whatever its state.
AllTargets(tg) == Members(tg)

\* getHealthyTargets
getHealthyTargets(tg) == HealthyMembers(tg)

\* GetHealthyTargets calls DescribeTargetHealth and stores the healthy ones.
Health(t) ==
  LET tg == NextGroup(th[t].left)
  IN /\ th[t].pc = "health"
     /\ \/ /\ Counted(t, getHealthyTargets(tg)) /\ UNCHANGED faults
           /\ tgCache' = [tgCache EXCEPT ![tg] =
                            [type |-> "healthy",
                             targets |-> getHealthyTargets(tg)]]
        \/ /\ Decided(t, "UNKNOWN", "STARTING") /\ Faulty("err")
           /\ UNCHANGED tgCache
     /\ UNCHANGED <<label, aws, eureka, bridge, lbCache>>

\* ReregisterInstance
Post(t, o) ==
  /\ th[t].pc = "post"
  /\ eureka' = IF o = "err" THEN eureka
               ELSE [eureka EXCEPT ![th[t].found] = th[t].status]
  /\ Faulty(o)
  /\ th' = [th EXCEPT ![t] = Returned(t, o = "ok")]
  /\ UNCHANGED <<label, aws, bridge, caches, previousStatus>>

-----------------------------------------------------------------------------
(* The bridge, as far as it calls the adapter.                             *)

\* add has registered the service and tracks it.
Append(c) ==
  /\ th[c].pc = "append" /\ MutexFree
  /\ tracked' = tracked \cup {c}
  /\ th' = [th EXCEPT ![c] = Idle(c)]
  /\ UNCHANGED <<label, aws, eureka, leaving, rTodo, sTodo, caches,
                 previousStatus, faults>>

\* Variant: a container that has exited stays tracked.
RemoveKeeps(c) ==
  /\ c \in leaving /\ MutexFree
  /\ leaving' = leaving \ {c}
  /\ lbCache' = IF c \in tracked THEN [lbCache EXCEPT ![c] = None] ELSE lbCache
  /\ UNCHANGED <<label, aws, eureka, tracked, rTodo, sTodo, tgCache,
                 previousStatus, th, faults>>

\* remove: Deregister of a load balancer's entry only forgets what was cached
\* for the container, and is only called for a container that is tracked.
Remove(c) ==
  /\ c \in leaving /\ MutexFree
  /\ leaving' = leaving \ {c}
  /\ tracked' = tracked \ {c}
  /\ lbCache' = IF c \in tracked THEN [lbCache EXCEPT ![c] = None] ELSE lbCache
  /\ UNCHANGED <<label, aws, eureka, rTodo, sTodo, tgCache, previousStatus,
                 th, faults>>

\* Refresh copies what is tracked under the mutex, and goes through the copy
\* without it.
Refresh(c) ==
  LET copy == IF rTodo = {} THEN tracked ELSE rTodo
  IN /\ th["refresh"].pc = "idle" /\ c \in copy
     /\ rTodo # {} \/ MutexFree
     /\ rTodo' = copy \ {c}
     /\ th' = [th EXCEPT !["refresh"] = [Idle(c) EXCEPT !.pc = "find"]]
     /\ UNCHANGED <<label, aws, eureka, tracked, leaving, sTodo, caches,
                    previousStatus, faults>>

\* serviceSync: adds are started for running containers that are not
\* tracked, the others are registered again.
SyncList ==
  /\ th["sync"].pc \in {"list"} \cup (IF Resync THEN {"idle"} ELSE {})
  /\ sTodo' = tracked \cap running
  /\ th' = [t \in Threads |->
              IF t = "sync" THEN [Idle(None) EXCEPT !.pc = "loop"]
              ELSE IF t \in running \ tracked /\ th[t].pc = "idle"
              THEN [Idle(t) EXCEPT !.pc = "find"] ELSE th[t]]
  /\ UNCHANGED <<label, aws, eureka, tracked, leaving, rTodo, caches,
                 previousStatus, faults>>

SyncRegister(c) ==
  /\ th["sync"].pc = "loop" /\ c \in sTodo
  /\ sTodo' = sTodo \ {c}
  /\ th' = [th EXCEPT !["sync"] = [Idle(c) EXCEPT !.pc = "find"]]
  /\ UNCHANGED <<label, aws, eureka, tracked, leaving, rTodo, caches,
                 previousStatus, faults>>

\* With Cleanup, containers that are tracked and have exited are removed.
SyncEnd ==
  /\ th["sync"].pc = "loop" /\ sTodo = {}
  /\ leaving' = IF Cleanup THEN leaving \cup (tracked \ running) ELSE leaving
  /\ th' = [th EXCEPT !["sync"] = Idle(None)]
  /\ UNCHANGED <<label, aws, eureka, tracked, rTodo, sTodo, caches,
                 previousStatus, faults>>

\* getAllTargetGroups reads NextMarker of a page before it looks at the error
\* it got instead of the page: the process ends, and a new one is started.
Panic(t) ==
  /\ ManyPages /\ Searches(t, Unnamed) /\ Faulty("err")
  /\ tracked' = {} /\ leaving' = {} /\ rTodo' = {} /\ sTodo' = {}
  /\ lbCache' = [c \in Containers |-> None]
  /\ tgCache' = [tg \in TargetGroups |-> None]
  /\ previousStatus' = [c \in Containers |-> "none"]
  /\ th' = NewProcess
  /\ UNCHANGED <<label, aws, eureka>>

-----------------------------------------------------------------------------
Init ==
  /\ label \in Labels
  /\ running \in SUBSET Containers
  /\ target = [c \in Containers |-> "none"]
  /\ wasHealthy = {}
  /\ eureka = [tg \in TargetGroups |-> "none"]
  /\ tracked = {} /\ leaving = {} /\ rTodo = {} /\ sTodo = {}
  /\ lbCache = [c \in Containers |-> None]
  /\ tgCache = [tg \in TargetGroups |-> None]
  /\ previousStatus = [c \in Containers |-> "none"]
  /\ th = NewProcess
  /\ events = 0 /\ turns = 0 /\ faults = 0

CallStep(t) ==
  \/ Find(t) \/ Describe(t) \/ Search(t) \/ Probe(t) \/ Fetch(t) \/ Detail(t)
  \/ GetStatus(t) \/ Decide(t) \/ Health(t)
  \/ \E o \in Outcome : Post(t, o)

AddStep(c) == CallStep(c) \/ Append(c)

RefreshStep ==
  \/ (\E c \in Containers : Refresh(c)) \/ Beat \/ CallStep("refresh")

SyncStep ==
  \/ SyncList \/ (\E c \in Containers : SyncRegister(c)) \/ SyncEnd
  \/ CallStep("sync")

HostStep ==
  \E c \in Containers : \/ Start(c) \/ Stop(c)
                        \/ TargetAdded(c) \/ TargetTurns(c)

Next ==
  \/ HostStep
  \/ \E c \in Containers : AddStep(c) \/ Remove(c)
  \/ RefreshStep \/ SyncStep
  \/ \E tg \in TargetGroups : \/ LeaseEnds(tg) \/ LoseEntry(tg)
                              \/ CacheExpires(tg)
  \/ \E t \in Threads : Panic(t)

Spec == Init /\ [][Next]_vars

\* Goroutines that can run do, the tickers tick, time passes, and one that
\* waits for the mutex gets it when it is free often enough.
Fairness ==
  /\ \A c \in Containers : SF_vars(AddStep(c)) /\ SF_vars(Remove(c))
  /\ SF_vars(RefreshStep) /\ WF_vars(SyncStep)
  /\ \A tg \in TargetGroups : /\ WF_vars(CacheExpires(tg))
                              /\ WF_vars(LeaseEnds(tg))

FairSpec == Spec /\ Fairness

-----------------------------------------------------------------------------
\* UP is never made up: the endpoint of a target group is UP in Eureka only
\* if one of its targets has been healthy.  The status passes from container
\* to container through the entry, from one life of a container to the next
\* through previousStatus, and through cached lists.
UpWasHealthy ==
  \A tg \in TargetGroups : eureka[tg] = "UP" => tg \in wasHealthy

Serves(c) == c \in running /\ target[c] = "healthy"

\* A container that goes on running, and is healthy, gets its endpoint UP and
\* keeps it there, whatever failed, was lost, or was cached under the wrong
\* type; containers whose service is looked for in the wrong cluster excepted.
ComesUp ==
  \A c \in Containers :
    \/ label[c] = "elsewhere"
    \/ <>[]Serves(c) => <>[](eureka[TgOf[c]] = "UP")

\* As long as the status of a load balancer is not established as UP, the
\* heartbeats of a healthy container that is tracked check it again.
HeartbeatEstablishesUp ==
  \A c \in Containers :
    <>[](Serves(c) /\ c \in tracked) => <>[](eureka[TgOf[c]] = "UP")

\* When all containers of a target group are gone, its entry is left to
\* expire, and does expire for good, given -resync and -cleanup: without them
\* a container that is tracked after it has exited keeps the entry alive.
Drops ==
  \A tg \in TargetGroups :
    <>[](\A c \in running : TgOf[c] # tg) => <>[](eureka[tg] = "none")

=============================================================================
