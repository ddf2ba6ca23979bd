--------------------------- MODULE ElbProofs ---------------------------------
(* An invariant of Elb, and the steps of a call of the adapter that keep it. *)
EXTENDS Elb, TLAPS

\* What the provers need to know of the constants.
LEMMA Constants ==
  /\ TgOf \in [Containers -> TargetGroups]
  /\ None \notin TargetGroups /\ None \notin Containers
  /\ Retries \in Nat /\ MaxFaults \in Nat /\ MaxEvents \in Nat
  /\ MaxTurns \in Nat
  /\ "refresh" \notin Containers /\ "sync" \notin Containers
  /\ \A t \in Threads : t \in Containers \/ t = "refresh" \/ t = "sync"
BY ElbAssumption DEF Threads

\* A goroutine works on its own container's target group, and a status UP it
\* is about to post was seen for that group.
Sound(r) ==
  /\ r \in Goroutine
  /\ r.pc \notin {"idle", "list", "loop"} => r.job \in Containers
  /\ r.found # None => r.job \in Containers /\ r.found = TgOf[r.job]
  /\ r.pc \in {"detail", "beat", "status", "decide", "health", "post"}
       => r.found # None
  /\ r.pc \in {"probe", "fetch"} => r.left # {}
  /\ r.pc = "health" => r.left = {TgOf[r.job]}
  /\ r.pc = "post" => r.status \in {"STARTING", "UP"}
  /\ r.status = "UP" => r.job \in Containers /\ TgOf[r.job] \in wasHealthy

SoundThreads == \A t \in Threads : Sound(th[t])

\* The statuses that Decide trusts.
SoundStatuses ==
  /\ UpWasHealthy
  /\ \A c \in Containers : previousStatus[c] = "UP" => TgOf[c] \in wasHealthy

\* The cached values, of either type.
SoundCaches ==
  /\ \A c \in Containers : lbCache[c] # None => lbCache[c] = TgOf[c]
  /\ \A tg \in TargetGroups : tgCache[tg] # None =>
       /\ \A c \in tgCache[tg].targets : TgOf[c] = tg
       /\ tgCache[tg].type = "healthy" /\ tgCache[tg].targets # {}
            => tg \in wasHealthy

SoundTargets ==
  \A c \in Containers : target[c] = "healthy" => TgOf[c] \in wasHealthy

ElbInv ==
  TypeOK /\ SoundThreads /\ SoundStatuses /\ SoundCaches /\ SoundTargets

-----------------------------------------------------------------------------
(* One goroutine is given another record.                                  *)

LEMMA SetThread ==
  ASSUME TypeOK, SoundThreads, NEW t \in Threads, NEW r, Sound(r),
         th' = [th EXCEPT ![t] = r], UNCHANGED wasHealthy
  PROVE  SoundThreads' /\ th' \in [Threads -> Goroutine]
<1>1. \A u \in Threads : th'[u] = IF u = t THEN r ELSE th[u]
  BY DEF TypeOK
<1>2. \A u \in Threads : Sound(th'[u])
  BY <1>1 DEF SoundThreads
<1>3. \A u \in Threads : Sound(th[u])'
  BY <1>2 DEF Sound
<1>4. th' \in [Threads -> Goroutine]
  BY DEF TypeOK, Sound
<1> QED BY <1>3, <1>4 DEF SoundThreads

LEMMA IdleSound ==
  ASSUME NEW c \in Containers \cup {None}, NEW n \in 0..Retries,
         NEW l \in {"idle", "list", "loop", "find", "append"},
         l \in {"find", "append"} => c \in Containers
  PROVE  Sound([Idle(c) EXCEPT !.pc = l, !.tries = n])
BY Constants, Zenon DEF Sound, Idle, Goroutine, Status

LEMMA ReturnedSound ==
  ASSUME NEW t \in Threads, NEW ok \in BOOLEAN
  PROVE  Sound(Returned(t, ok))
<1>1. 0 \in 0..Retries
  BY Constants
<1>2. \A c \in Containers \cup {None} :
        /\ Sound(Idle(c))
        /\ Sound([Idle(c) EXCEPT !.pc = "loop"])
        /\ Sound([Idle(c) EXCEPT !.pc = @])
        /\ c \in Containers => Sound([Idle(c) EXCEPT !.pc = "append"])
  BY Constants DEF Sound, Idle, Goroutine, Status
<1> QED BY <1>2, Zenon DEF Returned

ThreadsKept == SoundThreads' /\ th' \in [Threads -> Goroutine]

LEMMA NotFoundSound ==
  ASSUME TypeOK, SoundThreads, NEW t \in Threads, th[t].job \in Containers,
         NotFound(t), UNCHANGED wasHealthy
  PROVE  ThreadsKept
<1>1. th[t].tries \in 0..Retries
  BY DEF TypeOK, Goroutine
<1>2. CASE t # "refresh" /\ th[t].tries < Retries
  <2>1. th[t].tries + 1 \in 0..Retries
    BY <1>1, <1>2, Constants
  <2>2. Sound([Idle(th[t].job) EXCEPT !.pc = "find",
                                      !.tries = th[t].tries + 1])
    BY <2>1, IdleSound, Zenon
  <2> QED BY <1>2, <2>2, SetThread, Zenon DEF NotFound, ThreadsKept
<1>3. CASE ~(t # "refresh" /\ th[t].tries < Retries)
  BY <1>3, ReturnedSound, SetThread, Zenon DEF NotFound, ThreadsKept
<1> QED BY <1>2, <1>3

LEMMA FoundSound ==
  ASSUME TypeOK, SoundThreads, NEW t \in Threads, th[t].job \in Containers,
         th[t].pc \in {"find", "detail"},
         NEW tg, tg = TgOf[th[t].job], Found(t, tg), UNCHANGED wasHealthy
  PROVE  ThreadsKept
<1> DEFINE r == [th[t] EXCEPT !.pc = IF t = "refresh" THEN "beat"
                                                      ELSE "status",
                              !.found = tg]
<1>1. th[t] \in Goroutine /\ Sound(th[t])
  BY DEF TypeOK, SoundThreads
<1>2. th' = [th EXCEPT ![t] = r]
  BY Zenon DEF Found, TypeOK
<1>3. tg \in TargetGroups /\ tg # None
  BY Constants
<1>4. Sound(r)
  BY <1>1, <1>3, Zenon DEF Sound, Goroutine
<1> QED BY <1>2, <1>4, SetThread, Zenon DEF ThreadsKept

LEMMA DecidedSound ==
  ASSUME TypeOK, SoundThreads, SoundStatuses, NEW t \in Threads,
         th[t].pc \in {"decide", "health"}, UNCHANGED <<wasHealthy, eureka>>,
         NEW new \in Status, NEW registration \in {"STARTING", "UP"},
         Decided(t, new, registration),
         new = "UP" => TgOf[th[t].job] \in wasHealthy,
         registration = "UP" => TgOf[th[t].job] \in wasHealthy
  PROVE  /\ ThreadsKept /\ SoundStatuses'
         /\ previousStatus' \in [Containers -> Status]
<1> DEFINE r == [th[t] EXCEPT !.pc = "post", !.status = registration]
<1>1. th[t] \in Goroutine /\ Sound(th[t]) /\ th[t].job \in Containers
  BY DEF TypeOK, SoundThreads, Sound
<1>2. th' = [th EXCEPT ![t] = r]
  BY Zenon DEF Decided, TypeOK
<1>3. Sound(r)
  BY <1>1, Zenon DEF Sound, Goroutine, Status
<1>4. ThreadsKept
  BY <1>2, <1>3, SetThread, Zenon DEF ThreadsKept
<1>5. /\ previousStatus \in [Containers -> Status]
      /\ previousStatus' = [previousStatus EXCEPT ![th[t].job] = new]
  BY DEF TypeOK, Decided
<1>6. previousStatus' \in [Containers -> Status]
  BY <1>5, Zenon
<1>7. SoundStatuses'
  BY <1>1, <1>5 DEF SoundStatuses, UpWasHealthy
<1> QED BY <1>4, <1>6, <1>7

LEMMA CountedSound ==
  ASSUME TypeOK, SoundThreads, SoundStatuses, NEW t \in Threads,
         th[t].pc \in {"decide", "health"}, UNCHANGED <<wasHealthy, eureka>>,
         NEW thList, Counted(t, thList),
         thList # {} => TgOf[th[t].job] \in wasHealthy
  PROVE  /\ ThreadsKept /\ SoundStatuses'
         /\ previousStatus' \in [Containers -> Status]
BY DecidedSound DEF Counted, Status

\* A target that DescribeTargetHealth lists belongs to the target group.
LEMMA ComparedSound ==
  ASSUME TypeOK, SoundThreads, NEW t \in Threads,
         th[t].pc \in {"probe", "fetch"}, UNCHANGED wasHealthy,
         NEW targets, Compared(t, targets),
         \A c \in targets : TgOf[c] = NextGroup(th[t].left)
  PROVE  ThreadsKept
<1>1. th[t] \in Goroutine /\ Sound(th[t]) /\ th[t].job \in Containers
  BY DEF TypeOK, SoundThreads, Sound
<1> DEFINE tg == NextGroup(th[t].left)
           left == th[t].left \ {tg}
           tgArn == IF th[t].job \in targets THEN tg ELSE th[t].found
           r == [th[t] EXCEPT !.left = left, !.found = tgArn,
                   !.pc = IF left # {} THEN "probe" ELSE "detail"]
<1>2. CASE left = {} /\ tgArn = None
  BY <1>1, <1>2, NotFoundSound DEF Compared
<1>3. CASE ~(left = {} /\ tgArn = None)
  <2>1. th' = [th EXCEPT ![t] = r]
    BY <1>3, Zenon DEF Compared, TypeOK
  <2>2. left \subseteq TargetGroups
    BY <1>1 DEF Goroutine
  <2>3. tgArn # None => tgArn = TgOf[th[t].job]
    BY <1>1 DEF Sound
  <2>4. tgArn \in TargetGroups \cup {None}
    BY <1>1, <2>3, Constants
  <2> HIDE DEF left, tgArn
  <2>5. Sound(r)
    BY <1>1, <1>3, <2>2, <2>3, <2>4, Zenon DEF Sound, Goroutine
  <2> QED BY <2>1, <2>5, SetThread, Zenon DEF ThreadsKept
<1> QED BY <1>2, <1>3

-----------------------------------------------------------------------------
(* The steps of a call.                                                    *)

LEMMA FaultyType ==
  ASSUME TypeOK, NEW o, Faulty(o)
  PROVE  faults' \in 0..MaxFaults
BY Constants DEF TypeOK, Faulty

\* A step that only changes a goroutine and the number of faults.
LEMMA QuietStep ==
  ASSUME ElbInv, ThreadsKept, faults' \in 0..MaxFaults,
         UNCHANGED <<label, aws, eureka, bridge, caches, previousStatus>>
  PROVE  ElbInv'
<1>1. TypeOK'
  BY DEF ElbInv, TypeOK, ThreadsKept, aws, bridge, caches
<1>2. SoundStatuses' /\ SoundCaches' /\ SoundTargets'
  BY DEF ElbInv, SoundStatuses, UpWasHealthy, SoundCaches, SoundTargets, aws,
         caches
<1> QED BY <1>1, <1>2 DEF ElbInv, ThreadsKept

LEMMA DescribeInv ==
  ASSUME ElbInv, NEW t \in Threads, Describe(t)
  PROVE  ElbInv'
<1> DEFINE r == [th[t] EXCEPT !.pc = "detail", !.found = TgOf[th[t].job]]
<1>1. th[t] \in Goroutine /\ Sound(th[t]) /\ th[t].job \in Containers
  BY DEF ElbInv, TypeOK, SoundThreads, Sound, Describe, Searches
<1>2. UNCHANGED <<label, aws, eureka, bridge, caches, previousStatus>>
  BY DEF Describe
<1>3. faults' \in 0..MaxFaults
  BY FaultyType DEF Describe, ElbInv, TypeOK
<1>4. ASSUME th' = [th EXCEPT ![t].pc = "detail", ![t].found = TgOf[th[t].job]]
      PROVE  ThreadsKept
  <2>1. th' = [th EXCEPT ![t] = r]
    BY <1>4, Zenon DEF ElbInv, TypeOK
  <2>2. TgOf[th[t].job] \in TargetGroups /\ TgOf[th[t].job] # None
    BY <1>1, Constants
  <2>3. Sound(r)
    BY <1>1, <2>2, Zenon DEF Sound, Goroutine
  <2> QED BY <1>2, <2>1, <2>3, SetThread, Zenon DEF ThreadsKept, ElbInv, aws
<1>5. ASSUME NotFound(t)
      PROVE  ThreadsKept
  BY <1>1, <1>2, <1>5, NotFoundSound DEF ElbInv, aws
<1>6. ThreadsKept
  BY <1>4, <1>5 DEF Describe
<1> QED BY <1>2, <1>3, <1>6, QuietStep

LEMMA SearchInv ==
  ASSUME ElbInv, NEW t \in Threads, Search(t)
  PROVE  ElbInv'
<1> DEFINE r == [th[t] EXCEPT !.pc = "probe", !.left = TargetGroups]
<1>1. th[t] \in Goroutine /\ Sound(th[t]) /\ th[t].job \in Containers
  BY DEF ElbInv, TypeOK, SoundThreads, Sound, Search, Searches
<1>2. UNCHANGED <<label, aws, eureka, bridge, caches, previousStatus>>
  BY DEF Search
<1>3. faults' \in 0..MaxFaults
  BY FaultyType DEF Search, ElbInv, TypeOK
<1>4. ASSUME th' = [th EXCEPT ![t].pc = "probe", ![t].left = TargetGroups]
      PROVE  ThreadsKept
  <2>1. th' = [th EXCEPT ![t] = r]
    BY <1>4, Zenon DEF ElbInv, TypeOK
  <2>2. TargetGroups # {}
    BY <1>1, Constants
  <2>3. Sound(r)
    BY <1>1, <2>2, Zenon DEF Sound, Goroutine
  <2> QED BY <1>2, <2>1, <2>3, SetThread, Zenon DEF ThreadsKept, ElbInv, aws
<1>5. ASSUME NotFound(t)
      PROVE  ThreadsKept
  BY <1>1, <1>2, <1>5, NotFoundSound DEF ElbInv, aws
<1>6. ThreadsKept
  BY <1>4, <1>5 DEF Search
<1> QED BY <1>2, <1>3, <1>6, QuietStep

LEMMA ProbeInv ==
  ASSUME ElbInv, NEW t \in Threads, Probe(t)
  PROVE  ElbInv'
<1> DEFINE tg == NextGroup(th[t].left)
           r == [th[t] EXCEPT !.pc = "fetch"]
<1>1. /\ th[t] \in Goroutine /\ Sound(th[t]) /\ th[t].pc = "probe"
      /\ th[t].left # {}
  BY DEF ElbInv, TypeOK, SoundThreads, Sound, Probe
<1>2. /\ UNCHANGED <<label, aws, eureka, bridge, caches, previousStatus>>
      /\ faults' \in 0..MaxFaults
  BY DEF Probe, ElbInv, TypeOK
<1>3. tg \in TargetGroups
  BY <1>1 DEF NextGroup, Goroutine
<1>4. ASSUME tgCache[tg] = None
      PROVE  ThreadsKept
  <2>1. th' = [th EXCEPT ![t] = r]
    BY <1>4 DEF Probe, Goto, ElbInv, TypeOK
  <2>2. Sound(r)
    BY <1>1 DEF Sound, Goroutine
  <2> QED BY <1>2, <2>1, <2>2, SetThread, Zenon DEF ThreadsKept, ElbInv, aws
<1>5. ASSUME tgCache[tg] # None
      PROVE  ThreadsKept
  <2> DEFINE targets == IF tgCache[tg].type = "output"
                        THEN tgCache[tg].targets ELSE {}
  <2>1. Compared(t, targets)
    BY <1>5 DEF Probe
  <2>2. \A c \in targets : TgOf[c] = tg
    BY <1>3, <1>5 DEF ElbInv, SoundCaches
  <2> HIDE DEF targets
  <2> QED BY <1>1, <1>2, <2>1, <2>2, ComparedSound DEF ElbInv, aws
<1> QED BY <1>2, <1>4, <1>5, QuietStep

LEMMA BeatInv ==
  ASSUME ElbInv, Beat
  PROVE  ElbInv'
<1> DEFINE t == "refresh"
           r == [th[t] EXCEPT !.pc = "status"]
<1>1. t \in Threads /\ th[t] \in Goroutine /\ Sound(th[t]) /\ th[t].pc = "beat"
  BY DEF ElbInv, TypeOK, SoundThreads, Beat, Threads
<1>2. /\ UNCHANGED <<label, aws, eureka, bridge, caches, previousStatus>>
      /\ faults' \in 0..MaxFaults
  BY DEF Beat, ElbInv, TypeOK
<1>3. ASSUME th' = [th EXCEPT !["refresh"].pc = "status"]
      PROVE  ThreadsKept
  <2>1. th' = [th EXCEPT ![t] = r]
    BY <1>3 DEF ElbInv, TypeOK
  <2>2. Sound(r)
    BY <1>1 DEF Sound, Goroutine
  <2> QED BY <1>1, <1>2, <2>1, <2>2, SetThread, Zenon DEF ThreadsKept, ElbInv, aws
<1>4. ASSUME th' = [th EXCEPT !["refresh"] = Returned("refresh", TRUE)]
      PROVE  ThreadsKept
  BY <1>1, <1>2, <1>4, ReturnedSound, SetThread, Zenon DEF ThreadsKept, ElbInv, aws
<1>5. ThreadsKept
  BY <1>3, <1>4, Zenon DEF Beat, Goto
<1> QED BY <1>2, <1>5, QuietStep

LEMMA GetStatusInv ==
  ASSUME ElbInv, NEW t \in Threads, GetStatus(t)
  PROVE  ElbInv'
<1>1. /\ th[t] \in Goroutine /\ Sound(th[t]) /\ th[t].pc = "status"
      /\ th[t].job \in Containers /\ th[t].found = TgOf[th[t].job]
  BY DEF ElbInv, TypeOK, SoundThreads, Sound, GetStatus
<1>2. UNCHANGED <<label, aws, eureka, bridge, caches, previousStatus>>
  BY DEF GetStatus
<1>3. faults' \in 0..MaxFaults
  BY FaultyType DEF GetStatus, ElbInv, TypeOK
<1>4. PICK status : /\ th' = [th EXCEPT ![t].pc = "decide",
                                        ![t].status = status]
                    /\ \/ status = "UNKNOWN"
                       \/ status = eureka[th[t].found]
  BY DEF GetStatus
<1> DEFINE r == [th[t] EXCEPT !.pc = "decide", !.status = status]
<1>5. th' = [th EXCEPT ![t] = r]
  BY <1>4, Zenon DEF ElbInv, TypeOK
<1>6. status \in Status /\ (status = "UP" => th[t].found \in wasHealthy)
  BY <1>1, <1>4, Constants
  DEF ElbInv, TypeOK, Status, SoundStatuses, UpWasHealthy
<1>7. Sound(r)
  BY <1>1, <1>6, Zenon DEF Sound, Goroutine
<1>8. ThreadsKept
  BY <1>2, <1>5, <1>7, SetThread, Zenon DEF ThreadsKept, ElbInv, aws
<1> QED BY <1>2, <1>3, <1>8, QuietStep

\* The same for a step that changes a cache too.
LEMMA CachingStep ==
  ASSUME ElbInv, ThreadsKept, faults' \in 0..MaxFaults,
         lbCache' \in [Containers -> TargetGroups \cup {None}],
         tgCache' \in [TargetGroups -> Cached \cup {None}], SoundCaches',
         UNCHANGED <<label, aws, eureka, bridge, previousStatus>>
  PROVE  ElbInv'
<1>1. TypeOK'
  BY DEF ElbInv, TypeOK, ThreadsKept, aws, bridge
<1>2. SoundStatuses' /\ SoundTargets'
  BY DEF ElbInv, SoundStatuses, UpWasHealthy, SoundTargets, aws
<1> QED BY <1>1, <1>2 DEF ElbInv, ThreadsKept

\* What has been found for a container is its own target group.
LEMMA LbCached ==
  ASSUME TypeOK, SoundCaches, NEW c \in Containers,
         lbCache' = [lbCache EXCEPT ![c] = TgOf[c]],
         UNCHANGED <<wasHealthy, tgCache>>
  PROVE  /\ lbCache' \in [Containers -> TargetGroups \cup {None}]
         /\ tgCache' \in [TargetGroups -> Cached \cup {None}]
         /\ SoundCaches'
BY Constants, Zenon DEF TypeOK, SoundCaches

LEMMA TgCached ==
  ASSUME TypeOK, SoundCaches, NEW tg \in TargetGroups, NEW value \in Cached,
         tgCache' = [tgCache EXCEPT ![tg] = value],
         \A c \in value.targets : TgOf[c] = tg,
         value.type = "healthy" /\ value.targets # {} => tg \in wasHealthy,
         UNCHANGED <<wasHealthy, lbCache>>
  PROVE  /\ lbCache' \in [Containers -> TargetGroups \cup {None}]
         /\ tgCache' \in [TargetGroups -> Cached \cup {None}]
         /\ SoundCaches'
<1>1. \A x \in TargetGroups : tgCache'[x] = IF x = tg THEN value
                                                      ELSE tgCache[x]
  BY DEF TypeOK
<1>2. SoundCaches'
  BY <1>1 DEF SoundCaches
<1> QED BY <1>2 DEF TypeOK

LEMMA FindInv ==
  ASSUME ElbInv, NEW t \in Threads, Find(t)
  PROVE  ElbInv'
<1> DEFINE c == th[t].job
<1>1. th[t].pc = "find" /\ c \in Containers
  BY DEF ElbInv, SoundThreads, Sound, Find
<1>2. /\ UNCHANGED <<label, aws, eureka, bridge, previousStatus, tgCache>>
      /\ faults' \in 0..MaxFaults /\ UNCHANGED wasHealthy
  BY DEF Find, ElbInv, TypeOK, aws
<1>3. \/ lbCache' = [lbCache EXCEPT ![c] = TgOf[c]] /\ Found(t, TgOf[c])
      \/ UNCHANGED lbCache /\ lbCache[c] # None /\ Found(t, lbCache[c])
  BY DEF Find
<1>4. lbCache[c] # None => lbCache[c] = TgOf[c]
  BY <1>1 DEF ElbInv, SoundCaches
<1>5. ThreadsKept
  BY <1>1, <1>2, <1>3, <1>4, FoundSound DEF ElbInv
<1>6. UNCHANGED lbCache => lbCache' = [lbCache EXCEPT ![c] = lbCache[c]]
  BY DEF ElbInv, TypeOK
<1>7. lbCache' = [lbCache EXCEPT ![c] = TgOf[c]]
  BY <1>3, <1>4, <1>6
<1>8. /\ lbCache' \in [Containers -> TargetGroups \cup {None}]
      /\ tgCache' \in [TargetGroups -> Cached \cup {None}] /\ SoundCaches'
  BY <1>1, <1>2, <1>7, LbCached, Zenon DEF ElbInv
<1> QED BY <1>2, <1>5, <1>8, CachingStep

LEMMA DetailInv ==
  ASSUME ElbInv, NEW t \in Threads, Detail(t)
  PROVE  ElbInv'
<1> DEFINE c == th[t].job
<1>1. th[t].pc = "detail" /\ c \in Containers /\ th[t].found = TgOf[c]
  BY DEF ElbInv, SoundThreads, Sound, Detail
<1>2. UNCHANGED <<label, aws, eureka, bridge, previousStatus, tgCache,
                  wasHealthy>>
  BY DEF Detail, aws
<1>3. faults' \in 0..MaxFaults
  BY FaultyType DEF Detail, ElbInv, TypeOK
<1>4. \/ lbCache' = [lbCache EXCEPT ![c] = TgOf[c]] /\ Found(t, TgOf[c])
      \/ UNCHANGED lbCache /\ NotFound(t)
  BY <1>1 DEF Detail
<1>5. ThreadsKept
  BY <1>1, <1>2, <1>4, FoundSound, NotFoundSound DEF ElbInv
<1>6. /\ lbCache' \in [Containers -> TargetGroups \cup {None}]
      /\ tgCache' \in [TargetGroups -> Cached \cup {None}] /\ SoundCaches'
  <2>1. CASE lbCache' = [lbCache EXCEPT ![c] = TgOf[c]]
    BY <1>1, <1>2, <2>1, LbCached, Zenon DEF ElbInv
  <2>2. CASE UNCHANGED lbCache
    BY <1>2, <2>2 DEF ElbInv, TypeOK, SoundCaches
  <2> QED BY <1>4, <2>1, <2>2
<1> QED BY <1>2, <1>3, <1>5, <1>6, CachingStep

LEMMA FetchInv ==
  ASSUME ElbInv, NEW t \in Threads, Fetch(t)
  PROVE  ElbInv'
<1> DEFINE tg == NextGroup(th[t].left)
           value == [type |-> "output", targets |-> Members(tg)]
<1>1. /\ th[t] \in Goroutine /\ th[t].pc = "fetch" /\ th[t].left # {}
      /\ th[t].job \in Containers
  BY DEF ElbInv, TypeOK, SoundThreads, Sound, Fetch
<1>2. UNCHANGED <<label, aws, eureka, bridge, previousStatus, lbCache,
                  wasHealthy>>
  BY DEF Fetch, aws
<1>3. faults' \in 0..MaxFaults
  BY FaultyType DEF Fetch, ElbInv, TypeOK
<1>4. tg \in TargetGroups
  BY <1>1 DEF NextGroup, Goroutine
<1>5. value \in Cached /\ \A c \in Members(tg) : TgOf[c] = tg
  BY DEF Cached, Members
<1>6. \/ Compared(t, Members(tg)) /\ tgCache' = [tgCache EXCEPT ![tg] = value]
      \/ NotFound(t) /\ UNCHANGED tgCache
  BY DEF Fetch
<1> HIDE DEF tg
<1>7. ThreadsKept
  BY <1>1, <1>2, <1>5, <1>6, ComparedSound, NotFoundSound DEF ElbInv, tg
<1>8. /\ lbCache' \in [Containers -> TargetGroups \cup {None}]
      /\ tgCache' \in [TargetGroups -> Cached \cup {None}] /\ SoundCaches'
  <2>1. CASE tgCache' = [tgCache EXCEPT ![tg] = value]
    BY <1>2, <1>4, <1>5, <2>1, TgCached, Zenon DEF ElbInv
  <2>2. CASE UNCHANGED tgCache
    BY <1>2, <2>2 DEF ElbInv, TypeOK, SoundCaches
  <2> QED BY <1>6, <2>1, <2>2
<1> QED BY <1>2, <1>3, <1>7, <1>8, CachingStep

\* The same for a step that changes previousStatus too.
LEMMA StatusStep ==
  ASSUME ElbInv, ThreadsKept, faults' \in 0..MaxFaults, SoundStatuses',
         previousStatus' \in [Containers -> Status],
         UNCHANGED <<label, aws, eureka, bridge, caches>>
  PROVE  ElbInv'
<1>1. TypeOK'
  BY DEF ElbInv, TypeOK, ThreadsKept, aws, bridge, caches
<1>2. SoundCaches' /\ SoundTargets'
  BY DEF ElbInv, SoundCaches, SoundTargets, aws, caches
<1> QED BY <1>1, <1>2 DEF ElbInv, ThreadsKept

LEMMA DecideInv ==
  ASSUME ElbInv, NEW t \in Threads, Decide(t)
  PROVE  ElbInv'
<1> DEFINE c == th[t].job
           tg == lbCache[c]
           Kept == /\ ThreadsKept /\ SoundStatuses'
                   /\ previousStatus' \in [Containers -> Status]
<1>1. /\ th[t] \in Goroutine /\ Sound(th[t]) /\ th[t].pc = "decide"
      /\ c \in Containers
  BY DEF ElbInv, TypeOK, SoundThreads, Sound, Decide
<1>2. /\ UNCHANGED <<label, aws, eureka, bridge, caches, wasHealthy, lbCache,
                     tgCache, target>>
      /\ faults' \in 0..MaxFaults
  BY DEF Decide, aws, caches, ElbInv, TypeOK
<1>3. tg # None => tg = TgOf[c] /\ tg \in TargetGroups
  BY <1>1, Constants DEF ElbInv, SoundCaches
<1>4. CASE th[t].status = "UP" \/ previousStatus[c] = "UP"
  <2>1. TgOf[c] \in wasHealthy
    BY <1>1, <1>4 DEF Sound, ElbInv, SoundStatuses
  <2>2. Kept
    BY <1>1, <1>2, <1>4, <2>1, DecidedSound DEF Decide, ElbInv, Status
  <2> QED BY <1>2, <2>2, StatusStep
<1>5. CASE tg = None /\ ~(th[t].status = "UP" \/ previousStatus[c] = "UP")
  <2>1. Kept
    BY <1>1, <1>2, <1>5, DecidedSound DEF Decide, ElbInv, Status
  <2> QED BY <1>2, <2>1, StatusStep
<1>6. CASE /\ tg # None /\ tgCache[tg] = None
           /\ ~(th[t].status = "UP" \/ previousStatus[c] = "UP")
  <2> DEFINE r == [th[t] EXCEPT !.pc = "health", !.left = {tg}]
  <2>1. th' = [th EXCEPT ![t] = r] /\ UNCHANGED previousStatus
    BY <1>6, Zenon DEF Decide, ElbInv, TypeOK
  <2>2. Sound(r)
    BY <1>1, <1>3, <1>6, Zenon DEF Sound, Goroutine
  <2>3. ThreadsKept
    BY <1>2, <2>1, <2>2, SetThread, Zenon DEF ThreadsKept, ElbInv
  <2> QED BY <1>2, <2>1, <2>3, QuietStep
<1>7. CASE /\ tg # None /\ tgCache[tg] # None
           /\ ~(th[t].status = "UP" \/ previousStatus[c] = "UP")
  <2> DEFINE thList == IF tgCache[tg].type = "healthy"
                       THEN tgCache[tg].targets ELSE {}
  <2>1. Counted(t, thList)
    BY <1>7 DEF Decide
  <2>2. thList # {} => TgOf[c] \in wasHealthy
    BY <1>3, <1>7 DEF ElbInv, SoundCaches
  <2> HIDE DEF thList
  <2>3. Kept
    BY <1>1, <1>2, <2>1, <2>2, CountedSound DEF ElbInv
  <2> QED BY <1>2, <2>3, StatusStep
<1> QED BY <1>4, <1>5, <1>6, <1>7

LEMMA HealthInv ==
  ASSUME ElbInv, NEW t \in Threads, Health(t)
  PROVE  ElbInv'
<1> DEFINE c == th[t].job
           tg == TgOf[c]
           value == [type |-> "healthy", targets |-> getHealthyTargets(tg)]
           Kept == /\ ThreadsKept /\ SoundStatuses'
                   /\ previousStatus' \in [Containers -> Status]
<1>1. th[t].pc = "health" /\ c \in Containers /\ th[t].left = {tg}
  BY DEF ElbInv, SoundThreads, Sound, Health
<1>2. tg = NextGroup(th[t].left) /\ tg \in TargetGroups
  BY <1>1, Constants DEF NextGroup
<1>3. UNCHANGED <<label, aws, eureka, bridge, lbCache, wasHealthy, target>>
  BY DEF Health, aws
<1>4. faults' \in 0..MaxFaults
  BY FaultyType DEF Health, ElbInv, TypeOK
<1>5. /\ value \in Cached /\ \A d \in value.targets : TgOf[d] = tg
      /\ getHealthyTargets(tg) # {} => tg \in wasHealthy
  BY DEF Cached, getHealthyTargets, HealthyMembers, Members, ElbInv,
         SoundTargets
<1>6. \/ /\ Counted(t, getHealthyTargets(tg))
         /\ tgCache' = [tgCache EXCEPT ![tg] = value]
      \/ Decided(t, "UNKNOWN", "STARTING") /\ UNCHANGED tgCache
  BY <1>2 DEF Health
<1> HIDE DEF tg
<1>7. Kept
  <2>1. CASE Counted(t, getHealthyTargets(tg))
    BY <1>1, <1>3, <1>5, <2>1, CountedSound DEF ElbInv, tg
  <2>2. CASE Decided(t, "UNKNOWN", "STARTING")
    BY <1>1, <1>3, <2>2, DecidedSound DEF ElbInv, Status
  <2> QED BY <1>6, <2>1, <2>2
<1>8. /\ lbCache' \in [Containers -> TargetGroups \cup {None}]
      /\ tgCache' \in [TargetGroups -> Cached \cup {None}] /\ SoundCaches'
  <2>1. CASE tgCache' = [tgCache EXCEPT ![tg] = value]
    BY <1>2, <1>3, <1>5, <2>1, TgCached, Zenon DEF ElbInv
  <2>2. CASE UNCHANGED tgCache
    BY <1>3, <2>2 DEF ElbInv, TypeOK, SoundCaches
  <2> QED BY <1>6, <2>1, <2>2
<1> HIDE DEF Kept
<1>9. TypeOK'
  BY <1>3, <1>4, <1>7, <1>8 DEF ElbInv, TypeOK, ThreadsKept, aws, bridge, Kept
<1>10. SoundTargets'
  BY <1>3 DEF ElbInv, SoundTargets
<1> QED BY <1>7, <1>8, <1>9, <1>10 DEF ElbInv, ThreadsKept, Kept

LEMMA PostInv ==
  ASSUME ElbInv, NEW t \in Threads, NEW o \in Outcome, Post(t, o)
  PROVE  ElbInv'
<1> DEFINE r == Returned(t, o = "ok")
<1>1. /\ th[t] \in Goroutine /\ Sound(th[t]) /\ th[t].job \in Containers
      /\ th[t].found = TgOf[th[t].job] /\ th[t].found \in TargetGroups
  BY Constants DEF ElbInv, TypeOK, SoundThreads, Sound, Post
<1>2. UNCHANGED <<label, aws, bridge, caches, previousStatus, wasHealthy>>
  BY DEF Post, aws
<1>3. faults' \in 0..MaxFaults
  BY FaultyType DEF Post, ElbInv
<1>4. th' = [th EXCEPT ![t] = r] /\ Sound(r)
  BY ReturnedSound, Zenon DEF Post
<1> HIDE DEF r
<1>5. ThreadsKept
  BY <1>2, <1>4, SetThread, Zenon DEF ThreadsKept, ElbInv
<1>6. /\ eureka \in [TargetGroups -> {"none", "STARTING", "UP"}]
      /\ \/ UNCHANGED eureka
         \/ eureka' = [eureka EXCEPT ![th[t].found] = th[t].status]
  BY DEF Post, ElbInv, TypeOK
<1>7. th[t].status \in {"none", "STARTING", "UP"}
  BY <1>1 DEF Sound, Post
<1>8. eureka' \in [TargetGroups -> {"none", "STARTING", "UP"}]
  BY <1>6, <1>7
<1>9. SoundStatuses'
  BY <1>1, <1>2, <1>6 DEF ElbInv, SoundStatuses, UpWasHealthy, Sound
<1>10. TypeOK'
  BY <1>2, <1>3, <1>5, <1>8 DEF ElbInv, TypeOK, ThreadsKept, aws, bridge,
                                caches
<1>11. SoundCaches' /\ SoundTargets'
  BY <1>2, Zenon DEF ElbInv, SoundCaches, SoundTargets, aws, caches
<1> QED BY <1>5, <1>9, <1>10, <1>11 DEF ElbInv, ThreadsKept

LEMMA CallInv ==
  ASSUME ElbInv, NEW t \in Threads, CallStep(t)
  PROVE  ElbInv'
BY FindInv, DescribeInv, SearchInv, ProbeInv, FetchInv, DetailInv,
   GetStatusInv, DecideInv, HealthInv, PostInv
DEF CallStep


-----------------------------------------------------------------------------
(* The host, the load balancer and time.                                   *)

\* A goroutine starts with a container, or is done with it.
LEMMA SetIdle ==
  ASSUME TypeOK, SoundThreads, NEW t \in Threads,
         NEW c \in Containers \cup {None}, UNCHANGED wasHealthy,
         \/ th' = [th EXCEPT ![t] = Idle(c)]
         \/ /\ th' = [th EXCEPT ![t] = [Idle(c) EXCEPT !.pc = "find"]]
            /\ c \in Containers
  PROVE  ThreadsKept
<1>1. /\ Sound(Idle(c))
      /\ c \in Containers => Sound([Idle(c) EXCEPT !.pc = "find"])
  BY Constants DEF Sound, Idle, Goroutine, Status
<1> QED BY <1>1, SetThread DEF ThreadsKept

LEMMA StartInv ==
  ASSUME ElbInv, NEW c \in Containers, Start(c)
  PROVE  ElbInv'
<1>1. c \in Threads /\ c \in Containers \cup {None}
  BY DEF Threads
<1>2. ThreadsKept
  BY <1>1, SetIdle, Zenon DEF Start, ElbInv
<1>3. TypeOK'
  BY <1>2, Constants DEF ElbInv, TypeOK, ThreadsKept, Start, bridge, caches
<1>4. SoundStatuses' /\ SoundCaches' /\ SoundTargets'
  BY DEF ElbInv, SoundStatuses, UpWasHealthy, SoundCaches, SoundTargets, Start,
         caches
<1> QED BY <1>2, <1>3, <1>4 DEF ElbInv, ThreadsKept

LEMMA StopInv ==
  ASSUME ElbInv, NEW c \in Containers, Stop(c)
  PROVE  ElbInv'
<1>1. TypeOK'
  BY Constants DEF ElbInv, TypeOK, Stop, caches
<1>2. SoundThreads'
  BY DEF ElbInv, SoundThreads, Sound, Stop
<1>3. SoundStatuses' /\ SoundCaches'
  BY Zenon DEF ElbInv, SoundStatuses, UpWasHealthy, SoundCaches, Stop, caches
<1>4. SoundTargets'
  BY DEF ElbInv, TypeOK, SoundTargets, Stop
<1> QED BY <1>1, <1>2, <1>3, <1>4 DEF ElbInv

LEMMA TargetAddedInv ==
  ASSUME ElbInv, NEW c \in Containers, TargetAdded(c)
  PROVE  ElbInv'
<1>1. TypeOK'
  BY DEF ElbInv, TypeOK, TargetAdded, bridge, caches
<1>2. SoundThreads'
  BY DEF ElbInv, SoundThreads, Sound, TargetAdded
<1>3. SoundStatuses' /\ SoundCaches'
  BY DEF ElbInv, SoundStatuses, UpWasHealthy, SoundCaches, TargetAdded, caches
<1>4. SoundTargets'
  BY DEF ElbInv, TypeOK, SoundTargets, TargetAdded
<1> QED BY <1>1, <1>2, <1>3, <1>4 DEF ElbInv

\* This is where a target group enters wasHealthy.
LEMMA TargetTurnsInv ==
  ASSUME ElbInv, NEW c \in Containers, TargetTurns(c)
  PROVE  ElbInv'
<1>1. /\ wasHealthy \subseteq wasHealthy' /\ wasHealthy' \subseteq TargetGroups
      /\ target[c] # "healthy" => TgOf[c] \in wasHealthy'
  BY Constants, Zenon DEF ElbInv, TypeOK, TargetTurns
<1>2. turns' \in 0..MaxTurns
  BY Constants DEF ElbInv, TypeOK, TargetTurns
<1>3. /\ target' \in [Containers -> {"none", "unhealthy", "healthy"}]
      /\ UNCHANGED <<label, running, events, eureka, bridge, caches,
                     previousStatus, th, faults>>
  BY DEF ElbInv, TypeOK, TargetTurns
<1>4. TypeOK'
  BY <1>1, <1>2, <1>3 DEF ElbInv, TypeOK, bridge, caches
<1>5. SoundThreads'
  BY <1>1, <1>3 DEF ElbInv, SoundThreads, Sound
<1>6. SoundStatuses' /\ SoundCaches'
  BY <1>1, <1>3, Zenon DEF ElbInv, SoundStatuses, UpWasHealthy, SoundCaches, caches
<1>7. SoundTargets'
  <2>1. /\ target' = [target EXCEPT ![c] = IF target[c] = "healthy"
                                           THEN "unhealthy" ELSE "healthy"]
        /\ target \in [Containers -> {"none", "unhealthy", "healthy"}]
    BY DEF ElbInv, TypeOK, TargetTurns
  <2>2. target'[c] = "healthy" => TgOf[c] \in wasHealthy'
    BY <1>1, <2>1
  <2>3. ASSUME NEW d \in Containers, d # c, target'[d] = "healthy"
        PROVE  TgOf[d] \in wasHealthy'
    BY <1>1, <2>1, <2>3 DEF ElbInv, SoundTargets
  <2> QED BY <2>2, <2>3 DEF SoundTargets
<1> QED BY <1>4, <1>5, <1>6, <1>7 DEF ElbInv

LEMMA EntryGoneInv ==
  ASSUME ElbInv, NEW tg \in TargetGroups, LeaseEnds(tg) \/ LoseEntry(tg)
  PROVE  ElbInv'
<1>1. /\ eureka' = [eureka EXCEPT ![tg] = "none"]
      /\ UNCHANGED <<label, aws, bridge, caches, previousStatus, th>>
  BY DEF LeaseEnds, LoseEntry
<1>2. faults' \in 0..MaxFaults
  BY FaultyType DEF LeaseEnds, LoseEntry, ElbInv, TypeOK
<1>3. TypeOK'
  BY <1>1, <1>2 DEF ElbInv, TypeOK, aws, bridge, caches
<1>4. SoundThreads'
  BY <1>1 DEF ElbInv, SoundThreads, Sound, aws
<1>5. SoundStatuses'
  BY <1>1 DEF ElbInv, TypeOK, SoundStatuses, UpWasHealthy, aws
<1>6. SoundCaches' /\ SoundTargets'
  BY <1>1 DEF ElbInv, SoundCaches, SoundTargets, aws, caches
<1> QED BY <1>3, <1>4, <1>5, <1>6 DEF ElbInv

LEMMA CacheExpiresInv ==
  ASSUME ElbInv, NEW tg \in TargetGroups, CacheExpires(tg)
  PROVE  ElbInv'
<1>1. /\ tgCache' = [tgCache EXCEPT ![tg] = None]
      /\ UNCHANGED <<label, aws, eureka, bridge, lbCache, previousStatus, th>>
      /\ faults' \in 0..MaxFaults
  BY DEF CacheExpires, ElbInv, TypeOK
<1>2. ThreadsKept
  BY <1>1 DEF ElbInv, TypeOK, ThreadsKept, SoundThreads, Sound, aws
<1>3. /\ lbCache' \in [Containers -> TargetGroups \cup {None}]
      /\ tgCache' \in [TargetGroups -> Cached \cup {None}]
  BY <1>1 DEF ElbInv, TypeOK
<1>4. SoundCaches'
  BY <1>1 DEF ElbInv, TypeOK, SoundCaches, aws
<1> QED BY <1>1, <1>2, <1>3, <1>4, CachingStep

-----------------------------------------------------------------------------
(* The bridge.                                                             *)

\* Only what the bridge keeps for itself, and goroutines, change.
LEMMA BridgeStep ==
  ASSUME ElbInv, ThreadsKept,
         tracked' \subseteq Containers, leaving' \subseteq Containers,
         rTodo' \subseteq Containers, sTodo' \subseteq Containers,
         UNCHANGED <<label, aws, eureka, caches, previousStatus, faults>>
  PROVE  ElbInv'
<1>1. TypeOK'
  BY DEF ElbInv, TypeOK, ThreadsKept, aws, caches
<1>2. SoundStatuses' /\ SoundCaches' /\ SoundTargets'
  BY DEF ElbInv, SoundStatuses, UpWasHealthy, SoundCaches, SoundTargets, aws,
         caches
<1> QED BY <1>1, <1>2 DEF ElbInv, ThreadsKept

LEMMA AppendInv ==
  ASSUME ElbInv, NEW c \in Containers, Append(c)
  PROVE  ElbInv'
<1>1. ThreadsKept
  BY SetIdle, Zenon DEF Append, ElbInv, Threads, aws
<1> QED BY <1>1, BridgeStep DEF Append, ElbInv, TypeOK

LEMMA RemoveInv ==
  ASSUME ElbInv, NEW c \in Containers, Remove(c)
  PROVE  ElbInv'
<1>1. TypeOK'
  <2>1. lbCache' \in [Containers -> TargetGroups \cup {None}]
    BY DEF Remove, ElbInv, TypeOK
  <2> QED BY <2>1 DEF Remove, ElbInv, TypeOK, aws
<1>2. SoundThreads'
  BY Zenon DEF Remove, ElbInv, SoundThreads, Sound, aws
<1>3. SoundCaches'
  BY DEF Remove, ElbInv, TypeOK, SoundCaches, aws
<1>4. SoundStatuses' /\ SoundTargets'
  BY Zenon DEF Remove, ElbInv, SoundStatuses, UpWasHealthy, SoundTargets, aws
<1> QED BY <1>1, <1>2, <1>3, <1>4 DEF ElbInv

LEMMA RefreshInv ==
  ASSUME ElbInv, NEW c \in Containers, Refresh(c)
  PROVE  ElbInv'
<1>1. ThreadsKept
  BY SetIdle, Zenon DEF Refresh, ElbInv, Threads, aws
<1>2. rTodo' \subseteq Containers
  BY DEF Refresh, ElbInv, TypeOK
<1> QED BY <1>1, <1>2, BridgeStep DEF Refresh, ElbInv, TypeOK

LEMMA SyncRegisterInv ==
  ASSUME ElbInv, NEW c \in Containers, SyncRegister(c)
  PROVE  ElbInv'
<1>1. ThreadsKept
  BY SetIdle, Zenon DEF SyncRegister, ElbInv, Threads, aws
<1> QED BY <1>1, BridgeStep DEF SyncRegister, ElbInv, TypeOK

LEMMA SyncEndInv ==
  ASSUME ElbInv, SyncEnd
  PROVE  ElbInv'
<1>1. ThreadsKept
  BY SetIdle, Zenon DEF SyncEnd, ElbInv, Threads, aws
<1>2. leaving' \subseteq Containers
  BY DEF SyncEnd, ElbInv, TypeOK
<1> QED BY <1>1, <1>2, BridgeStep DEF SyncEnd, ElbInv, TypeOK

LEMMA SyncListInv ==
  ASSUME ElbInv, SyncList
  PROVE  ElbInv'
<1>1. /\ Sound([Idle(None) EXCEPT !.pc = "loop"])
      /\ \A c \in Containers : Sound([Idle(c) EXCEPT !.pc = "find"])
  BY Constants DEF Sound, Idle, Goroutine, Status
<1>2. /\ UNCHANGED <<label, aws, eureka, caches, previousStatus, faults>>
      /\ UNCHANGED <<tracked, leaving, rTodo, wasHealthy>>
      /\ sTodo' \subseteq Containers
  BY DEF SyncList, ElbInv, TypeOK, aws
<1>3. \A t \in Threads : \/ th'[t] = [Idle(None) EXCEPT !.pc = "loop"]
                         \/ /\ th'[t] = [Idle(t) EXCEPT !.pc = "find"]
                            /\ t \in Containers
                         \/ th'[t] = th[t]
  BY DEF SyncList, ElbInv, TypeOK
<1>4. \A t \in Threads : Sound(th'[t])
  BY <1>1, <1>3, Zenon DEF ElbInv, SoundThreads
<1>5. th' \in [Threads -> Goroutine]
  <2>1. th' = [t \in Threads |-> th'[t]]
    BY DEF SyncList
  <2> QED BY <1>4, <2>1 DEF Sound
<1>6. ThreadsKept
  BY <1>2, <1>4, <1>5 DEF ThreadsKept, SoundThreads, Sound
<1> QED BY <1>2, <1>6, BridgeStep DEF ElbInv, TypeOK

LEMMA NewProcessSound ==
  /\ NewProcess \in [Threads -> Goroutine]
  /\ \A t \in Threads : Sound(NewProcess[t])
<1>1. /\ Sound([Idle(None) EXCEPT !.pc = "list"])
      /\ \A c \in Containers \cup {None} : Sound(Idle(c))
  BY Constants DEF Sound, Idle, Goroutine, Status
<1>2. \A t \in Threads : Sound(NewProcess[t])
  BY <1>1, Constants DEF NewProcess
<1> QED BY <1>2 DEF Sound, NewProcess

LEMMA PanicInv ==
  ASSUME ElbInv, NEW t \in Threads, Panic(t)
  PROVE  ElbInv'
<1>1. UNCHANGED <<label, aws, eureka, wasHealthy>> /\ th' = NewProcess
  BY DEF Panic, aws
<1>2. faults' \in 0..MaxFaults
  BY FaultyType DEF Panic, ElbInv
<1>3. SoundThreads' /\ th' \in [Threads -> Goroutine]
  BY <1>1, NewProcessSound DEF SoundThreads, Sound
<1>4. TypeOK'
  BY <1>1, <1>2, <1>3 DEF Panic, ElbInv, TypeOK, aws, Status
<1>5. SoundStatuses'
  BY <1>1 DEF Panic, ElbInv, SoundStatuses, UpWasHealthy
<1>6. SoundCaches' /\ SoundTargets'
  BY <1>1 DEF Panic, ElbInv, SoundCaches, SoundTargets, aws
<1> QED BY <1>3, <1>4, <1>5, <1>6 DEF ElbInv

-----------------------------------------------------------------------------
LEMMA InitElbInv == Init => ElbInv
<1> SUFFICES ASSUME Init PROVE ElbInv
  OBVIOUS
<1>1. th = NewProcess /\ wasHealthy = {}
  BY DEF Init
<1>2. SoundThreads /\ th \in [Threads -> Goroutine]
  BY <1>1, NewProcessSound DEF SoundThreads
<1>3. TypeOK
  BY <1>2, Constants DEF Init, TypeOK, Status
<1>4. SoundStatuses /\ SoundCaches /\ SoundTargets
  BY DEF Init, SoundStatuses, UpWasHealthy, SoundCaches, SoundTargets
<1> QED BY <1>2, <1>3, <1>4 DEF ElbInv

LEMMA NextElbInv == ElbInv /\ [Next]_vars => ElbInv'
<1> SUFFICES ASSUME ElbInv, [Next]_vars PROVE ElbInv'
  OBVIOUS
<1>1. CASE HostStep
  BY <1>1, StartInv, StopInv, TargetAddedInv, TargetTurnsInv DEF HostStep
<1>2. ASSUME NEW c \in Containers, AddStep(c) \/ Remove(c)
      PROVE  ElbInv'
  BY <1>2, CallInv, AppendInv, RemoveInv DEF AddStep, Threads
<1>3. CASE RefreshStep
  BY <1>3, CallInv, BeatInv, RefreshInv DEF RefreshStep, Threads
<1>4. CASE SyncStep
  BY <1>4, CallInv, SyncListInv, SyncRegisterInv, SyncEndInv
  DEF SyncStep, Threads
<1>5. ASSUME NEW tg \in TargetGroups,
             LeaseEnds(tg) \/ LoseEntry(tg) \/ CacheExpires(tg)
      PROVE  ElbInv'
  BY <1>5, EntryGoneInv, CacheExpiresInv
<1>6. CASE \E t \in Threads : Panic(t)
  BY <1>6, PanicInv
<1>7. CASE UNCHANGED vars
  <2>1. UNCHANGED <<label, aws, eureka, bridge, caches, previousStatus, th,
                    faults>>
    BY <1>7 DEF vars
  <2>2. ThreadsKept /\ faults' \in 0..MaxFaults
    BY <2>1 DEF ElbInv, TypeOK, ThreadsKept, SoundThreads, Sound, aws
  <2> QED BY <2>1, <2>2, QuietStep
<1> QED BY <1>1, <1>2, <1>3, <1>4, <1>5, <1>6, <1>7 DEF Next

\* Whatever is cached, lost or read too early, and however many goroutines
\* decide at a time, an endpoint is UP in Eureka only if one of its targets
\* has been healthy.
THEOREM UpIsEarned == Spec => []UpWasHealthy
<1>1. ElbInv => UpWasHealthy
  BY DEF ElbInv, SoundStatuses
<1> QED BY <1>1, InitElbInv, NextElbInv, PTL DEF Spec
=============================================================================
