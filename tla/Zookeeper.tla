------------------------------ MODULE Zookeeper -----------------------------
(***************************************************************************)
(* The zookeeper adapter (zookeeper/zookeeper.go) under several bridges    *)
(* that publish services of the same names: a base node for each name, and *)
(* under it an ephemeral node for each service.                            *)
(*                                                                         *)
(* Register and Deregister are rows of remote calls, and nothing keeps     *)
(* those of two bridges, or of a refresh and a removal, from interleaving. *)
(* Most of their errors are logged and forgotten.                          *)
(*                                                                         *)
(* Of the bridge this module has what decides which calls can overlap: the *)
(* goroutine of a container, which starts to remove when it has finished   *)
(* to add (other orders are the subject of Bridge), the copy that Refresh  *)
(* works on, and the mutex, which remove holds while it deregisters.       *)
(***************************************************************************)
EXTENDS Integers, FiniteSets

CONSTANTS
  Services,
  Hosts,       \* each with one registrator process
  Names,
  HostOf,      \* the host a service runs on
  NameOf,      \* the name it is published under
  None,
  MaxEvents,   \* bound: container starts and stops
  MaxEnds,     \* bound: sessions that expire, processes that end
  MaxFaults    \* bound: failed calls

ASSUME ZookeeperAssumption ==
  /\ HostOf \in [Services -> Hosts] /\ NameOf \in [Services -> Names]
  /\ None \notin Services /\ Services \cap Hosts = {}
  /\ MaxEvents \in Nat /\ MaxEnds \in Nat /\ MaxFaults \in Nat

Threads == Services \cup Hosts   \* the refresh of a host, and the others

VARIABLES
  root,        \* the base path of the URI exists
  bases,       \* names whose base node exists
  leaf,        \* the node of each service: none, of the current session of
               \* its host, or of an old one
  refreshing,  \* -ttl-refresh is set
  running,
  tracked,     \* Bridge.services
  pc, job,     \* where each goroutine is, and with which service
  rTodo,       \* copies that Bridge.Refresh has still to send
  events, ends, faults   \* how often each happened

tree == <<root, bases, leaf>>
counts == <<events, ends>>
vars == <<tree, refreshing, running, tracked, pc, job, rTodo, counts, faults>>

Removing == {"delete", "children", "deleteBase"}

-----------------------------------------------------------------------------
(* Zookeeper.  A call is answered, refused, or carried out although the    *)
(* caller gets an error.                                                   *)

Outcome == {"ok", "err", "lost"}

Faulty(o) ==
  IF o = "ok" THEN UNCHANGED faults
              ELSE faults < MaxFaults /\ faults' = faults + 1

Children(n) == {s \in Services : NameOf[s] = n /\ leaf[s] # "none"}

\* The server ends the session of a host, and its ephemeral nodes with it;
\* the client opens a new one.
SessionExpires(h) ==
  /\ \E s \in Services : HostOf[s] = h /\ leaf[s] = "current"
  /\ ends < MaxEnds /\ ends' = ends + 1
  /\ leaf' = [s \in Services |-> IF HostOf[s] = h /\ leaf[s] = "current"
                                 THEN "none" ELSE leaf[s]]
  /\ UNCHANGED <<root, bases, refreshing, running, tracked, pc, job, rTodo,
                 events, faults>>

\* The nodes of a process that is gone live until its session times out.
OldExpires(s) ==
  /\ leaf[s] = "old"
  /\ leaf' = [leaf EXCEPT ![s] = "none"]
  /\ UNCHANGED <<root, bases, refreshing, running, tracked, pc, job, rTodo,
                 counts, faults>>

-----------------------------------------------------------------------------
(* The adapter                                                             *)

\* Factory.New: neither an error of Exists nor one of Create is fatal.
New(h, o) ==
  /\ pc[h] = "new" /\ Faulty(o)
  /\ root' = (root \/ o # "err")
  /\ pc' = [t \in Threads |->
              IF t = h THEN "idle"
              ELSE IF t \in running /\ HostOf[t] = h THEN "exists" ELSE pc[t]]
  /\ UNCHANGED <<bases, leaf, refreshing, running, tracked, job, rTodo, counts>>

\* Register returns: add goes on, Refresh takes the next service.
Registered(t, ok) ==
  pc' = [pc EXCEPT ![t] = IF t \in Services /\ ok THEN "append" ELSE "idle"]

\* Register: only an error of Exists gets to the caller.
Exists(t) ==
  /\ pc[t] = "exists"
  /\ \/ /\ pc' = [pc EXCEPT ![t] = IF NameOf[job[t]] \in bases
                                   THEN "createLeaf" ELSE "createBase"]
        /\ UNCHANGED faults
     \/ Registered(t, FALSE) /\ Faulty("err")
  /\ UNCHANGED <<tree, refreshing, running, tracked, job, rTodo, counts>>

\* Variant: an error of the first Create ends Register.
CreateBaseOrFail(t, o) ==
  LET n == NameOf[job[t]]
  IN /\ pc[t] = "createBase" /\ Faulty(o)
     /\ bases' = IF root /\ o # "err" THEN bases \cup {n} ELSE bases
     /\ IF root /\ o = "ok" /\ n \notin bases
        THEN pc' = [pc EXCEPT ![t] = "createLeaf"]
        ELSE Registered(t, FALSE)
     /\ UNCHANGED <<root, leaf, refreshing, running, tracked, job, rTodo,
                    counts>>

\* Another goroutine, or another bridge, can have created it meanwhile.
CreateBase(t, o) ==
  /\ pc[t] = "createBase" /\ Faulty(o)
  /\ bases' = IF root /\ o # "err" THEN bases \cup {NameOf[job[t]]} ELSE bases
  /\ pc' = [pc EXCEPT ![t] = "createLeaf"]
  /\ UNCHANGED <<root, leaf, refreshing, running, tracked, job, rTodo, counts>>

\* Create needs the base node, and no node of that path, of whatever session.
CreateLeaf(t, o) ==
  LET s == job[t]
  IN /\ pc[t] = "createLeaf" /\ Faulty(o)
     /\ leaf' = IF o # "err" /\ NameOf[s] \in bases /\ leaf[s] = "none"
                THEN [leaf EXCEPT ![s] = "current"] ELSE leaf
     /\ Registered(t, TRUE)
     /\ UNCHANGED <<root, bases, refreshing, running, tracked, job, rTodo,
                    counts>>

\* Deregister
Delete(s, o) ==
  /\ pc[s] = "delete" /\ Faulty(o)
  /\ leaf' = IF o = "err" THEN leaf ELSE [leaf EXCEPT ![s] = "none"]
  /\ pc' = [pc EXCEPT ![s] = "children"]
  /\ UNCHANGED <<root, bases, refreshing, running, tracked, job, rTodo, counts>>

\* remove forgets the service whatever Deregister returns.
Removed(s) ==
  /\ pc' = [pc EXCEPT ![s] = "idle"]
  /\ tracked' = tracked \ {s}

\* Variant: as if the node of the service were still listed.
ListOneChild(s) ==
  /\ pc[s] = "children"
  /\ \/ /\ Cardinality(Children(NameOf[s])) = 1 /\ UNCHANGED tracked
        /\ pc' = [pc EXCEPT ![s] = "deleteBase"]
     \/ Cardinality(Children(NameOf[s])) # 1 /\ Removed(s)
  /\ UNCHANGED <<tree, refreshing, running, job, rTodo, counts, faults>>

\* No children are listed when the call fails, or the base node is gone.
ListChildren(s) ==
  /\ pc[s] = "children"
  /\ \/ /\ Children(NameOf[s]) = {} /\ UNCHANGED <<tracked, faults>>
        /\ pc' = [pc EXCEPT ![s] = "deleteBase"]
     \/ Children(NameOf[s]) # {} /\ Removed(s) /\ UNCHANGED faults
     \/ /\ Faulty("err") /\ UNCHANGED tracked
        /\ pc' = [pc EXCEPT ![s] = "deleteBase"]
  /\ UNCHANGED <<tree, refreshing, running, job, rTodo, counts>>

\* Zookeeper does not delete a node that has children.
DeleteBase(s, o) ==
  /\ pc[s] = "deleteBase" /\ Faulty(o)
  /\ bases' = IF o # "err" /\ Children(NameOf[s]) = {}
              THEN bases \ {NameOf[s]} ELSE bases
  /\ Removed(s)
  /\ UNCHANGED <<root, leaf, refreshing, running, job, rTodo, counts>>

-----------------------------------------------------------------------------
(* The bridge, as far as it calls the adapter                              *)

MutexFree(h) == \A s \in Services : HostOf[s] = h => pc[s] \notin Removing

Start(s) ==
  /\ s \notin running \cup tracked
  /\ pc[s] = "idle" /\ pc[HostOf[s]] # "new"
  /\ events < MaxEvents /\ events' = events + 1
  /\ running' = running \cup {s}
  /\ pc' = [pc EXCEPT ![s] = "exists"]
  /\ UNCHANGED <<tree, refreshing, tracked, job, rTodo, ends, faults>>

Append(s) ==
  /\ pc[s] = "append" /\ MutexFree(HostOf[s])
  /\ tracked' = tracked \cup {s}
  /\ pc' = [pc EXCEPT ![s] = "idle"]
  /\ UNCHANGED <<tree, refreshing, running, job, rTodo, counts, faults>>

\* Variant: the service of a container that has ended is only forgotten.
StopForgets(s) ==
  /\ s \in running
  /\ pc[s] = "idle" /\ pc[HostOf[s]] # "new" /\ MutexFree(HostOf[s])
  /\ events < MaxEvents /\ events' = events + 1
  /\ running' = running \ {s} /\ tracked' = tracked \ {s}
  /\ UNCHANGED <<tree, refreshing, pc, job, rTodo, ends, faults>>

\* The container of a service ends; one that is tracked is deregistered.
Stop(s) ==
  /\ s \in running
  /\ pc[s] = "idle" /\ pc[HostOf[s]] # "new" /\ MutexFree(HostOf[s])
  /\ events < MaxEvents /\ events' = events + 1
  /\ running' = running \ {s}
  /\ pc' = IF s \in tracked THEN [pc EXCEPT ![s] = "delete"] ELSE pc
  /\ UNCHANGED <<tree, refreshing, tracked, job, rTodo, ends, faults>>

\* Refresh copies what is tracked under the mutex, and goes through the copy
\* without it: each service is registered again.
Refresh(h, s) ==
  LET mine == {v \in tracked : HostOf[v] = h}
      copy == IF rTodo[h] = {} THEN mine ELSE rTodo[h]
  IN /\ refreshing /\ pc[h] = "idle" /\ s \in copy
     /\ rTodo[h] # {} \/ MutexFree(h)
     /\ rTodo' = [rTodo EXCEPT ![h] = copy \ {s}]
     /\ pc' = [pc EXCEPT ![h] = "exists"]
     /\ job' = [job EXCEPT ![h] = s]
     /\ UNCHANGED <<tree, refreshing, running, tracked, counts, faults>>

\* The process ends, and a new one is started.
Restart(h) ==
  /\ pc[h] # "new" /\ ends < MaxEnds /\ ends' = ends + 1
  /\ leaf' = [s \in Services |-> IF HostOf[s] = h /\ leaf[s] = "current"
                                 THEN "old" ELSE leaf[s]]
  /\ tracked' = {s \in tracked : HostOf[s] # h}
  /\ pc' = [t \in Threads |->
              IF t = h THEN "new"
              ELSE IF t \in Services /\ HostOf[t] = h THEN "idle" ELSE pc[t]]
  /\ rTodo' = [rTodo EXCEPT ![h] = {}]
  /\ UNCHANGED <<root, bases, refreshing, running, job, events, faults>>

-----------------------------------------------------------------------------
Init ==
  /\ root \in BOOLEAN /\ bases = {}
  /\ leaf = [s \in Services |-> "none"]
  /\ refreshing \in BOOLEAN
  /\ running \in SUBSET Services /\ tracked = {}
  /\ pc = [t \in Threads |-> IF t \in Hosts THEN "new" ELSE "idle"]
  /\ job = [t \in Threads |-> IF t \in Hosts THEN None ELSE t]
  /\ rTodo = [h \in Hosts |-> {}]
  /\ events = 0 /\ ends = 0 /\ faults = 0

RegisterStep(t) ==
  Exists(t) \/ \E o \in Outcome : CreateBase(t, o) \/ CreateLeaf(t, o)

ContainerStep(s) ==
  \/ RegisterStep(s) \/ Append(s) \/ ListChildren(s)
  \/ \E o \in Outcome : Delete(s, o) \/ DeleteBase(s, o)

HostStep(h) ==
  \/ \E o \in Outcome : New(h, o)
  \/ RegisterStep(h) \/ \E s \in Services : Refresh(h, s)

Next ==
  \/ \E s \in Services : Start(s) \/ Stop(s) \/ ContainerStep(s) \/ OldExpires(s)
  \/ \E h \in Hosts : HostStep(h) \/ SessionExpires(h) \/ Restart(h)

Spec == Init /\ [][Next]_vars

\* Goroutines that can run do, the ticker ticks, sessions without a client
\* time out, and who waits for the mutex gets it in the end.
Fairness ==
  /\ \A s \in Services : SF_vars(ContainerStep(s)) /\ WF_vars(OldExpires(s))
  /\ \A h \in Hosts : SF_vars(HostStep(h))

FairSpec == Spec /\ Fairness

-----------------------------------------------------------------------------
\* With -ttl-refresh, a service that goes on running gets its node and keeps
\* it, although Register reports success when it has created nothing, another
\* bridge deletes the base node it has just checked, a session ends, or the
\* node of an earlier process is still there when it registers.  The base path
\* must exist; and add does not try again when a call of Exists fails.
Published ==
  \A s \in Services :
    <>[](/\ refreshing /\ root /\ s \in running
         /\ s \in tracked \/ faults = 0) => <>[](leaf[s] # "none")

\* Whoever calls Deregister for a service, or has tracked it, or is about to.
Owned(s) == s \in tracked \/ pc[s] # "idle"

\* Without -ttl-refresh, and when no call fails, the nodes of a live session
\* are those of services that are tracked, or being added or removed.
NoStrayNode ==
  ~refreshing /\ faults = 0 =>
    \A s \in Services : leaf[s] = "current" => Owned(s)

\* Services are deregistered automatically: unless a call fails, no node of a
\* live session stays behind when nobody knows its service any more.
Deregistered ==
  faults = 0 =>
    \A s \in Services :
      leaf[s] = "current" => Owned(s) \/ pc[HostOf[s]] # "idle"

\* Unless a call fails or a session ends, the last service of a name to go
\* takes the base node with it, in whatever order bridges delete, list and
\* create.
BaseSwept ==
  faults = 0 /\ ends = 0 /\ (\A t \in Threads : pc[t] \in {"idle", "new"}) =>
    \A n \in bases : Children(n) # {}

=============================================================================
