-------------------------- MODULE ZookeeperProofs ---------------------------
(* What NoStrayNode and BaseSwept rest on, for any number of services, hosts, *)
(* names, failures and ends of sessions.                                      *)
EXTENDS Zookeeper, TLAPS

Registering == {"exists", "createBase", "createLeaf"}
Container == {"idle", "append"} \cup Registering \cup Removing

TypeOK ==
  /\ bases \subseteq Names
  /\ leaf \in [Services -> {"none", "current", "old"}]
  /\ running \subseteq Services /\ tracked \subseteq Services
  /\ rTodo \in [Hosts -> SUBSET Services]
  /\ ends \in Nat /\ faults \in Nat

\* The goroutine of a container works for its service, and that of Refresh
\* for a service while it is in Register.
Jobs ==
  /\ pc \in [Threads -> {"new"} \cup Container]
  /\ job \in [Threads -> Services \cup {None}]
  /\ \A s \in Services : job[s] = s /\ pc[s] # "new"
  /\ \A h \in Hosts :
       /\ pc[h] \in {"new", "idle"} \cup Registering
       /\ pc[h] \in Registering => job[h] \in Services

\* Nothing goes on at a host before Factory.New returns, and without
\* -ttl-refresh only goroutines of containers call Register.
Control ==
  /\ Jobs
  /\ \A s \in Services : pc[HostOf[s]] = "new" => pc[s] = "idle"
  /\ ~refreshing => \A h \in Hosts : pc[h] \in {"new", "idle"}

\* The node that Deregister has deleted does not come back before it returns.
StaysDeleted ==
  ~refreshing /\ faults = 0 =>
    \A s \in Services :
      pc[s] \in {"children", "deleteBase"} => leaf[s] # "current"

\* Only the end of a process makes the nodes of a session old ones.
NoOldNode == ends = 0 => \A s \in Services : leaf[s] # "old"

\* Who will give the base node of a name a child, or look whether it has one.
Cares(t, n) ==
  pc[t] \in {"createLeaf", "children", "deleteBase"} /\ NameOf[job[t]] = n

\* A base node without children is on the mind of some goroutine.
CaredFor ==
  faults = 0 /\ ends = 0 =>
    \A n \in bases : Children(n) # {} \/ \E t \in Threads : Cares(t, n)

Nodes == StaysDeleted /\ NoStrayNode
Bases == NoOldNode /\ CaredFor

ZookeeperInv == TypeOK /\ Control /\ Nodes /\ Bases

-----------------------------------------------------------------------------
USE DEF Threads, Registering, Removing

\* A goroutine in Register goes on, or returns from it.
LEMMA RegisterMoves ==
  ASSUME Control, NEW t \in Threads, pc[t] \in Registering,
         NEW w \in Registering \cup {"idle", "append"},
         t \in Hosts => w # "append",
         pc' = [pc EXCEPT ![t] = w], UNCHANGED <<job, refreshing>>
  PROVE  Control'
<1>1. Jobs'
  BY ZookeeperAssumption DEF Control, Jobs, Container
<1> QED BY <1>1, ZookeeperAssumption DEF Control, Jobs

\* The goroutine of a container is started, goes on, or returns.
LEMMA ContainerMoves ==
  ASSUME Control, NEW s \in Services, NEW w \in Container,
         pc[s] # "idle" \/ pc[HostOf[s]] # "new",
         pc' = [pc EXCEPT ![s] = w], UNCHANGED <<job, refreshing>>
  PROVE  Control'
<1>1. Jobs'
  BY ZookeeperAssumption DEF Control, Jobs, Container
<1> QED BY <1>1, ZookeeperAssumption DEF Control, Jobs

\* A step that leaves the tree alone, and during which nobody who cares for a
\* base node stops to.
LEMMA BasesKept ==
  ASSUME Bases, UNCHANGED <<bases, leaf>>, UNCHANGED <<ends, faults>>,
         \A t \in Threads, n \in bases : Cares(t, n) => Cares(t, n)'
  PROVE  Bases'
<1>1. \A n \in bases : Children(n)' = Children(n)
  BY DEF Children
<1>2. CaredFor'
  BY <1>1 DEF Bases, CaredFor
<1> QED BY <1>2 DEF Bases, NoOldNode

LEMMA NewInv ==
  ASSUME ZookeeperInv, NEW h \in Hosts, NEW o \in Outcome, New(h, o)
  PROVE  ZookeeperInv'
<1>1. TypeOK'
  BY DEF ZookeeperInv, TypeOK, New, Faulty, counts
<1>2. Control'
  <2>1. /\ \A u \in Hosts : pc'[u] = IF u = h THEN "idle" ELSE pc[u]
        /\ \A u \in Services : pc'[u] \in {pc[u], "exists"}
        /\ \A u \in Services : HostOf[u] # h => pc'[u] = pc[u]
    BY ZookeeperAssumption DEF ZookeeperInv, TypeOK, New
  <2>2. Jobs'
    BY <2>1 DEF ZookeeperInv, Control, Jobs, Container, New
  <2> QED
    BY <2>1, <2>2, ZookeeperAssumption DEF ZookeeperInv, Control, Jobs, New
<1>3. Nodes'
  BY ZookeeperAssumption DEF ZookeeperInv, TypeOK, Control, Jobs, Nodes,
                             StaysDeleted, NoStrayNode, Owned, New, Faulty
<1>4. Bases'
  <2>1. CASE faults' = faults
    <3>1. \A u \in Threads, n \in bases : Cares(u, n) => Cares(u, n)'
      BY ZookeeperAssumption DEF ZookeeperInv, TypeOK, Control, Jobs, Cares,
                                 New
    <3> QED BY <2>1, <3>1, BasesKept DEF ZookeeperInv, New, counts
  <2>2. CASE faults' # faults
    BY <2>2 DEF ZookeeperInv, TypeOK, Bases, NoOldNode, CaredFor, New, Faulty,
                counts
  <2> QED BY <2>1, <2>2
<1> QED BY <1>1, <1>2, <1>3, <1>4 DEF ZookeeperInv

LEMMA ExistsInv ==
  ASSUME ZookeeperInv, NEW t \in Threads, Exists(t)
  PROVE  ZookeeperInv'
<1>1. TypeOK'
  BY DEF ZookeeperInv, TypeOK, Exists, Registered, Faulty, tree, counts
<1>2. Control'
  <2>1. PICK w \in Registering \cup {"idle"} : pc' = [pc EXCEPT ![t] = w]
    BY DEF Exists, Registered
  <2>2. w # "append" /\ pc[t] \in Registering /\ UNCHANGED <<job, refreshing>>
    BY <2>1 DEF Exists
  <2> QED BY <2>1, <2>2, RegisterMoves, Zenon DEF ZookeeperInv
<1>3. Nodes'
  BY DEF ZookeeperInv, TypeOK, Control, Jobs, Nodes, StaysDeleted,
         NoStrayNode, Owned, Exists, Registered, Faulty, tree
<1>4. Bases'
  BY DEF ZookeeperInv, TypeOK, Control, Jobs, Bases, NoOldNode, CaredFor,
         Cares, Children, Exists, Registered, Faulty, tree, counts
<1> QED BY <1>1, <1>2, <1>3, <1>4 DEF ZookeeperInv

LEMMA CreateBaseInv ==
  ASSUME ZookeeperInv, NEW t \in Threads, NEW o \in Outcome, CreateBase(t, o)
  PROVE  ZookeeperInv'
<1>1. TypeOK'
  BY ZookeeperAssumption DEF ZookeeperInv, TypeOK, Control, Jobs, CreateBase,
                             Faulty, counts
<1>2. Control'
  BY RegisterMoves, Zenon DEF ZookeeperInv, CreateBase
<1>3. Nodes'
  BY DEF ZookeeperInv, TypeOK, Control, Jobs, Nodes, StaysDeleted,
         NoStrayNode, Owned, CreateBase, Faulty
<1>4. Bases'
  BY DEF ZookeeperInv, TypeOK, Control, Jobs, Bases, NoOldNode, CaredFor,
         Cares, Children, CreateBase, Faulty, counts
<1> QED BY <1>1, <1>2, <1>3, <1>4 DEF ZookeeperInv

LEMMA CreateLeafInv ==
  ASSUME ZookeeperInv, NEW t \in Threads, NEW o \in Outcome, CreateLeaf(t, o)
  PROVE  ZookeeperInv'
<1>1. TypeOK'
  BY DEF ZookeeperInv, TypeOK, Control, Jobs, CreateLeaf, Faulty, counts
<1>2. Control'
  BY RegisterMoves, ZookeeperAssumption, Zenon DEF ZookeeperInv, CreateLeaf,
                                                   Registered
<1>3. Nodes'
  BY ZookeeperAssumption DEF ZookeeperInv, TypeOK, Control, Jobs, Nodes,
                             StaysDeleted, NoStrayNode, Owned, CreateLeaf,
                             Registered, Faulty
<1>4. Bases'
  BY DEF ZookeeperInv, TypeOK, Control, Jobs, Bases, NoOldNode, CaredFor,
         Cares, Children, CreateLeaf, Registered, Faulty, counts
<1> QED BY <1>1, <1>2, <1>3, <1>4 DEF ZookeeperInv

LEMMA DeleteInv ==
  ASSUME ZookeeperInv, NEW s \in Services, NEW o \in Outcome, Delete(s, o)
  PROVE  ZookeeperInv'
<1>1. TypeOK'
  BY DEF ZookeeperInv, TypeOK, Delete, Faulty, counts
<1>2. Control'
  BY ContainerMoves, Zenon DEF ZookeeperInv, Container, Delete
<1>3. Nodes'
  BY DEF ZookeeperInv, TypeOK, Control, Jobs, Nodes, StaysDeleted,
         NoStrayNode, Owned, Delete, Faulty
<1>4. Bases'
  BY DEF ZookeeperInv, TypeOK, Control, Jobs, Bases, NoOldNode, CaredFor,
         Cares, Children, Delete, Faulty, counts
<1> QED BY <1>1, <1>2, <1>3, <1>4 DEF ZookeeperInv

LEMMA DeleteBaseInv ==
  ASSUME ZookeeperInv, NEW s \in Services, NEW o \in Outcome, DeleteBase(s, o)
  PROVE  ZookeeperInv'
<1>1. TypeOK'
  BY DEF ZookeeperInv, TypeOK, DeleteBase, Removed, Faulty, counts
<1>2. Control'
  BY ContainerMoves, Zenon DEF ZookeeperInv, Container, DeleteBase, Removed
<1>3. Nodes'
  BY DEF ZookeeperInv, TypeOK, Control, Jobs, Nodes, StaysDeleted,
         NoStrayNode, Owned, DeleteBase, Removed, Faulty
<1>4. Bases'
  BY DEF ZookeeperInv, TypeOK, Control, Jobs, Bases, NoOldNode, CaredFor,
         Cares, Children, DeleteBase, Removed, Faulty, counts
<1> QED BY <1>1, <1>2, <1>3, <1>4 DEF ZookeeperInv

LEMMA ListChildrenInv ==
  ASSUME ZookeeperInv, NEW s \in Services, ListChildren(s)
  PROVE  ZookeeperInv'
<1>1. TypeOK'
  BY DEF ZookeeperInv, TypeOK, ListChildren, Removed, Faulty, tree, counts
<1>2. Control'
  BY ContainerMoves, Zenon DEF ZookeeperInv, Container, ListChildren, Removed
<1>3. Nodes'
  BY DEF ZookeeperInv, TypeOK, Control, Jobs, Nodes, StaysDeleted,
         NoStrayNode, Owned, ListChildren, Removed, Faulty, tree
<1>4. Bases'
  BY DEF ZookeeperInv, TypeOK, Control, Jobs, Bases, NoOldNode, CaredFor,
         Cares, Children, ListChildren, Removed, Faulty, tree, counts
<1> QED BY <1>1, <1>2, <1>3, <1>4 DEF ZookeeperInv

LEMMA StartInv ==
  ASSUME ZookeeperInv, NEW s \in Services, Start(s)
  PROVE  ZookeeperInv'
<1>1. TypeOK'
  BY DEF ZookeeperInv, TypeOK, Start, tree
<1>2. Control'
  BY ContainerMoves, Zenon DEF ZookeeperInv, Container, Start
<1>3. Nodes'
  BY DEF ZookeeperInv, TypeOK, Control, Jobs, Nodes, StaysDeleted,
         NoStrayNode, Owned, Start, tree
<1>4. Bases'
  <2>1. \A u \in Threads, n \in bases : Cares(u, n) => Cares(u, n)'
    BY DEF ZookeeperInv, Control, Jobs, Cares, Start
  <2> QED BY <2>1, BasesKept DEF ZookeeperInv, Start, tree
<1> QED BY <1>1, <1>2, <1>3, <1>4 DEF ZookeeperInv

LEMMA AppendInv ==
  ASSUME ZookeeperInv, NEW s \in Services, Append(s)
  PROVE  ZookeeperInv'
<1>1. TypeOK'
  BY DEF ZookeeperInv, TypeOK, Append, tree, counts
<1>2. Control'
  BY ContainerMoves, Zenon DEF ZookeeperInv, Container, Append
<1>3. Nodes'
  BY DEF ZookeeperInv, TypeOK, Control, Jobs, Nodes, StaysDeleted,
         NoStrayNode, Owned, Append, tree, counts
<1>4. Bases'
  <2>1. \A u \in Threads, n \in bases : Cares(u, n) => Cares(u, n)'
    BY DEF ZookeeperInv, Control, Jobs, Cares, Append
  <2> QED BY <2>1, BasesKept DEF ZookeeperInv, Append, tree, counts
<1> QED BY <1>1, <1>2, <1>3, <1>4 DEF ZookeeperInv

LEMMA StopInv ==
  ASSUME ZookeeperInv, NEW s \in Services, Stop(s)
  PROVE  ZookeeperInv'
<1>1. TypeOK'
  BY DEF ZookeeperInv, TypeOK, Stop, tree
<1>2. Control'
  <2>1. CASE s \in tracked
    BY <2>1, ContainerMoves, Zenon DEF ZookeeperInv, Container, Stop
  <2>2. CASE s \notin tracked
    BY <2>2 DEF ZookeeperInv, Control, Jobs, Stop
  <2> QED BY <2>1, <2>2
<1>3. Nodes'
  BY DEF ZookeeperInv, TypeOK, Control, Jobs, Nodes, StaysDeleted,
         NoStrayNode, Owned, Stop, tree
<1>4. Bases'
  <2>1. \A u \in Threads, n \in bases : Cares(u, n) => Cares(u, n)'
    BY DEF ZookeeperInv, Control, Jobs, Cares, Stop
  <2> QED BY <2>1, BasesKept DEF ZookeeperInv, Stop, tree
<1> QED BY <1>1, <1>2, <1>3, <1>4 DEF ZookeeperInv

LEMMA RefreshInv ==
  ASSUME ZookeeperInv, NEW h \in Hosts, NEW s \in Services, Refresh(h, s)
  PROVE  ZookeeperInv'
<1>1. TypeOK'
  BY DEF ZookeeperInv, TypeOK, Refresh, tree, counts
<1>2. Control'
  <2>1. refreshing' /\ pc' = [pc EXCEPT ![h] = "exists"]
        /\ job' = [job EXCEPT ![h] = s]
    BY DEF Refresh
  <2>2. Jobs'
    BY <2>1, ZookeeperAssumption DEF ZookeeperInv, Control, Jobs, Container
  <2> QED
    BY <2>1, <2>2, ZookeeperAssumption DEF ZookeeperInv, Control, Jobs
<1>3. Nodes'
  BY DEF Nodes, StaysDeleted, NoStrayNode, Refresh
<1>4. Bases'
  <2>1. \A u \in Threads, n \in bases : Cares(u, n) => Cares(u, n)'
    BY DEF ZookeeperInv, Control, Jobs, Cares, Refresh
  <2> QED BY <2>1, BasesKept DEF ZookeeperInv, Refresh, tree, counts
<1> QED BY <1>1, <1>2, <1>3, <1>4 DEF ZookeeperInv

LEMMA RestartInv ==
  ASSUME ZookeeperInv, NEW h \in Hosts, Restart(h)
  PROVE  ZookeeperInv'
<1>1. TypeOK'
  BY DEF ZookeeperInv, TypeOK, Restart
<1>2. Control'
  <2>1. /\ \A u \in Hosts : pc'[u] = IF u = h THEN "new" ELSE pc[u]
        /\ \A u \in Services : pc'[u] = IF HostOf[u] = h THEN "idle" ELSE pc[u]
    BY ZookeeperAssumption DEF Restart
  <2>2. Jobs'
    BY <2>1 DEF ZookeeperInv, Control, Jobs, Container, Restart
  <2> QED
    BY <2>1, <2>2, ZookeeperAssumption DEF ZookeeperInv, Control, Jobs,
                                           Restart
<1>3. Nodes'
  BY ZookeeperAssumption DEF ZookeeperInv, TypeOK, Control, Jobs, Nodes,
                             StaysDeleted, NoStrayNode, Owned, Restart
<1>4. Bases'
  BY DEF ZookeeperInv, TypeOK, Bases, NoOldNode, CaredFor, Restart
<1> QED BY <1>1, <1>2, <1>3, <1>4 DEF ZookeeperInv

LEMMA SessionExpiresInv ==
  ASSUME ZookeeperInv, NEW h \in Hosts, SessionExpires(h)
  PROVE  ZookeeperInv'
<1>1. TypeOK'
  BY DEF ZookeeperInv, TypeOK, SessionExpires
<1>2. Control'
  BY DEF ZookeeperInv, Control, Jobs, SessionExpires
<1>3. Nodes'
  BY DEF ZookeeperInv, TypeOK, Nodes, StaysDeleted, NoStrayNode, Owned,
         SessionExpires
<1>4. Bases'
  BY DEF ZookeeperInv, TypeOK, Bases, NoOldNode, CaredFor, SessionExpires
<1> QED BY <1>1, <1>2, <1>3, <1>4 DEF ZookeeperInv

LEMMA OldExpiresInv ==
  ASSUME ZookeeperInv, NEW s \in Services, OldExpires(s)
  PROVE  ZookeeperInv'
<1>1. TypeOK'
  BY DEF ZookeeperInv, TypeOK, OldExpires, counts
<1>2. Control'
  BY DEF ZookeeperInv, Control, Jobs, OldExpires
<1>3. Nodes'
  BY DEF ZookeeperInv, TypeOK, Nodes, StaysDeleted, NoStrayNode, Owned,
         OldExpires
<1>4. Bases'
  BY DEF ZookeeperInv, TypeOK, Bases, NoOldNode, CaredFor, OldExpires, counts
<1> QED BY <1>1, <1>2, <1>3, <1>4 DEF ZookeeperInv

LEMMA NextInv ==
  ASSUME ZookeeperInv, [Next]_vars
  PROVE  ZookeeperInv'
<1>1. ASSUME NEW t \in Threads, RegisterStep(t)
      PROVE  ZookeeperInv'
  BY <1>1, ExistsInv, CreateBaseInv, CreateLeafInv DEF RegisterStep
<1>2. ASSUME NEW s \in Services, ContainerStep(s)
      PROVE  ZookeeperInv'
  BY <1>1, <1>2, AppendInv, ListChildrenInv, DeleteInv, DeleteBaseInv
  DEF ContainerStep
<1>3. ASSUME NEW h \in Hosts, HostStep(h)
      PROVE  ZookeeperInv'
  BY <1>1, <1>3, NewInv, RefreshInv DEF HostStep
<1>4. CASE UNCHANGED vars
  BY <1>4 DEF ZookeeperInv, TypeOK, Control, Jobs, Nodes, StaysDeleted,
              NoStrayNode, Owned, Bases, NoOldNode, CaredFor, Cares, Children,
              vars, tree, counts
<1> QED BY <1>2, <1>3, <1>4, StartInv, StopInv, OldExpiresInv,
           SessionExpiresInv, RestartInv
        DEF Next

LEMMA InitInv ==
  ASSUME Init PROVE ZookeeperInv
<1>1. TypeOK /\ Control
  BY ZookeeperAssumption DEF Init, TypeOK, Control, Jobs, Container
<1> QED BY <1>1 DEF Init, ZookeeperInv, Nodes, StaysDeleted, NoStrayNode,
                    Bases, NoOldNode, CaredFor

LEMMA Invariance == Spec => []ZookeeperInv
<1>1. Init => ZookeeperInv
  BY InitInv
<1>2. ZookeeperInv /\ [Next]_vars => ZookeeperInv'
  BY NextInv
<1> QED BY <1>1, <1>2, PTL DEF Spec

\* Without -ttl-refresh and without failed calls, a bridge never leaves a node
\* of its session behind: a service whose Deregister has returned has no node,
\* whatever other bridges create, list and delete meanwhile, and whenever
\* sessions expire and processes are restarted.
THEOREM NothingStray == Spec => []NoStrayNode
<1>1. ZookeeperInv => NoStrayNode
  BY DEF ZookeeperInv, Nodes
<1> QED BY <1>1, Invariance, PTL

\* Deregister takes the base node of a name away with its last service: it
\* lists children and deletes in two calls, and Register checks and creates in
\* three, yet however those of any number of bridges interleave, someone who
\* sees an empty base node is still to come.
THEOREM SweptWhenQuiet == Spec => []BaseSwept
<1>1. ZookeeperInv => BaseSwept
  BY DEF ZookeeperInv, Bases, CaredFor, Cares, BaseSwept
<1> QED BY <1>1, Invariance, PTL

=============================================================================
