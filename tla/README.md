# Registrator in TLA+

Registrator watches Docker on one host and keeps a service registry (Consul,
Eureka, etcd, ...) in step with the containers that run there. This directory
holds a TLA+ model of it, TLC configurations that check the model on small
instances, and theorems about it that TLAPS checks for all instances.

## The system

| Part | Source | State | What it does |
|---|---|---|---|
| bridge | `bridge/bridge.go`, `bridge/types.go` | `services`, `deadContainers`, one mutex | `Add` and `RemoveOnExit` on container events, `Refresh` and `PruneDeadContainers` on tickers |
| service synchronisation | `bridge/servicesync.go` | an unbuffered channel | `channelRun` takes one message at a time, holds the mutex, lists the containers, adds, reregisters and cleans up |
| main loop | `registrator.go` | `discoveredIP`, `Config.HostIp` | looks up the address, starts the bridge, runs the event loop and up to four tickers |
| external IP lookup, metadata | `bridge/util.go` | retry settings | the lookup with retries; pure functions for tags, metadata and ports |
| adapters | `consul`, `consulkv`, `etcd`, `skydns2`, `zookeeper`, `eureka` | the registry (remote) | `Register`, `Deregister`, `Refresh`, `Services`, `Ping` |
| ELB support | `aws` | a cache, the last status of each container | finds the load balancer of a container and registers that in Eureka instead |
| extension points, logging | `bridge/extpoints.go`, `logging`, `modules.go`, `interfaces` | none | generated or without behaviour |

How they interact. Every Docker event becomes a goroutine of its own, so the
add of a container and its removal race, and so do two events of the same
container. `channelRun` holds the mutex during a whole synchronisation, remote
calls included; `add` and `Refresh` make their remote calls without it. The
adds that a synchronisation starts wait for the mutex it holds. The tickers
block on the channel until `channelRun` is back. `discoveredIP` is shared
without a lock. Nothing is written to disk: a restart finds only what Docker
and the registry tell.

What makes it hard: interleavings of those goroutines, remote calls that fail
or take effect although they report an error, entries that the registry loses
or lets expire, crashes, container names that are used again, an address that
changes, and a code path that returns without unlocking.

## Modules

| Module | Contents |
|---|---|
| `Bridge` | bridge, synchronisation, main loop and tickers, with Docker, the address source and the registry as their environment |
| `Tracker` | abstract: the life of a container in `services` and `deadContainers` |
| `BridgeTracker` | `Bridge` as an instance of `Tracker` (the refinement mapping) |
| `Elb` | Eureka registration through AWS load balancers, composed with the bridge's adds, refresh and synchronisation |
| `Zookeeper` | the zookeeper adapter under several bridges |
| `NewService` | from an inspected container to services: ports, metadata, IDs, addresses |
| `Tags` | the parser of lists of tags, and what a list means |
| `MCBridge`, `MCElb`, `MCZookeeper`, `MCNewService` | constants for TLC |
| `TypeProofs` | every step of `Bridge` keeps the types, by group of variables |
| `BridgeProofs` | `TypeCorrect`, which steps get past the mutex, `SnapshotHolds`, `Frozen`; what goroutines and maps hold of a container |
| `OrphanProofs` | `OrphanFree` |
| `TrackerProofs` | `ImplementsTracker` |
| `ElbProofs` | `UpIsEarned`: the steps of a call, then the others |
| `ZookeeperProofs` | `NothingStray`, `SweptWhenQuiet` |
| `TagsProofs` | `ParserSplits` |
| `NewServiceProofs` | `MetadataMeans`, `TagsMean`, `IDsDiffer`, `PortsAreKnown`, `AddressesAreKnown` |

### Bridge: state and actions

| Variable | Code |
|---|---|
| `docker`, `source` | the state of each container; the address that the external source gives |
| `registry` | this host's entries, each a key (container name and port) and an address |
| `services`, `dead`, `mutex` | the fields of `Bridge`; `{}` and `ttl = 0` stand for nil |
| `pc`, `newIP`, `todo`, `cur` | the goroutines of `add` and `remove`: where each is and its locals |
| `hostIp`, `discoveredIP`, `answer`, `sends` | `Config.HostIp`, the global of `main`, `temporaryIP` of each ticker, the messages that tickers wait to send |
| `spc`, `sIP`, `sTodo`, `sMove`, `sExt` | `channelRun`: where it is, the message, and what is left of its loops |
| `rTodo` | what is left of the copy that `Refresh` works on |
| `events`, `faults`, `crashes` | counters that bound the environment |

| Actions | Code |
|---|---|
| `AddRevive`, `AddCheck`, `AddInspect`, `AddRegister`, `AddAppend` | `Bridge.add`, cut where it takes the mutex or makes a remote call |
| `RemoveDecide`, `RemoveDeregister`, `RemoveKeep` | `RemoveOnExit`: `shouldRemove` before the mutex, `remove` under it |
| `SyncReceive`, `SyncList`, `SyncListFails`, `SyncReregister`, `SyncMove`, `SyncStale`, `SyncServices`, `SyncCleanup`, `SyncEnd` | `channelRun` and `serviceSync`, one step for each remote call |
| `RefreshCopy`, `RefreshOne`, `Prune` | the refresh and prune tickers |
| `Boot`, `Crash` | `main` up to the first message, the end of the process |
| `Tick`, `TickFails`, `TickStore` | `resyncProcess`: the lookup, a lookup without answer, then the store in `discoveredIP` with its check and the message |
| `StartContainer`, `StopContainer`, `RemoveContainer`, `MoveHost` | Docker and the host; an event starts its goroutine in the same step |
| `LoseEntry`, `Expire` | the registry |

A call has the outcome `"ok"`, `"err"` (refused) or `"lost"` (carried out, but
the caller gets an error). `AddCheck` keeps the early return of `add` as it is:
the goroutine is gone and the mutex is `"leaked"`.

The adapters are three constants: `RefreshMode` (`Refresh` does nothing,
registers, or registers what was dropped), `ListsServices` (whether `Services`
returns anything) and `KeyedByAddress` (whether the key of an entry contains
the address, as with Eureka). A fourth, `Recognised`, is the set of keys whose
IDs `cleanupServices` takes for its own: it matches the ID against a pattern and
compares the host in it with `Hostname`, so an entry with an explicit
`SERVICE_ID`, and every entry when `Hostname` is empty, is never cleaned up.

### Tracker: what the maps promise

`Tracker` knows nothing of goroutines, addresses and the registry. For each
container it has the port it is tracked by, the port it was tracked by when it
died, and how long that is remembered; its steps are `Track`, `Drop`, `Retire`,
`Revive` (one container each), `Age` (all dead ones), `Lose` (the lock) and
`Restart`. `BridgeTracker` maps `services`, `deadContainers` and the leaked
mutex to it. The interest is in what the code does not exclude: a container can
be in both maps, when its add ends after its death was noted. A later death
then replaces the dead entry, a later add replaces the tracked one, and a
removal clears both.

### Elb: state and actions

| Variable | Code |
|---|---|
| `label` | which attributes the container has: the endpoint (`explicit`), an ECS service in the default cluster or another one, cluster and task, or none of them |
| `running`, `target`, `wasHealthy` | the containers; what the load balancer knows of their ports; a history variable |
| `eureka` | the status of the entry of each target group's endpoint |
| `tracked`, `leaving`, `rTodo`, `sTodo` | the bridge: tracked containers, removals that wait for the mutex, what `Refresh` and `serviceSync` have still to do |
| `lbCache`, `tgCache` | `generalCache` under `container_...` and `tg_arn_...` |
| `previousStatus` | the map of `healthchecks.go` |
| `th` | for each goroutine (an add for each container, `"refresh"`, `"sync"`): where it is in the call, and its locals |

| Actions | Code |
|---|---|
| `Find`, `Describe`, `Search`, `Probe`, `Fetch`, `Detail` | `mutateRegistrationInfo` down to `getELBAndCacheDetails` and `GetAndCache`, cut at remote calls and at accesses to the cache |
| `NotFound` | the retries of `RegisterWithELBv2`; `HeartbeatELBv2` has none |
| `GetStatus`, `Decide`, `Health`, `Post` | `testHealth` and `ReregisterInstance` |
| `Beat` | `HeartbeatELBv2` |
| `Append`, `Remove`, `Refresh`, `SyncList`, `SyncRegister`, `SyncEnd` | the bridge and `EurekaAdapter`, as far as they call |
| `Panic` | the nil pointer in `getAllTargetGroups`; the process starts again |
| `Start`, `Stop`, `TargetAdded`, `TargetTurns`, `LeaseEnds`, `LoseEntry`, `CacheExpires` | Docker, the load balancer, Eureka, time |

`tgCache` keeps a value with its type, because the code stores the answer of
`DescribeTargetHealth` and a list of healthy targets under one key; a reader
that expects the other type gets an empty list.

### Zookeeper

The state is the tree (the base path, a base node for each name, an ephemeral
node for each service, of the current session or of an older one) and, for each
container and for the refresh of each host, where it is in `Register` or
`Deregister`. Each remote call is an action: `Exists`, `CreateBase`,
`CreateLeaf`; `Delete`, `ListChildren`, `DeleteBase`. Errors are treated as the
code treats them: of those in `Register` only one of `Exists` reaches the
caller.

### NewService and Tags

`Collect` is the part of `add` that collects ports. For each of them, in any
order, `Begin` and `Visit` are `serviceMetaData`, one step for each label or
variable in any order, and `Finish` is the rest of `newService`. All else is
operators, named as in the code. Text is a sequence of symbols where its
structure matters (tags, the slash of an address in a label, the empty string)
and a constant elsewhere. A container has its networks by name with an address
in each, which may be empty; `NetworkMode` may name none of them.

`recParseEscapedComma` is a recursive function of the string and the offset. The
loop of the code is a recursion too: an escaped comma leads on to the string
without its backslash and to the offset behind the comma. `IsSplit` in `Tags` is
the reference definition and mentions neither: the tags are the longest parts of
the original list without an unescaped comma, in any order, and the symbols of
each are those of its part, in order, without the backslashes before commas.

### Abstractions

In `Bridge`:

- A service is a port and an address. Names, tags and attributes do not
  matter to the properties; `PortsOf` is the set of ports for which
  `newService` returns a service.
- `-internal`, `-useIpFromLabel` and containers in another container's network
  are left to `NewService`. `LocalIp` is the address a service has without `-ip`
  and without one from the message; that it may be empty is left to
  `NewService`, too.
- A container outside `HostNet` has its ports in `NetworkSettings.Ports`,
  which replace the ones that carry the address of the message.
- An exit through a signal counts as a successful one, as in `shouldRemove`.
  Created, restarting and paused containers are not distinguished.
- The deregistrations of one `remove` are one step: they run under the mutex
  and what other goroutines do to the registry meanwhile commutes with them.
- The reads of `discoveredIP` in the event loop and in `resyncProcess` race with
  the tickers that write it. `SeenIP` allows the value that was stored last, the
  one another ticker is about to store and, for a string that is read in part,
  one that is no address. A ticker checks one read and sends another.
- A process that ends before its first synchronisation has not started.
- Time is left out. An entry expires only while no tracked service refreshes
  it; a dead container's time to live counts prunes.

In `Elb`:

- Every container has the flags for a load balancer, a place in one target
  group, and always deregisters. A container is started again only when its
  removal is over, and the mutex does not leak: those orders are the subject of
  `Bridge`.
- Listings of target groups, listeners and load balancers do not change, and
  each stands for one call; of the calls of a step at most one fails. Where a
  page of the listing ends does not matter, except to `Panic`.
- `lookupServiceName` may give a name or none, whatever the reason: a call that
  fails, or no service or several with the definition of the task (`Named` and
  `Unnamed` both contain `"task"`). So a container with a task has all the
  behaviours of one whose service is named by a label of the default cluster and
  of one without labels.
- The registrators of other hosts, which may share the endpoint, are left out.
- `DEFAULT_EXP_TIME` is some time; entries under `container_...` never expire.
  A lease ends while no container of the group is tracked, or while a
  synchronisation that sleeps between two attempts keeps the mutex.

In `Zookeeper`: a removal starts when the add of its container is over; there is
no resynchronisation (it would call `Register` as `Refresh` does).

In `NewService`: an explicit ID or name is a constant; `"bridge"` stands for
`default` as well and `"container"` for `container:` with an ID; the loop over
the networks of a container ends with the same one for each of its ports; a
container without labels and variables without `=` are left out.

## Runs

All with two TLC workers. Deadlock is checked in `elb_recovers`. In the others
it is not: the bounds on events let the system stop, a hung bridge stops by
itself, and `NewService` ends.

| Run | Instance | Checks | Result |
|---|---|---|---|
| `reliable` | 2 containers that share a name, 2 addresses, IP lookup, no failures, 3 events | `NoOrphan`, `SyncSnapshotHolds`, `FrozenOnceHung` | holds, 256,008 states |
| `converges` | 1 container, Consul-like, resync and cleanup, 2 events, 1 fault, 1 crash, entries of an earlier process and one that a cleanup does not recognise | `TypeOK`, `Converges` | holds, 162,760 states |
| `leases` | 1 container, Eureka-like, IP lookup that may end the process, leases, cleanup, `-ttl` 3, `-ttl-refresh` 2, 2 events, 1 fault | `Converges`, `DeadForgotten`, `Lifecycle` | holds, 201,821 states |
| `mutex` | 1 container, 3 events | `MutexReleased` | violated |
| `ports` | 1 container with 2 ports | `NoOrphanAnyPorts` | violated |
| `cleanup` | 1 container that runs when the process starts | `CleanupOnlyDangling` | violated |
| `lookup` | 1 container, Consul-like, IP lookup and resync, 1 fault | `Converges` | violated |
| `elb_recovers` | 1 container with an endpoint, with a service in another cluster, or with a task; resync, 1 retry, 2 events, 1 turn of health, 1 fault | `UpWasHealthy`, `ComesUp`, `Drops` | holds, 207,280 states |
| `elb_heartbeat` | 2 containers of one target group, no resync, no faults | `HeartbeatEstablishesUp` | violated |
| `zookeeper` | 2 hosts with a service each, one name, 3 events, 1 fault, 1 session or process that ends | `NoStrayNode`, `BaseSwept`, `Published` | holds, 70,446 states |
| `zookeeper_refresh` | the same, without faults | `Deregistered` | violated |
| `services` | containers with up to 3 ports, 5 families of inputs | `MetadataMeaning`, `TagsMeaning`, `UniqueIDs`, `PortsKnown`, `AddressKnown` | holds, 43,875 states |

What the properties say:

- `NoOrphan`: with one service for each container and no failing call, every
  entry is tracked or held by an add that is about to track it.
- `SyncSnapshotHolds`: while a synchronisation works through its snapshot,
  nothing in it is untracked, and the mutex is held exactly that long.
- `FrozenOnceHung`: after the mutex has leaked, only the end of the process
  changes the maps.
- `Converges`: when Docker, the failures and the crashes have come to an end,
  the registry comes to hold the running containers' services at the right
  address and no other entry that a cleanup recognises, and stays so, unless the
  bridge hangs. Of an entry that it does not recognise nothing is claimed.
- `DeadForgotten`: again and again each container is not remembered as dead,
  unless the bridge hangs; so one that stays dead is forgotten.
- `Lifecycle`: the maps behave as `Tracker` says.
- `UpWasHealthy`: an endpoint is UP only if its target group has had a healthy
  target.
- `ComesUp`: a container that goes on running and is healthy gets its endpoint
  UP for good, whatever failed; `Drops`: when the containers of a group are
  gone, so is its entry in the end. `Drops` holds with
  `-resync` and `-cleanup`, which the run sets: without them a container that is
  tracked after it has exited keeps the entry alive.
- `Published`: with `-ttl-refresh` a running service gets its node and keeps
  it. `NoStrayNode`: without it, and without failures, nodes of a live session
  belong to services that somebody knows. `BaseSwept`: the last service takes
  the base node with it.
- `MetadataMeaning`, `TagsMeaning`: what is computed is what a declarative
  reference definition says; for tags it is `IsSplit`, for the container's list
  and for `-tags`, and nothing more than the transport is added.
- `UniqueIDs`: two services of a container have two IDs, unless an ID is given,
  or tcp and sctp have the same port (an ID tells only udp from the rest).
- `PortsKnown`: no service has port 0, except one whose port is not published,
  with exposed ports asked for in a way only one of the two checks understands.
- `AddressKnown`: no service has the address "" or 0.0.0.0, except in the cases
  that `Unreachable` names: the network container has no address of its own
  (`bridge.go:328` takes it all the same); the label has nothing before its last
  slash; the internal address is asked for and one of the networks gives none;
  without `-ip`, `Hostname` is empty (then 0.0.0.0 is resolved, to itself) or
  not resolved, or the container has no address under its `NetworkMode` (`none`,
  a network given by its ID, a container that has exited); `-ip 0.0.0.0`, which `main` accepts. Each of these
  cases occurs in the run: without any one of them the property is violated.

### Where code and documentation disagree

- `mutex`: a second add of a tracked container logs "already exists, ignoring"
  and returns with the mutex locked (`bridge.go:155-158`). Two adds of one
  container occur when a start event and a synchronisation both find it
  untracked. `Frozen` proves what follows.
- `ports`: `appendService` drops every service but the first
  (`bridge.go:142-145`), though all have been registered; the others are never
  deregistered.
- `cleanup`: after a restart with `-cleanup` the first synchronisation
  deregisters the entries of running containers: their adds wait for the mutex
  until the cleanup is over. They come back when the adds run (`Converges`
  holds in that configuration), but there is a gap.
- `lookup`: with `-ip-lookup-source` a resync carries an address, and
  `reregisterService` leaves a service with that address alone, so an entry
  that was lost is not registered again when `Refresh` does nothing.
- `elb_heartbeat`: `testHealth` decides and `ReregisterInstance` posts in
  separate steps. A refresh that saw no healthy target posts STARTING after a
  synchronisation of the same container has posted UP. `previousStatus` says
  UP, so the heartbeats do not check again (`elb.go:574-575`). With `-resync`
  the endpoint comes up again (`ComesUp` holds), without it it does not.
- `zookeeper_refresh`: `Refresh` works on a copy without the mutex, and for this
  adapter it is `Register`; a service that is removed meanwhile is created
  again and stays as long as the session.
- Not a run of its own: `recParseEscapedComma` appends a tag after those of the
  rest of the list (`util.go:109`), so that the tags of a list come in the
  opposite order. `docs/user/services.md:163` and `:245` show `master,backups`
  become `["master", "backups"]`; `bridge/util_test.go` sorts before it
  compares. `ParserSplits` proves the order; `TagsMeaning` claims none.

### Bounds

Two event slots and one synchronisation slot for each container allow a start,
a stop and an add from a synchronisation of the same container to be under way
at once; in `leases` one event slot keeps the liveness check small. Two
containers sharing a name are enough for a key to change hands. Three events
are a start, a stop and a start under the same name or a change of address. One
fault is enough to separate any two calls of the code, since every
synchronisation repeats them all. Time to live 3 with interval 2 makes a dead
container survive one prune and the next one step past zero. `converges` and
`leases` have one ticker each; with both, the liveness check is out of TLC's
reach, and the order of two tickers' messages is in `lookup` and in the safety
theorems only. In `reliable` containers and event slots are
symmetric: no constant tells them apart, and only safety is checked there.
`reliable` runs without `-cleanup`, `converges` and `leases` with it.

In `elb_recovers` the add, the refresh and the synchronisation of one container
already share its caches and its status, so one container meets the conflict of
types, the race of two posts and a restart with an old status; two containers
are in `elb_heartbeat`, and the theorem `UpIsEarned` has any number. One retry
in place of three: each attempt starts from the same state but for the counter.
Two hosts with one name are enough for every race on a base node, and 3 events
for a start, a stop and a start again. Tag lists have up to six of three
symbols (a letter, a comma, a backslash), so that escaped commas come first,
last and next to each other. The other inputs of `services` vary naming,
ignoring, exposed ports and addresses one family at a time.

### Fairness

- The process is started again (`Boot`): whoever runs Registrator restarts it
  after it ends; `Crash` itself is not fair.
- Each ticker keeps ticking (`resyncProcess`), with an answer that is an address
  in the end: faults are bounded.
- Strong fairness for goroutines, `Refresh` and `Prune`: each may wait for the
  mutex, which is free again and again, and Go's mutex hands over to a waiter
  that has starved for a millisecond. Weak fairness is enough for `channelRun`:
  it holds the mutex itself while it works, and the others hold it for one step.
- An entry whose lease nobody renews expires.
- Nothing is assumed of Docker, of the host's address, of failures or crashes.
- In `Elb` and `Zookeeper`: goroutines and tickers as above; a cached value
  expires, an entry that nobody renews expires, a session without a client
  times out. Nothing is assumed of the health of targets.

## Proofs

Each theorem holds for every value of the constants that satisfies
`BridgeAssumption` (the constants have the sets they should be in) and
`TtlAssumption` (what `main` checks of `-ttl` and `-ttl-refresh`), or, for the
other modules, `ElbAssumption`, `ZookeeperAssumption`, `InputsAssumption` (the
same kind of facts; a container is any environment, labels and ports of the
right types) and `TransportAssumption` (`"udp"` is one of the symbols that text
is made of). TLC evaluates them in every run of the modules that make them.

- `TypeCorrect`: `Spec => []TypeOK`. `TypeOK` alone is not inductive: a moved
  service gets the address of the message, which may be empty in general.
  `MoveHasAddress` says that it is not while a service is being moved. The
  proof goes through the variables in groups: `Untouched` shows that a group
  that does not change keeps its type, so each action only shows the groups it
  changes.
- `SnapshotHolds`: `Spec => []SyncSnapshotHolds`. `StepKinds` sorts the steps:
  those of `channelRun`, the boot, the end of the process, and all others, which
  leave the maps and the mutex alone unless the mutex was free. `SnapInv` adds
  that nothing is left to reregister outside a synchronisation and that the
  service being moved is not waiting as well.
- `Frozen`: `Spec => FrozenOnceHung`, from `SnapInv` and `StepKinds`: with the
  mutex leaked no synchronisation is under way and none gets started.
- `OrphanFree`: `Spec => []NoOrphan`. The inductive invariant `CoverInv` says
  that the key of each entry is that of a tracked service or of one that an add
  holds. It needs `LocalsInv` (an add holds a service only between `Register`
  and `appendService`, on a port of its container), `PortsInv` (so do the
  maps), `AlwaysInv` (no container is kept as dead when every exit
  deregisters) and `SnapInv` (what is reregistered is tracked). The step that
  decides is `AddAppend`: when the container has a service already, the new one
  is dropped, which is safe only because both are on the same port.
- `ImplementsTracker`: `Spec => Lifecycle`. Initial states map to initial
  states, and every step to a step of `Tracker` or a stutter: one lemma for each
  abstract step (`TrackStep`, `RetireStep`, ...), then `GoroutineLife` for adds
  and removals and `StepLife` for all. Three facts are needed beside the type:
  an add holds at most one service (`OneAtMost`), a container with no time left
  has nothing in the map of the dead (`NoneLeft`), and a service that is being
  moved is still tracked (`SnapInv`), so that it keeps its port. `HungSteps`
  says which steps lose the mutex.
- `UpIsEarned`: `Spec => []UpWasHealthy`. `UpWasHealthy` alone is not inductive:
  UP gets to Eureka through locals, the status of an earlier life and caches.
  `ElbInv` says of each of them where it came from: a goroutine that has found
  or is about to post UP is at a target group that was healthy
  (`SoundThreads`), so is the group of a container whose previous status is UP
  (`SoundStatuses`), cached load balancers and lists belong to the container's
  group, and a list of healthy targets that is not empty is of a group that was
  healthy (`SoundCaches`), as is the group of a target that is healthy now
  (`SoundTargets`). TLC checked `ElbInv` before it was proved, with one and with
  two target groups.

- `NothingStray` and `SweptWhenQuiet`: `Spec => []NoStrayNode` and
  `Spec => []BaseSwept`, both from `ZookeeperInv`. For the first, Deregister must
  not return while its node exists: without `-ttl-refresh` nobody but the
  container's own goroutine calls Register (`Control`), so the deleted node
  stays deleted (`StaysDeleted`). For the second, `CaredFor`: a base node without
  children is one that a goroutine is about to create a child in, or will still
  list or delete. Every step that takes the last child away, or stops to care,
  leaves a child or somebody else who does. It needs that no
  goroutine of a host is under way when `New` starts them all (`Control`) and
  `NoOldNode` (only the
  end of a process leaves nodes that go away by themselves).
- `MetadataMeans`: `Spec => []MetadataMeaning`. `Scanning` is the invariant of
  the loop: the metadata are those of the labels visited so far, for the port
  where there is one. `MergedTwice` says that merging the environment into labels
  that contain it already changes nothing, `MergedSays` and `SaidMerged` that the
  merged labels are what the container says; they need that a list of variables
  has a last one for each name (`LastIndex`), which comes from the well-foundedness
  of the natural numbers.
- `ParserSplits`: for every list, `recParseEscapedComma` returns tags for which
  `LastFirst` holds: `IsSplit`, and the opposite order. First, the recursive definition has a function
  (`ParserExists`): each call is on a shorter string (`Shorter`), and two
  functions that obey the definition up to a length agree there
  (`ParsersAgree`). Then the invariant of the loop: what has been rewritten so far
  is the unescaped form of a part of the original list, the rest of the string is
  the rest of the list, and no unescaped comma has been passed. `PassesComma`
  keeps it past an escaped comma; the comma that is left in front of the offset
  is not taken for a separator, nor is the backslash of a rewritten part for one
  that escapes the next comma. `SplitAtCut` and `SplitAfterComma` put the tags of
  the rest and the new one together. In place of an induction both arguments take
  a shortest counterexample (`LeastNumber`) and find a shorter one.
- `TagsMean`: `Spec => []TagsMeaning`, from `ParserSplits` for the two lists
  (`LastFirstSplits` forgets the order) and the meaning of the metadata, which says that the list is the container's.
- `IDsDiffer`, `PortsAreKnown`, `AddressesAreKnown`: from `ServicesInv`, which adds
  that newService is called once for each port that is considered
  (`OncePerPort`) and what it returns. `PortsAreKnown` is the one that needs the
  meaning of the metadata: the check of `add` looks at the environment only, in any
  case of the letters, that of newService at what serviceMetaData found.
  `AddressesAreKnown` needs that the label is read from what the environment was
  merged into (`LabelRead`) and what is left of a port's address after `-ip`, the
  mode and the resolution (`HostIPKnown`); it assumes that Docker and the
  resolver never give 0.0.0.0 for the address of a container or host.

Only model-checked: the liveness properties (`Converges`, `DeadForgotten`,
`ComesUp`, `Drops`, `Published`), which rest on fairness and are out of the
prover's reach.

## Not modelled

- The retry loops of `GetIPFromExternalSource` and of `Ping` in `main`: they run
  alone, and only how they end reaches the rest; those ends are in `Bridge`.
- `instanceInformation` and the other parts of a registration's contents
  (Eureka's data centre, health check and home page URLs, Consul's checks):
  formatting without state.
- The flags of `CheckELBFlags` and `CheckELBOnlyReg`: pure parsing. Two of its
  oddities are known: a port that is no number is reported and then accepted,
  and a service named by a label is looked for in the default cluster (this one
  is in `Elb`, and `ComesUp` excepts it).
- `metadata.go`: the instance's metadata are read once and constant afterwards.
- consulkv, etcd and skydns2 beyond what `Bridge` has of them: each operation is
  one remote call.
- Generated extension points, logging, option parsing.
