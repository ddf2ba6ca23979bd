----------------------------- MODULE NewService -----------------------------
(***************************************************************************)
(* How a container becomes services: the part of Bridge.add that collects  *)
(* ports, newService, and the functions of bridge/util.go they use.        *)
(*                                                                         *)
(* Go iterates over maps in any order.  The loops whose order can matter,  *)
(* over the metadata and over the ports, take one step for each element;   *)
(* everything else is a function of the container.  serviceMetaData writes *)
(* the environment into the labels of the container, where the calls for   *)
(* its other ports find it.                                                *)
(*                                                                         *)
(* A value is a sequence of symbols, "" is the empty one; an address is a  *)
(* value.  A variable or label is a record: whether it starts with         *)
(* SERVICE_, the port that comes next (0 if none), the rest, whether that  *)
(* is written in upper case, and whether it is a label of ECS.             *)
(***************************************************************************)
EXTENDS Tags

CONSTANT Inputs   \* bound: containers and options

Keys == [service : BOOLEAN, ecs : BOOLEAN, port : Nat, key : STRING,
         upper : BOOLEAN]
Ports == [num : Nat \ {0}, type : {"tcp", "udp", "sctp"}]

\* 0.0.0.0
AnyAddress == <<"0.0.0.0">>

ASSUME TransportAssumption == "udp" \in Symbols

\* UseIpFromLabel is a key that no container has if the option is not given;
\* resolved is empty if Hostname cannot be resolved; last is the network the
\* loop over the networks of the container ends with.
ASSUME InputsAssumption ==
  \A i \in Inputs :
    /\ i.env \in Seq([key : Keys, value : Values])
    /\ DOMAIN i.labels \subseteq Keys
    /\ \A k \in DOMAIN i.labels : i.labels[k] \in Values
    /\ i.exposed \subseteq Ports /\ DOMAIN i.published \subseteq Ports
    /\ \A p \in DOMAIN i.published :
         i.published[p] \in [port : Nat, ip : Values]
    /\ i.mode \in STRING /\ i.last \in STRING /\ i.UseIpFromLabel \in Keys
    /\ DOMAIN i.Networks # {} => i.last \in DOMAIN i.Networks
    /\ {i.newIP, i.HostIp, i.Hostname, i.image, i.ForceTags} \subseteq Values
    /\ {i.IPAddress, i.podIP, i.resolved} \cup
         {i.Networks[n] : n \in DOMAIN i.Networks}
         \subseteq Values \ {AnyAddress}
    /\ {i.internal, i.requireLabel, i.inspects} \subseteq BOOLEAN

VARIABLES
  in,         \* the container, the options, and what is looked up
  labels,     \* container.Config.Labels
  pc,
  ports,      \* servicePorts that newService has still to be called for
  port,       \* the one it is called for
  keys,       \* what serviceMetaData has still to visit
  metadata, metadataFromPort,
  services    \* what newService has returned so far

vars == <<in, labels, pc, ports, port, keys, metadata, metadataFromPort,
          services>>

-----------------------------------------------------------------------------
(* util.go                                                                 *)

mapDefault(m, key, default) ==
  IF key \in DOMAIN m /\ m[key] # <<>> THEN m[key] ELSE default

\* lookupMetaData: only in the environment, but in any case of the letters,
\* service_ included, which serviceMetaData does not know.
lookupMetaData(env, key) ==
  LET found == {i \in DOMAIN env : env[i].key.port = 0 /\ env[i].key.key = key}
  IN IF found = {} THEN <<>> ELSE env[Min(found)].value

\* The address of the container in one of its networks.
NetworkIP(name) ==
  IF name \in DOMAIN in.Networks THEN in.Networks[name] ELSE <<>>

servicePort(p, published) ==
  [port |-> p, HostPort |-> published.port,
   HostIP |-> IF in.mode \notin {"bridge", "host"} THEN NetworkIP(in.mode)
              ELSE IF published.ip = <<>> THEN AnyAddress ELSE published.ip,
   ExposedIP |-> IF in.IPAddress # <<>> THEN in.IPAddress
                 ELSE NetworkIP(in.last)]

-----------------------------------------------------------------------------
(* add                                                                     *)

\* The ports of the configuration, replaced by what is known of them at run
\* time.
AllPorts ==
  [p \in in.exposed \cup DOMAIN in.published |->
     IF p \in DOMAIN in.published THEN servicePort(p, in.published[p])
     ELSE LET sp == servicePort(p, [port |-> p.num, ip |-> AnyAddress])
          IN [sp EXCEPT !.HostIP = IF in.newIP # <<>> THEN in.newIP ELSE @]]

\* Variant: a port that is not published is no reason to ignore it.
AnyPort(sp) == TRUE

Considered(sp) ==
  \/ in.internal \/ sp.HostPort # 0
  \/ lookupMetaData(in.env, "use_exposed_ports") # <<>>

Collect ==
  /\ pc = "ports"
  /\ ports' = {p \in DOMAIN AllPorts : Considered(AllPorts[p])}
  /\ pc' = "next"
  /\ UNCHANGED <<in, labels, port, keys, metadata, metadataFromPort, services>>

isGroup == Cardinality({p \in DOMAIN AllPorts : Considered(AllPorts[p])}) > 1

-----------------------------------------------------------------------------
(* serviceMetaData                                                         *)

\* Env take precedence over labels, and of two variables the later one.
Merged(meta) ==
  LET set(k) == {i \in DOMAIN in.env : in.env[i].key = k}
  IN [k \in DOMAIN meta \cup {in.env[i].key : i \in DOMAIN in.env} |->
        IF set(k) # {} THEN in.env[Max(set(k))].value ELSE meta[k]]

Begin(p) ==
  /\ pc = "next" /\ p \in ports
  /\ ports' = ports \ {p} /\ port' = p
  /\ labels' = Merged(labels) /\ keys' = DOMAIN labels'
  /\ metadata' = <<>> /\ metadataFromPort' = {}
  /\ pc' = "scan"
  /\ UNCHANGED <<in, services>>

\* An assignment to an entry of a map.
Put(m, key, value) ==
  [x \in DOMAIN m \cup {key} |-> IF x = key THEN value ELSE m[x]]

\* Variant: a value for all ports may replace one for this port.
VisitAny(k) ==
  /\ pc = "scan" /\ k \in keys
  /\ keys' = keys \ {k}
  /\ metadata' = IF k.service /\ k.port \in {0, port.num}
                 THEN Put(metadata, k.key, labels[k]) ELSE metadata
  /\ metadataFromPort' = IF k.service /\ k.port = port.num
                         THEN metadataFromPort \cup {k.key}
                         ELSE metadataFromPort
  /\ UNCHANGED <<in, labels, pc, ports, port, services>>

Visit(k) ==
  /\ pc = "scan" /\ k \in keys
  /\ keys' = keys \ {k}
  /\ \/ /\ k.service /\ k.port = 0 /\ k.key \notin metadataFromPort
        /\ metadata' = Put(metadata, k.key, labels[k])
        /\ UNCHANGED metadataFromPort
     \/ /\ k.service /\ k.port = port.num
        /\ metadata' = Put(metadata, k.key, labels[k])
        /\ metadataFromPort' = metadataFromPort \cup {k.key}
     \/ /\ \/ ~k.service \/ k.port \notin {0, port.num}
           \/ k.port = 0 /\ k.key \in metadataFromPort
        /\ UNCHANGED <<metadata, metadataFromPort>>
  /\ UNCHANGED <<in, labels, pc, ports, port, services>>

-----------------------------------------------------------------------------
(* The rest of newService                                                  *)

Ignored ==
  \/ mapDefault(metadata, "ignore", <<>>) # <<>>
  \/ in.requireLabel /\ mapDefault(metadata, "register", <<"false">>) = <<"false">>
  \/ mapDefault(metadata, "name", in.image) = in.image

\* Variant: an address that stands for all interfaces is kept.
KeptHostIP == IF in.HostIp # <<>> THEN in.HostIp ELSE AllPorts[port].HostIP

\* Without a Hostname it is 0.0.0.0 that is resolved, to itself.
HostIP ==
  LET ip == AllPorts[port].HostIP
  IN IF in.HostIp # <<>> THEN in.HostIp
     ELSE IF ip = AnyAddress /\ in.Hostname # <<>> /\ in.resolved # <<>>
     THEN in.resolved ELSE ip

UseExposedPorts ==
  mapDefault(metadata, "use_exposed_ports", <<"false">>) = <<"true">>

\* What comes before the last slash.
BeforeSlash(value) ==
  LET slashes == {i \in DOMAIN value : value[i] = "/"}
  IN IF slashes = {} THEN value ELSE SubSeq(value, 1, Max(slashes) - 1)

\* The address of the label replaces the others; that of the container whose
\* network is used, even if it has none, replaces it.
ServiceIP ==
  LET containerIp == mapDefault(labels, in.UseIpFromLabel, <<>>)
  IN IF in.mode = "container" /\ in.inspects THEN in.podIP
     ELSE IF containerIp # <<>> THEN BeforeSlash(containerIp)
     ELSE IF in.internal THEN AllPorts[port].ExposedIP ELSE HostIP

\* A HostPort of "" cannot be parsed, and becomes 0.
ServicePort ==
  IF in.internal \/ UseExposedPorts THEN port.num ELSE AllPorts[port].HostPort

hostname == IF in.Hostname # <<>> THEN in.Hostname ELSE AllPorts[port].HostIP

\* Variant: the transport is left out of the ID.
PlainID ==
  LET id == mapDefault(metadata, "id", <<>>)
  IN IF id # <<>> THEN id ELSE <<hostname, "container", port.num>>

ServiceID ==
  LET id == mapDefault(metadata, "id", <<>>)
  IN IF id # <<>> THEN id
     ELSE <<hostname, "container", port.num>> \o
          (IF port.type = "udp" THEN <<"udp">> ELSE <<>>)

\* The labels of ECS are attributes too; some of the metadata is not.
Attrs ==
  [k \in (DOMAIN metadata \cup {l.key : l \in {l \in DOMAIN labels : l.ecs}})
         \ {"id", "tags", "name"} |->
     IF \E l \in DOMAIN labels : l.ecs /\ l.key = k
     THEN labels[CHOOSE l \in DOMAIN labels : l.ecs /\ l.key = k]
     ELSE metadata[k]]

newService ==
  [port |-> port, ID |-> ServiceID, IP |-> ServiceIP, Port |-> ServicePort,
   Name |-> mapDefault(metadata, "name", in.image) \o
            (IF isGroup /\ "name" \notin metadataFromPort
             THEN <<port.num>> ELSE <<>>),
   Tags |-> combineTags(mapDefault(metadata, "tags", <<>>), in.ForceTags,
                       IF port.type = "udp" THEN <<"udp">> ELSE <<>>),
   Attrs |-> Attrs]

Finish ==
  /\ pc = "scan" /\ keys = {}
  /\ services' = IF Ignored THEN services ELSE services \cup {newService}
  /\ pc' = "next"
  /\ UNCHANGED <<in, labels, ports, port, keys, metadata, metadataFromPort>>

-----------------------------------------------------------------------------
Init ==
  /\ in \in Inputs
  /\ labels = in.labels
  /\ pc = "ports" /\ ports = {} /\ port = [num |-> 0, type |-> "tcp"]
  /\ keys = {} /\ metadata = <<>> /\ metadataFromPort = {}
  /\ services = {}

Next ==
  \/ Collect
  \/ \E p \in ports : Begin(p)
  \/ \E k \in keys : Visit(k)
  \/ Finish

Spec == Init /\ [][Next]_vars

-----------------------------------------------------------------------------
\* What the container says of a key, for a port or in general: a variable of
\* the environment hides the label, and the earlier variable, that is written
\* in the same way.
Says(k, num, key) == k.service /\ k.port = num /\ k.key = key

Said(num, key) ==
  LET env == {i \in DOMAIN in.env :
                /\ Says(in.env[i].key, num, key)
                /\ \A j \in DOMAIN in.env :
                     in.env[j].key = in.env[i].key => j <= i}
      label == {k \in DOMAIN in.labels :
                  /\ Says(k, num, key)
                  /\ \A i \in DOMAIN in.env : in.env[i].key # k}
  IN {in.env[i].value : i \in env} \cup {in.labels[k] : k \in label}

Meant(num, key) ==
  IF Said(num, key) # {} THEN Said(num, key) ELSE Said(0, key)

\* serviceMetaData finds the keys that are set for the port or for all ports,
\* with a value for the port if there is one, whatever order the map is gone
\* through in and whatever the calls for other ports have left in the labels.
\* (Of names that differ only in their case, any one is taken.)
MetadataMeaning ==
  pc = "scan" /\ keys = {} =>
    /\ DOMAIN metadata = {k \in {l.key : l \in DOMAIN labels} :
                            Meant(port.num, k) # {}}
    /\ \A k \in DOMAIN metadata : metadata[k] \in Meant(port.num, k)

\* The tags are those that one list of tags is cut into, followed by those of
\* -tags and by the transport.
HasTags(s) ==
  LET lists == Meant(s.port.num, "tags")
      tags(from, to) == SubSeq(s.Tags, from, to)
  IN \E list \in (IF lists = {} THEN {<<>>} ELSE lists) :
     \E own, forced \in 0..Len(s.Tags) :
       /\ own <= forced
       /\ IsSplit(tags(1, own), list)
       /\ IsSplit(tags(own + 1, forced), in.ForceTags)
       /\ tags(forced + 1, Len(s.Tags)) =
            IF s.port.type = "udp" THEN <<<<"udp">>>> ELSE <<>>

\* The tags of a service are what its own list, -tags and the transport say,
\* whatever commas and backslashes the lists start or end with.
TagsMeaning == \A s \in services : HasTags(s)

GivenID(num) == Meant(num, "id") \ {<<>>} # {}

\* Two services of a container have different IDs, unless the container gives
\* one, for all ports or for theirs.  An ID tells udp from other transports;
\* the same port of two of those is the one other exception.
UniqueIDs ==
  \A s, t \in services :
    s.ID = t.ID =>
      \/ s = t
      \/ GivenID(s.port.num) \/ GivenID(t.port.num)
      \/ s.port.num = t.port.num /\ "udp" \notin {s.port.type, t.port.type}

\* A service without a port is one that add took for its exposed port, and
\* newService did not.
HasPort(s) ==
  s.Port = 0 =>
    \/ \E n \in {0, s.port.num} :
         Said(n, "use_exposed_ports") \ {<<"true">>} # {}
    \/ \E i \in DOMAIN in.env : /\ ~in.env[i].key.service
                                /\ in.env[i].key.key = "use_exposed_ports"

\* A service has a port, although whether an exposed port will do is asked
\* twice, of the environment and of the metadata, and in different ways; this
\* is so if all that is said about exposed ports is "true", in variables that
\* start with SERVICE_ in upper case.
PortsKnown == \A s \in services : HasPort(s)

\* What may be read from the label with the address.
LabelValues ==
  {in.labels[k] : k \in DOMAIN in.labels \cap {in.UseIpFromLabel}} \cup
  {in.env[i].value : i \in {j \in DOMAIN in.env :
                               in.env[j].key = in.UseIpFromLabel}}

\* The container has no address in one of its networks, or has no network.
Unaddressed ==
  DOMAIN in.Networks = {} \/ \E n \in DOMAIN in.Networks : in.Networks[n] = <<>>

\* The address of the host, or of the network that NetworkMode names, is not
\* known: the host has no name that can be resolved, or there is no such address.
Unresolved ==
  \/ in.Hostname = <<>> \/ in.resolved = <<>>
  \/ in.mode \notin {"bridge", "host"} /\ NetworkIP(in.mode) = <<>>

NoAddress == {<<>>, AnyAddress}

\* Why a service can be without an address.
Unreachable ==
  \/ in.mode = "container" /\ in.inspects /\ in.podIP = <<>>
  \/ \E v \in LabelValues \ {<<>>} : BeforeSlash(v) \in NoAddress
  \/ in.internal /\ in.IPAddress = <<>> /\ Unaddressed
  \/ ~in.internal /\ in.HostIp = <<>> /\ Unresolved
  \/ ~in.internal /\ in.HostIp = AnyAddress

HasAddress(s) == s.IP \in NoAddress => Unreachable

\* A service has an address that can be reached from other hosts, whatever
\* label, option, network or port it is taken from, except in these cases: the
\* container shares the network of one that has no address of its own; the
\* label has nothing before its last slash; the internal address is asked for
\* and the container lacks one; without -ip, the name of the host is unknown or
\* not resolved, or NetworkMode is not the name of a network in which the
\* container has an address; -ip is 0.0.0.0.
AddressKnown == \A s \in services : HasAddress(s)

=============================================================================
