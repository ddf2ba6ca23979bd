-------------------------- MODULE NewServiceProofs --------------------------
(* What the services of a container are, for every container.             *)
EXTENDS NewService, TagsProofs

\* A set of indices of a list that is not empty has a last one.
LEMMA LastIndex ==
  ASSUME NEW n \in Nat, NEW S \in SUBSET (1..n), S # {}
  PROVE  Max(S) \in S /\ \A i \in S : i <= Max(S)
<1> DEFINE fromEnd == {n - i : i \in S}
<1>1. \A i \in S : n - i \in Nat
  OBVIOUS
<1>2. fromEnd \in SUBSET Nat /\ fromEnd # {}
  BY <1>1, Zenon
<1>3. PICK m \in fromEnd : \A k \in fromEnd : m <= k
  BY <1>2, LeastNumber, Zenon
<1>4. PICK j \in S : m = n - j
  OBVIOUS
<1>5. \A i \in S : j >= i
  BY <1>3, <1>4, SMTT(30)
<1> QED BY <1>5, Zenon DEF Max

-----------------------------------------------------------------------------
(* The metadata                                                            *)

\* Whatever has been merged already, the result is the same.
LEMMA MergedTwice ==
  ASSUME NEW meta
  PROVE  Merged(Merged(meta)) = Merged(meta)
BY DEF Merged

\* Each entry of the merged labels is said by the container...
LEMMA MergedSays ==
  ASSUME in \in Inputs, NEW k \in DOMAIN Merged(in.labels), k.service
  PROVE  Merged(in.labels)[k] \in Said(k.port, k.key)
<1> DEFINE set == {i \in DOMAIN in.env : in.env[i].key = k}
<1>1. CASE set # {}
  <2>1. Len(in.env) \in Nat /\ set \in SUBSET (1..Len(in.env))
    BY InputsAssumption
  <2>2. Max(set) \in set /\ \A i \in set : i <= Max(set)
    BY <1>1, <2>1, LastIndex, Zenon
  <2>3. Merged(in.labels)[k] = in.env[Max(set)].value
    BY <1>1 DEF Merged
  <2> QED BY <2>2, <2>3, Zenon DEF Said, Says
<1>2. CASE set = {}
  <2>1. k \in DOMAIN in.labels /\ Merged(in.labels)[k] = in.labels[k]
    BY <1>2 DEF Merged
  <2> QED BY <1>2, <2>1 DEF Said, Says
<1> QED BY <1>1, <1>2

\* ... and all that it says is there.
LEMMA SaidMerged ==
  ASSUME NEW num, NEW key, Said(num, key) # {}
  PROVE  \E k \in DOMAIN Merged(in.labels) : Says(k, num, key)
BY DEF Said, Merged

\* What has been found so far of a key, for a port or in general.
Visited(num, key) == {k \in DOMAIN labels \ keys : Says(k, num, key)}

\* serviceMetaData is at work on the merged labels, for a port that has a
\* number, and the visited labels are the metadata.
Scanning ==
  /\ keys \subseteq DOMAIN labels
  /\ metadataFromPort = {x \in {l.key : l \in DOMAIN labels} :
                           Visited(port.num, x) # {}}
  /\ DOMAIN metadata = {x \in {l.key : l \in DOMAIN labels} :
                          Visited(port.num, x) \cup Visited(0, x) # {}}
  /\ \A x \in DOMAIN metadata :
       metadata[x] \in {labels[k] : k \in IF x \in metadataFromPort
                                          THEN Visited(port.num, x)
                                          ELSE Visited(0, x)}

ScanInv ==
  /\ in \in Inputs
  /\ labels \in {in.labels, Merged(in.labels)}
  /\ pc = "scan" => /\ labels = Merged(in.labels)
                    /\ port \in Ports
                    /\ Scanning
  /\ ports \subseteq Ports

\* At first no label has been visited.
LEMMA ScanInit ==
  ASSUME Init PROVE ScanInv
BY DEF Init, ScanInv

\* serviceMetaData starts with the merged labels, all of them unvisited.
LEMMA BeginScan ==
  ASSUME ScanInv, NEW p \in ports, Begin(p)
  PROVE  ScanInv'
<1>1. labels' = Merged(in.labels)
  BY MergedTwice DEF ScanInv, Begin
<1>2. Merged(in.labels)' = Merged(in.labels)
  BY DEF Merged, Begin
<1>3. \A num, x : Visited(num, x)' = {}
  BY DEF Visited, Begin
<1>4. DOMAIN metadata' = {}
  BY DEF Begin
<1>5. Scanning'
  BY <1>3, <1>4 DEF Scanning, Begin
<1> QED BY <1>1, <1>2, <1>5 DEF ScanInv, Begin

\* Each step of the loop adds a label to those visited.
LEMMA VisitScan ==
  ASSUME ScanInv, NEW k \in keys, Visit(k)
  PROVE  ScanInv'
<1>1. /\ Scanning /\ port.num # 0 /\ k \in DOMAIN labels
      /\ UNCHANGED <<in, labels, pc, ports, port>> /\ keys' = keys \ {k}
  BY DEF ScanInv, Scanning, Visit, Ports
<1>2. \A num, x : Visited(num, x)' = Visited(num, x) \cup
                    (IF Says(k, num, x) THEN {k} ELSE {})
  BY <1>1, SMTT(30) DEF Visited
<1>3. CASE k.service /\ k.port = port.num
  <2>1. /\ metadata' = Put(metadata, k.key, labels[k])
        /\ metadataFromPort' = metadataFromPort \cup {k.key}
    BY <1>1, <1>3 DEF Visit
  <2>2. /\ DOMAIN metadata' = DOMAIN metadata \cup {k.key}
        /\ metadata'[k.key] = labels[k]
        /\ \A y \in DOMAIN metadata \ {k.key} : metadata'[y] = metadata[y]
    BY <2>1 DEF Put
  <2>3. Scanning'
    BY <1>1, <1>2, <1>3, <2>1, <2>2 DEF Scanning, Says
  <2> QED BY <1>1, <2>3, SMTT(30) DEF ScanInv, Merged
<1>4. CASE k.service /\ k.port = 0 /\ k.key \notin metadataFromPort
  <2>1. /\ metadata' = Put(metadata, k.key, labels[k])
        /\ metadataFromPort' = metadataFromPort
    BY <1>1, <1>4 DEF Visit
  <2>2. /\ DOMAIN metadata' = DOMAIN metadata \cup {k.key}
        /\ metadata'[k.key] = labels[k]
        /\ \A y \in DOMAIN metadata \ {k.key} : metadata'[y] = metadata[y]
    BY <2>1 DEF Put
  <2>3. Scanning'
    BY <1>1, <1>2, <1>4, <2>1, <2>2 DEF Scanning, Says
  <2> QED BY <1>1, <2>3, SMTT(30) DEF ScanInv, Merged
<1>5. CASE /\ UNCHANGED <<metadata, metadataFromPort>>
           /\ \/ ~k.service \/ k.port \notin {0, port.num}
              \/ k.port = 0 /\ k.key \in metadataFromPort
  <2>1. Scanning'
    BY <1>1, <1>2, <1>5 DEF Scanning, Says
  <2> QED BY <1>1, <2>1, SMTT(30) DEF ScanInv, Merged
<1> QED BY <1>3, <1>4, <1>5 DEF Visit

\* The ports that add collects have the right type.
LEMMA CollectScan ==
  ASSUME ScanInv, Collect
  PROVE  ScanInv'
<1>1. Merged(in.labels)' = Merged(in.labels)
  BY DEF Collect, Merged
<1>2. DOMAIN AllPorts \subseteq Ports
  BY InputsAssumption DEF ScanInv, AllPorts
<1> QED BY <1>1, <1>2 DEF ScanInv, Collect

\* A service is done, and with it the visit of the labels.
LEMMA FinishScan ==
  ASSUME ScanInv, Finish
  PROVE  ScanInv'
<1>1. Merged(in.labels)' = Merged(in.labels)
  BY DEF Finish, Merged
<1> QED BY <1>1 DEF ScanInv, Finish

\* Every step keeps the invariant of the loop.
LEMMA ScanNext ==
  ASSUME ScanInv, [Next]_vars
  PROVE  ScanInv'
<1>1. CASE UNCHANGED vars
  <2>1. Merged(in.labels)' = Merged(in.labels)
    BY <1>1 DEF vars, Merged
  <2>2. Scanning => Scanning'
    BY <1>1 DEF vars, Scanning, Visited
  <2> QED BY <1>1, <2>1, <2>2 DEF vars, ScanInv
<1> QED BY <1>1, CollectScan, BeginScan, VisitScan, FinishScan DEF Next

\* When all labels are visited, those that were found are those of the
\* container.
LEMMA AllVisited ==
  ASSUME ScanInv, pc = "scan", keys = {}, NEW num, NEW key
  PROVE  /\ Visited(num, key) # {} <=> Said(num, key) # {}
         /\ \A k \in Visited(num, key) : labels[k] \in Said(num, key)
<1>1. Visited(num, key) = {k \in DOMAIN labels : Says(k, num, key)}
  BY DEF Visited
<1>2. labels = Merged(in.labels) /\ in \in Inputs
  BY DEF ScanInv
<1>3. \A k \in Visited(num, key) : labels[k] \in Said(num, key)
  BY <1>1, <1>2, MergedSays DEF Says
<1>4. Said(num, key) # {} => Visited(num, key) # {}
  BY <1>1, <1>2, SaidMerged
<1> QED BY <1>3, <1>4

\* At the end of the loop the metadata are what the container says.
LEMMA MeaningFound ==
  ASSUME ScanInv
  PROVE  MetadataMeaning
<1> SUFFICES ASSUME pc = "scan", keys = {}
             PROVE  /\ DOMAIN metadata = {k \in {l.key : l \in DOMAIN labels} :
                                            Meant(port.num, k) # {}}
                    /\ \A k \in DOMAIN metadata :
                         metadata[k] \in Meant(port.num, k)
  BY DEF MetadataMeaning
<1>1. Scanning
  BY DEF ScanInv
<1>2. \A x : Meant(port.num, x) # {} <=>
               Visited(port.num, x) \cup Visited(0, x) # {}
  BY AllVisited DEF Meant
<1>3. DOMAIN metadata = {k \in {l.key : l \in DOMAIN labels} :
                           Meant(port.num, k) # {}}
  BY <1>1, <1>2 DEF Scanning
<1>4. ASSUME NEW k \in DOMAIN metadata
      PROVE  metadata[k] \in Meant(port.num, k)
  <2>1. CASE Visited(port.num, k) # {}
    BY <1>1, <2>1, AllVisited DEF Scanning, Meant
  <2>2. CASE Visited(port.num, k) = {}
    BY <1>1, <2>2, AllVisited DEF Scanning, Meant
  <2> QED BY <2>1, <2>2
<1> QED BY <1>3, <1>4

-----------------------------------------------------------------------------
(* The services                                                            *)

DefaultID(host, p) ==
  <<host, "container", p.num>> \o
  (IF p.type = "udp" THEN <<"udp">> ELSE <<>>)

\* The ID of a service is made from its port, unless it is given.
Identified(s) ==
  /\ s.port \in Ports
  /\ (\E host : s.ID = DefaultID(host, s.port)) \/ GivenID(s.port.num)

\* newService is called once for each port that is considered.
OncePerPort ==
  /\ pc \in {"ports", "next", "scan"} /\ (pc = "ports" => services = {})
  /\ ports \subseteq {p \in DOMAIN AllPorts : Considered(AllPorts[p])}
  /\ pc = "scan" => /\ port \in DOMAIN AllPorts /\ Considered(AllPorts[port])
                    /\ port \notin ports
                    /\ \A s \in services : s.port # port
  /\ \A s \in services : s.port \notin ports
  /\ \A s, t \in services : s.port = t.port => s = t

ServicesInv ==
  /\ ScanInv /\ OncePerPort
  /\ \A s \in services : Identified(s) /\ HasTags(s) /\ HasPort(s) /\ HasAddress(s)

\* Default IDs tell ports apart, but for transports other than udp.
LEMMA DefaultIDs ==
  ASSUME NEW p \in Ports, NEW q \in Ports, NEW g, NEW h,
         DefaultID(g, p) = DefaultID(h, q)
  PROVE  p = q \/ (p.num = q.num /\ "udp" \notin {p.type, q.type})
<1>1. ASSUME NEW r \in Ports, NEW host
      PROVE  /\ DefaultID(host, r)[3] = r.num
             /\ Len(DefaultID(host, r)) = IF r.type = "udp" THEN 4 ELSE 3
  BY DEF DefaultID, Ports
<1>2. p.num = q.num /\ (p.type = "udp" <=> q.type = "udp")
  BY <1>1
<1> QED BY <1>2 DEF Ports

\* A new service has the ID that its port or the container gives it.
LEMMA NewIdentified ==
  ASSUME ServicesInv, pc = "scan", keys = {}
  PROVE  Identified(newService)
<1>1. port \in Ports /\ newService.port = port /\ newService.ID = ServiceID
  BY DEF ServicesInv, ScanInv, newService
<1>2. CASE mapDefault(metadata, "id", <<>>) = <<>>
  <2>1. newService.ID = DefaultID(hostname, port)
    BY <1>1, <1>2, Zenon DEF ServiceID, DefaultID
  <2> QED BY <1>1, <2>1, Zenon DEF Identified
<1>3. CASE mapDefault(metadata, "id", <<>>) # <<>>
  <2>1. "id" \in DOMAIN metadata /\ metadata["id"] # <<>>
    BY <1>3 DEF mapDefault
  <2>2. metadata["id"] \in Meant(port.num, "id")
    BY <2>1, MeaningFound DEF ServicesInv, MetadataMeaning
  <2> QED BY <1>1, <2>1, <2>2 DEF Identified, GivenID
<1> QED BY <1>2, <1>3

\* lookupMetaData has found a variable for all ports.
LEMMA LookedUp ==
  ASSUME NEW key, lookupMetaData(in.env, key) # <<>>
  PROVE  \E i \in DOMAIN in.env :
           in.env[i].key.port = 0 /\ in.env[i].key.key = key
BY Zenon DEF lookupMetaData

\* A new service has a port, but for the named case.
LEMMA NewHasPort ==
  ASSUME ServicesInv, pc = "scan", keys = {}
  PROVE  HasPort(newService)
<1> DEFINE key == "use_exposed_ports"
<1>1. /\ ScanInv /\ in \in Inputs /\ labels = Merged(in.labels)
      /\ port \in Ports /\ port.num # 0
  BY DEF ServicesInv, ScanInv, Ports
<1>2. newService.port = port /\ newService.Port = ServicePort
  BY DEF newService
<1> SUFFICES ASSUME ServicePort = 0,
                    \A i \in DOMAIN in.env :
                      in.env[i].key.key = key => in.env[i].key.service
             PROVE  \E n \in {0, port.num} : Said(n, key) \ {<<"true">>} # {}
  BY <1>2 DEF HasPort
<1>3. ~in.internal /\ ~UseExposedPorts /\ AllPorts[port].HostPort = 0
  BY <1>1 DEF ServicePort
<1>4. lookupMetaData(in.env, key) # <<>>
  BY <1>3 DEF ServicesInv, OncePerPort, Considered
<1>5. PICK i \in DOMAIN in.env : Says(in.env[i].key, 0, key)
  BY <1>1, <1>4, LookedUp DEF Says
<1>6. in.env[i].key \in DOMAIN labels
  BY <1>1 DEF Merged
<1>7. in.env[i].key \in Visited(0, key)
  BY <1>5, <1>6 DEF Visited
<1>8. key \in DOMAIN metadata
  BY <1>1, <1>5, <1>6, <1>7 DEF ScanInv, Scanning, Says
<1>9. metadata[key] # <<"true">>
  BY <1>3, <1>8 DEF UseExposedPorts, mapDefault
<1>10. metadata[key] \in Said(port.num, key) \cup Said(0, key)
  BY <1>1, <1>8, MeaningFound DEF MetadataMeaning, Meant
<1> QED BY <1>9, <1>10

\* What is read from the label is one of its values.
LEMMA LabelRead ==
  ASSUME ScanInv, pc = "scan"
  PROVE  mapDefault(labels, in.UseIpFromLabel, <<>>) \in LabelValues \cup {<<>>}
<1> DEFINE k == in.UseIpFromLabel  set == {i \in DOMAIN in.env : in.env[i].key = k}
<1>1. in \in Inputs /\ labels = Merged(in.labels)
  BY DEF ScanInv
<1>2. CASE k \notin DOMAIN labels
  BY <1>2, Zenon DEF mapDefault
<1>3. CASE k \in DOMAIN labels /\ set # {}
  <2>1. Len(in.env) \in Nat /\ set \in SUBSET (1..Len(in.env))
    BY <1>1, InputsAssumption
  <2>2. Max(set) \in set
    BY <1>3, <2>1, LastIndex, Zenon
  <2>3. labels[k] = in.env[Max(set)].value
    BY <1>1, <1>3, Zenon DEF Merged
  <2> QED BY <1>3, <2>2, <2>3, Zenon DEF mapDefault, LabelValues
<1>4. CASE k \in DOMAIN labels /\ set = {}
  <2>1. k \in DOMAIN in.labels /\ labels[k] = in.labels[k]
    BY <1>1, <1>4 DEF Merged
  <2> QED BY <1>4, <2>1, Zenon DEF mapDefault, LabelValues
<1> QED BY <1>2, <1>3, <1>4

\* 0.0.0.0 is an address, and no container or host has it.
LEMMA AnyIs ==
  ASSUME in \in Inputs
  PROVE  /\ AnyAddress # <<>>
         /\ in.IPAddress # AnyAddress /\ in.podIP # AnyAddress
         /\ in.resolved # AnyAddress
         /\ \A n \in DOMAIN in.Networks : in.Networks[n] # AnyAddress
         /\ DOMAIN in.Networks # {} => in.last \in DOMAIN in.Networks
<1>1. AnyAddress # <<>>
  BY DEF AnyAddress
<1>2. {in.IPAddress, in.podIP, in.resolved} \cup
        {in.Networks[n] : n \in DOMAIN in.Networks} \subseteq Values \ {AnyAddress}
  BY InputsAssumption, Zenon
<1>3. DOMAIN in.Networks # {} => in.last \in DOMAIN in.Networks
  BY InputsAssumption, Zenon
<1>4. /\ in.IPAddress # AnyAddress /\ in.podIP # AnyAddress
      /\ in.resolved # AnyAddress
  BY <1>2, Zenon
<1>5. \A n \in DOMAIN in.Networks : in.Networks[n] # AnyAddress
  BY <1>2, Zenon
<1> QED BY <1>1, <1>3, <1>4, <1>5, Zenon

\* A port of a container without -ip has an address that is not known only if
\* it is that of the mode.
LEMMA HostIPKnown ==
  ASSUME in \in Inputs, port \in DOMAIN AllPorts, HostIP \in NoAddress
  PROVE  in.HostIp = AnyAddress \/ (in.HostIp = <<>> /\ Unresolved)
<1> DEFINE ip == AllPorts[port].HostIP
           own == in.mode \notin {"bridge", "host"} /\ NetworkIP(in.mode) = <<>>
<1>1. ip = <<>> => own
  <2>1. AnyAddress # <<>>
    BY AnyIs
  <2> QED BY <2>1, Zenon DEF AllPorts, servicePort
<1> HIDE DEF ip
<1>2. CASE in.HostIp # <<>>
  BY <1>2, Zenon DEF HostIP, NoAddress
<1>3. CASE in.HostIp = <<>> /\ ip = <<>>
  BY <1>1, <1>3, Zenon DEF Unresolved
<1>4. CASE in.HostIp = <<>> /\ ip = AnyAddress
  BY <1>4, AnyIs, Zenon DEF HostIP, NoAddress, Unresolved, ip
<1>5. CASE in.HostIp = <<>> /\ ip \notin NoAddress
  BY <1>5, Zenon DEF HostIP, NoAddress, ip
<1> QED BY <1>2, <1>3, <1>4, <1>5, Zenon DEF NoAddress

\* A new service has an address, but for the named cases.
LEMMA NewHasAddress ==
  ASSUME ServicesInv, pc = "scan"
  PROVE  HasAddress(newService)
<1> DEFINE label == mapDefault(labels, in.UseIpFromLabel, <<>>)
<1>1. /\ in \in Inputs /\ port \in DOMAIN AllPorts /\ ScanInv
      /\ newService.IP = ServiceIP
  BY DEF ServicesInv, ScanInv, OncePerPort, newService
<1> SUFFICES ASSUME ServiceIP \in NoAddress PROVE Unreachable
  BY <1>1 DEF HasAddress
<1>2. CASE in.mode = "container" /\ in.inspects
  BY <1>1, <1>2, AnyIs, Zenon DEF ServiceIP, NoAddress, Unreachable
<1>3. CASE ~(in.mode = "container" /\ in.inspects) /\ label # <<>>
  <2>1. label \in LabelValues \ {<<>>}
    BY <1>1, <1>3, LabelRead, Zenon
  <2>2. ServiceIP = BeforeSlash(label)
    BY <1>3, Zenon DEF ServiceIP
  <2> HIDE DEF label
  <2> QED BY <2>1, <2>2, Zenon DEF Unreachable
<1>4. CASE ~(in.mode = "container" /\ in.inspects) /\ label = <<>> /\ in.internal
  <2>1. ServiceIP = AllPorts[port].ExposedIP
    BY <1>4, Zenon DEF ServiceIP
  <2>2. AllPorts[port].ExposedIP =
          IF in.IPAddress # <<>> THEN in.IPAddress ELSE NetworkIP(in.last)
    BY <1>1, Zenon DEF AllPorts, servicePort
  <2>3. in.IPAddress = <<>> /\ NetworkIP(in.last) \in NoAddress
    BY <1>1, <2>1, <2>2, AnyIs, Zenon DEF NoAddress
  <2>4. Unaddressed
    BY <1>1, <2>3, AnyIs, Zenon DEF Unaddressed, NetworkIP, NoAddress
  <2> QED BY <1>4, <2>3, <2>4, Zenon DEF Unreachable
<1>5. CASE ~(in.mode = "container" /\ in.inspects) /\ label = <<>> /\ ~in.internal
  <2>1. ServiceIP = HostIP
    BY <1>5, Zenon DEF ServiceIP
  <2> QED BY <1>1, <1>5, <2>1, HostIPKnown, Zenon DEF Unreachable
<1> QED BY <1>2, <1>3, <1>4, <1>5, Zenon

\* The list of tags that newService reads is one that the container gives.
LEMMA OwnList ==
  ASSUME ScanInv, pc = "scan", keys = {}
  PROVE  LET list == mapDefault(metadata, "tags", <<>>)
             lists == Meant(port.num, "tags")
         IN list \in Values /\ list \in (IF lists = {} THEN {<<>>} ELSE lists)
<1> DEFINE list == mapDefault(metadata, "tags", <<>>)
           lists == Meant(port.num, "tags")
<1>1. lists \subseteq Values
  <2>1. in \in Inputs
    BY DEF ScanInv
  <2>2. \A num : Said(num, "tags") \subseteq Values
    <3>1. /\ in.env \in Seq([key : Keys, value : Values])
          /\ \A k \in DOMAIN in.labels : in.labels[k] \in Values
      BY <2>1, InputsAssumption, Zenon
    <3>2. \A i \in DOMAIN in.env : in.env[i] \in [key : Keys, value : Values]
      BY <3>1, Elements, Zenon
    <3>3. \A e \in [key : Keys, value : Values] : e.value \in Values
      OBVIOUS
    <3> QED BY <3>1, <3>2, <3>3, Zenon DEF Said
  <2> QED BY <2>2 DEF Meant
<1>2. CASE "tags" \in DOMAIN metadata
  <2>1. metadata["tags"] \in lists
    BY <1>2, MeaningFound DEF MetadataMeaning
  <2>2. list = metadata["tags"]
    BY <1>2 DEF mapDefault
  <2> QED BY <1>1, <2>1, <2>2
<1>3. CASE "tags" \notin DOMAIN metadata
  <2>1. list = <<>>
    BY <1>3 DEF mapDefault
  <2>2. lists = {}
    <3>1. Scanning
      BY DEF ScanInv
    <3>2. Visited(port.num, "tags") \cup Visited(0, "tags") = {}
      BY <1>3, <3>1 DEF Scanning, Visited, Says
    <3> QED BY <3>2, AllVisited DEF Meant
  <2>3. <<>> \in Values
    BY DEF Values
  <2> QED BY <2>1, <2>2, <2>3
<1> QED BY <1>2, <1>3

\* A new service has the tags of both lists and of its transport.
LEMMA NewHasTags ==
  ASSUME ScanInv, pc = "scan", keys = {}
  PROVE  HasTags(newService)
<1> DEFINE list == mapDefault(metadata, "tags", <<>>)
           transport == IF port.type = "udp" THEN <<"udp">> ELSE <<>>
           a == recParseEscapedComma[list][0]
           b == recParseEscapedComma[in.ForceTags][0]
           c == recParseEscapedComma[transport][0]
           own == Len(a)
           forced == Len(a) + Len(b)
           s == newService
<1>1. s.port = port /\ s.Tags = a \o b \o c
  BY Zenon DEF newService, combineTags
<1>2. in.ForceTags \in Values
  BY InputsAssumption DEF ScanInv
<1>3. list \in Values /\ list \in (IF Meant(port.num, "tags") = {} THEN {<<>>}
                                   ELSE Meant(port.num, "tags"))
  BY OwnList, Zenon
<1>4. /\ transport \in Values
      /\ c = IF port.type = "udp" THEN <<<<"udp">>>> ELSE <<>>
  <2>1. "udp" \in Symbols
    BY TransportAssumption
  <2>2. "udp" # ","
    OBVIOUS
  <2> QED BY <2>1, <2>2, ParsedNothing, ParsedSymbol, Zenon
<1>5. /\ a \in Seq(Values) /\ IsSplit(a, list)
      /\ b \in Seq(Values) /\ IsSplit(b, in.ForceTags)
      /\ c \in Seq(Values)
  <2>1. Parsed(list, list, 0) /\ Parsed(in.ForceTags, in.ForceTags, 0)
        /\ Parsed(transport, transport, 0)
    BY <1>2, <1>3, <1>4, ParserSplits, Zenon
  <2> HIDE DEF list, transport
  <2> QED BY <1>2, <1>3, <2>1, LastFirstSplits, Zenon DEF Parsed
<1> HIDE DEF list, transport, a, b, c, s, own, forced
<1>6. /\ Len(s.Tags) = Len(a) + Len(b) + Len(c)
      /\ SubSeq(s.Tags, 1, own) = a
      /\ SubSeq(s.Tags, own + 1, forced) = b
      /\ SubSeq(s.Tags, forced + 1, Len(s.Tags)) = c
  <2> DEFINE t == s.Tags
  <2>1. t = a \o b \o c
    BY <1>1
  <2> HIDE DEF t
  <2>2. /\ Len(t) = Len(a) + Len(b) + Len(c)
        /\ SubSeq(t, 1, Len(a)) = a
        /\ SubSeq(t, Len(a) + 1, Len(a) + Len(b)) = b
        /\ SubSeq(t, Len(a) + Len(b) + 1, Len(t)) = c
    BY <1>5, <2>1, Thirds
  <2> QED BY <2>2, Zenon DEF t, own, forced
<1>7. own \in 0..Len(s.Tags) /\ forced \in 0..Len(s.Tags) /\ own <= forced
  <2>1. Len(a) \in Nat /\ Len(b) \in Nat /\ Len(c) \in Nat
    BY <1>5
  <2>2. Len(s.Tags) = Len(a) + Len(b) + Len(c)
    BY <1>6, Zenon
  <2> QED BY <2>1, <2>2 DEF own, forced
<1>8. HasTags(s)
  BY <1>1, <1>3, <1>4, <1>5, <1>6, <1>7, Zenon DEF HasTags
<1> QED BY <1>8 DEF s

\* What is said of a service stays true: the container does not change.
LEMMA ServiceKept ==
  ASSUME UNCHANGED in, NEW s
  PROVE  /\ Identified(s) => Identified(s)'
         /\ HasTags(s) => HasTags(s)'
         /\ HasPort(s) => HasPort(s)'
         /\ HasAddress(s) => HasAddress(s)'
<1>1. \A num, key : Said(num, key)' = Said(num, key)
  BY DEF Said, Says
<1>2. \A num : GivenID(num)' = GivenID(num)
  BY <1>1 DEF GivenID, Meant
<1>3. Identified(s) => Identified(s)'
  BY <1>2 DEF Identified
<1>4. HasPort(s) => HasPort(s)'
  BY <1>1 DEF HasPort
<1>5. HasTags(s) => HasTags(s)'
  <2>1. \A num : Meant(num, "tags")' = Meant(num, "tags")
    BY <1>1, Zenon DEF Meant
  <2> QED BY <2>1, Zenon DEF HasTags
<1>6. Unreachable' <=> Unreachable
  <2>1. LabelValues' = LabelValues
    BY DEF LabelValues
  <2>2. Unaddressed' <=> Unaddressed
    BY DEF Unaddressed
  <2>3. Unresolved' <=> Unresolved
    BY DEF Unresolved, NetworkIP
  <2> QED BY <2>1, <2>2, <2>3 DEF Unreachable
<1> QED BY <1>3, <1>4, <1>5, <1>6, Zenon DEF HasAddress

\* The ports of a container do not change.
LEMMA PortsKept ==
  ASSUME UNCHANGED in
  PROVE  AllPorts' = AllPorts /\ \A sp : Considered(sp)' = Considered(sp)
BY DEF AllPorts, Considered, servicePort, NetworkIP

\* Every step keeps what is said of all services.
LEMMA ServicesNext ==
  ASSUME ServicesInv, [Next]_vars
  PROVE  ServicesInv'
<1>1. ScanInv'
  BY ScanNext DEF ServicesInv
<1>2. UNCHANGED in
  BY DEF Next, Collect, Begin, Visit, Finish, vars
<1>3. OncePerPort'
  <2>1. AllPorts' = AllPorts /\ \A sp : Considered(sp)' = Considered(sp)
    BY <1>2, PortsKept
  <2>2. CASE Collect
    BY <2>1, <2>2 DEF ServicesInv, OncePerPort, Collect
  <2>3. ASSUME NEW p \in ports, Begin(p)
        PROVE  OncePerPort'
    BY <2>1, <2>3 DEF ServicesInv, OncePerPort, Begin
  <2>4. ASSUME NEW k \in keys, Visit(k)
        PROVE  OncePerPort'
    BY <2>1, <2>4 DEF ServicesInv, OncePerPort, Visit
  <2>5. CASE Finish
    <3>1. newService.port = port
      BY DEF newService
    <3> QED BY <2>1, <2>5, <3>1 DEF ServicesInv, OncePerPort, Finish
  <2>6. CASE UNCHANGED vars
    BY <2>1, <2>6 DEF ServicesInv, OncePerPort, vars
  <2> QED BY <2>2, <2>3, <2>4, <2>5, <2>6 DEF Next
<1>4. ASSUME NEW s \in services'
      PROVE  Identified(s)' /\ HasTags(s)' /\ HasPort(s)' /\ HasAddress(s)'
  <2>1. CASE s \in services
    BY <1>2, <2>1, ServiceKept DEF ServicesInv
  <2>2. CASE s \notin services
    <3>1. pc = "scan" /\ keys = {} /\ s = newService
      BY <2>2 DEF Next, Collect, Begin, Visit, Finish, vars
    <3>2. Identified(s) /\ HasTags(s) /\ HasPort(s) /\ HasAddress(s)
      BY <3>1, NewIdentified, NewHasTags, NewHasPort, NewHasAddress
         DEF ServicesInv
    <3> QED BY <1>2, <3>2, ServiceKept
  <2> QED BY <2>1, <2>2
<1> QED BY <1>1, <1>3, <1>4 DEF ServicesInv

\* So it always holds.
LEMMA Invariance == Spec => []ServicesInv
<1>1. Init => ServicesInv
  BY ScanInit DEF Init, ServicesInv, OncePerPort
<1>2. ServicesInv /\ [Next]_vars => ServicesInv'
  BY ServicesNext
<1> QED BY <1>1, <1>2, PTL DEF Spec

-----------------------------------------------------------------------------
\* serviceMetaData finds what the container says of a port, for every set of
\* labels and every environment, in whatever order the map is gone through,
\* although each call writes the environment into the labels the next one reads.
THEOREM MetadataMeans == Spec => []MetadataMeaning
<1>1. ServicesInv => MetadataMeaning
  BY MeaningFound DEF ServicesInv
<1> QED BY <1>1, Invariance, PTL

\* However commas and backslashes follow each other in the list of a container
\* and in -tags, combineTags cuts them where no backslash is before the comma,
\* and drops and adds no tag.
THEOREM TagsMean == Spec => []TagsMeaning
<1>1. ServicesInv => TagsMeaning
  BY Zenon DEF ServicesInv, TagsMeaning
<1> QED BY <1>1, Invariance, PTL

\* newService does not give two ports of a container one ID, except as
\* UniqueIDs says.
THEOREM IDsDiffer == Spec => []UniqueIDs
<1>1. ServicesInv => UniqueIDs
  <2> SUFFICES ASSUME ServicesInv, NEW s \in services, NEW t \in services,
                      s.ID = t.ID, ~GivenID(s.port.num), ~GivenID(t.port.num)
               PROVE  \/ s = t
                      \/ /\ s.port.num = t.port.num
                         /\ "udp" \notin {s.port.type, t.port.type}
    BY DEF UniqueIDs, GivenID
  <2>1. /\ s.port \in Ports /\ t.port \in Ports
        /\ \E g, h : DefaultID(g, s.port) = DefaultID(h, t.port)
    BY Zenon DEF ServicesInv, Identified
  <2> QED BY <2>1, DefaultIDs DEF ServicesInv, OncePerPort
<1> QED BY <1>1, Invariance, PTL

\* add and newService ask in different ways whether an exposed port will do;
\* only what PortsKnown names makes them disagree.
THEOREM PortsAreKnown == Spec => []PortsKnown
<1>1. ServicesInv => PortsKnown
  BY DEF ServicesInv, HasPort, PortsKnown
<1> QED BY <1>1, Invariance, PTL

\* Whatever networks, labels, ports and options there are, a service that
\* newService makes is without an address only in the cases that AddressKnown
\* names.
THEOREM AddressesAreKnown == Spec => []AddressKnown
<1>1. ServicesInv => AddressKnown
  BY Zenon DEF ServicesInv, HasAddress, AddressKnown
<1> QED BY <1>1, Invariance, PTL

=============================================================================
