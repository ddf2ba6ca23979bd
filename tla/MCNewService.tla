---------------------------- MODULE MCNewService ----------------------------
(* Containers for NewService: each set varies one part of the input. *)
EXTENDS NewService, SequencesExt

CONSTANT MaxTagLength   \* bound: length of a list of tags

MCSymbols ==
  {"a", ",", "\\", "/", "api", "web", "app", "image", "id", "task", "true",
   "false", "udp", "host", "0.0.0.0", "hostIP", "newIP", "configIP", "bridgeIP",
   "overlayIP", "podIP", "labelIP", "24"}

Tcp(n) == [num |-> n, type |-> "tcp"]
Udp(n) == [num |-> n, type |-> "udp"]
Sctp(n) == [num |-> n, type |-> "sctp"]
Service(n, key, upper) == [service |-> TRUE, ecs |-> FALSE, port |-> n,
                           key |-> key, upper |-> upper]
Other(key, ecs) == [service |-> FALSE, ecs |-> ecs, port |-> 0, key |-> key,
                    upper |-> FALSE]
Env(key, value) == [key |-> key, value |-> value]

Name == Service(0, "name", TRUE)
Named == Name :> <<"api">>

Plain ==
  [env |-> <<>>, labels |-> Named, image |-> <<"image">>,
   exposed |-> {Tcp(80)},
   published |-> (Tcp(80) :> [port |-> 8080, ip |-> <<>>]),
   mode |-> "bridge", Networks |-> ("bridge" :> <<"bridgeIP">>),
   last |-> "bridge", IPAddress |-> <<"bridgeIP">>, podIP |-> <<>>,
   Hostname |-> <<"host">>, resolved |-> <<"hostIP">>,
   newIP |-> <<>>, HostIp |-> <<>>, internal |-> FALSE,
   requireLabel |-> FALSE, UseIpFromLabel |-> Other("", FALSE),
   ForceTags |-> <<>>, inspects |-> TRUE]

TwoPorts ==
  (Tcp(80) :> [port |-> 8080, ip |-> <<>>]) @@
  (Udp(80) :> [port |-> 8081, ip |-> <<>>]) @@
  (Tcp(90) :> [port |-> 0, ip |-> <<>>])

\* Names and IDs for all ports or for one, in either case, by label or by
\* variable.
SomeKeys ==
  {Name, Service(0, "name", FALSE), Service(80, "name", TRUE)}

Subfunctions(S, v) == UNION {[T -> {v}] : T \in SUBSET S}

Naming ==
  {[Plain EXCEPT !.labels = l @@ i, !.env = e, !.published = TwoPorts] :
     l \in Subfunctions(SomeKeys, <<"api">>),
     i \in Subfunctions({Service(0, "id", TRUE), Service(90, "id", TRUE)},
                        <<"id">>),
     e \in {<<>>, <<Env(Name, <<"web">>), Env(Name, <<"app">>)>>} \cup
           {<<Env(k, <<"web">>)>> : k \in SomeKeys}}

\* Commas and backslashes.
Tagging ==
  {[Plain EXCEPT !.labels = (Service(0, "tags", TRUE) :> t) @@ @] :
     t \in BoundedSeq({"a", ",", "\\"}, MaxTagLength)}
  \cup
  {[Plain EXCEPT !.ForceTags = t, !.published = TwoPorts] :
     t \in BoundedSeq({"a", ","}, 3)}

\* What makes a service be ignored, and the labels of ECS.
Ignoring ==
  {[Plain EXCEPT !.labels = (Service(n, k, TRUE) :> v) @@
                            (Other("ecs", TRUE) :> <<"task">>) @@ @,
                 !.requireLabel = r, !.published = TwoPorts] :
     n \in {0, 80}, k \in {"ignore", "register", "name"},
     v \in {<<>>, <<"true">>, <<"false">>, <<"image">>}, r \in BOOLEAN}

\* Ports and addresses.
Exposing ==
  {[Plain EXCEPT !.published = p, !.exposed = {Tcp(80), Tcp(90)},
                 !.env = e, !.internal = i] :
     p \in {<<>>, TwoPorts,
            (Sctp(80) :> [port |-> 8082, ip |-> <<>>]) @@ TwoPorts},
     i \in BOOLEAN,
     e \in {<<>>, <<Env(Other("use_exposed_ports", FALSE), <<"true">>)>>} \cup
           {<<Env(Service(0, "use_exposed_ports", u), v),
              Env(Service(80, "use_exposed_ports", u), w)>> :
                u \in BOOLEAN, v, w \in {<<>>, <<"true">>, <<"false">>}}}

\* Networks: the bridge, also of a container that has exited; that of the host;
\* one that is named, or given by its ID, or one of two; none; another
\* container's.
In(mode, ip, networks, last) ==
  [Plain EXCEPT !.mode = mode, !.IPAddress = ip, !.Networks = networks,
                !.last = last,
                !.published = IF mode = "bridge" THEN @ ELSE <<>>]

Attached ==
  LET overlay == "overlay" :> <<"overlayIP">>
  IN {In("bridge", <<"bridgeIP">>, "bridge" :> <<"bridgeIP">>, "bridge"),
      In("bridge", <<>>, "bridge" :> <<>>, "bridge"),
      In("host", <<>>, "host" :> <<>>, "host"),
      In("overlay", <<>>, overlay, "overlay"),
      In("overlayID", <<>>, overlay, "overlay"),
      In("overlay", <<>>, overlay @@ ("other" :> <<>>), "other"),
      In("none", <<>>, "none" :> <<>>, "none")}
     \cup {[In("container", <<>>, <<>>, "") EXCEPT !.inspects = s, !.podIP = p] :
              s \in BOOLEAN, p \in {<<>>, <<"podIP">>}}

Addressing ==
  {[i EXCEPT !.newIP = n, !.HostIp = h, !.internal = internal,
             !.Hostname = r[1], !.resolved = r[2],
             !.UseIpFromLabel = Other("ip", FALSE),
             !.labels = (Other("ip", FALSE) :> v) @@ @] :
     i \in Attached, n \in {<<>>, <<"newIP">>},
     h \in {<<>>, <<"configIP">>, <<"0.0.0.0">>}, internal \in BOOLEAN,
     r \in {<<<<"host">>, <<"hostIP">>>>, <<<<"host">>, <<>>>>,
            <<<<>>, <<"hostIP">>>>},
     v \in {<<>>, <<"labelIP">>, <<"labelIP", "/", "24">>, <<"/", "24">>}}

MCInputs == Naming \cup Tagging \cup Ignoring \cup Exposing \cup Addressing
=============================================================================
