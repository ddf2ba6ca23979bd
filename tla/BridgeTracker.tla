--------------------------- MODULE BridgeTracker ----------------------------
(* The maps of Bridge, seen as a Tracker. *)
EXTENDS Bridge

Kept == [c \in Containers |-> {s.port : s \in services[c]}]
Grave == [c \in Containers |-> {s.port : s \in dead[c].svcs}]
Left == [c \in Containers |-> dead[c].ttl]

Life == INSTANCE Tracker WITH Lifetime <- RefreshTtl,
                              Interval <- RefreshInterval,
                              kept <- Kept, grave <- Grave, left <- Left,
                              stuck <- Hung

\* The maps behave as a Tracker although adds, removals, synchronisations and
\* the prune ticker overlap: no step of any of them loses half of a container,
\* tracks a second service, changes two containers at once, or touches a
\* container that was tracked and dead in any other way than Tracker says.
Lifecycle == Life!Spec
=============================================================================
