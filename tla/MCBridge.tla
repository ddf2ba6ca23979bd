------------------------------ MODULE MCBridge ------------------------------
(* Small instances of Bridge for TLC. *)
EXTENDS BridgeTracker, TLC

CONSTANTS c1, c2, n1, n2, p1, p2, a, b, e1, e2, s1

OneName == [c \in Containers |-> n1]
AllPorts == [c \in Containers |-> Ports]

\* The IDs of n1 are made up by newService, those of n2 given with SERVICE_ID.
OwnKeys == {k \in Key : k[1] = n1}
AllEntries == Key \X {a}

\* All containers are alike when they share one name; so are the event slots.
Symmetry == Permutations(Containers) \cup Permutations(EventSlots)
=============================================================================
