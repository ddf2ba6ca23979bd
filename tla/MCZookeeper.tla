---------------------------- MODULE MCZookeeper -----------------------------
(* Instances of Zookeeper: two hosts that publish services of one name. *)
EXTENDS Zookeeper, TLC

CONSTANTS s1, s2, h1, h2, n1

TwoHosts == [s \in Services |-> IF s = s2 THEN h2 ELSE h1]
OneName == [s \in Services |-> n1]
=============================================================================
