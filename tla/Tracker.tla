------------------------------ MODULE Tracker -------------------------------
(***************************************************************************)
(* What Bridge.services and Bridge.deadContainers promise together, without *)
(* goroutines, addresses and registry: the life of a container in the maps. *)
(* The maps are a monitor.  A step is one operation on one container, the   *)
(* ageing of all dead ones, or the end of the process; a container is       *)
(* tracked by one of its ports at most; and nothing moves once the lock is  *)
(* lost.  A container may be tracked and dead at the same time: the code    *)
(* does not keep the maps apart, and every operation must cope with that.   *)
(***************************************************************************)
EXTENDS Naturals

CONSTANTS
  Containers,
  Ports,
  Lifetime,   \* how long a dead container is remembered; 0: not at all
  Interval    \* by how much it ages at a time

VARIABLES
  kept,    \* the port of each container that is tracked, if any
  grave,   \* the port that a dead container was tracked by
  left,    \* the time it is still remembered
  stuck    \* the lock is lost

vars == <<kept, grave, left, stuck>>

Init ==
  /\ kept = [c \in Containers |-> {}] /\ grave = [c \in Containers |-> {}]
  /\ left = [c \in Containers |-> 0]
  /\ stuck = FALSE

\* A container is tracked by the first of its ports that is registered.
Track(c, p) ==
  /\ ~stuck /\ kept[c] = {}
  /\ kept' = [kept EXCEPT ![c] = {p}]
  /\ UNCHANGED <<grave, left, stuck>>

\* It is forgotten, in both maps.
Drop(c) ==
  /\ ~stuck
  /\ kept' = [kept EXCEPT ![c] = {}] /\ grave' = [grave EXCEPT ![c] = {}]
  /\ left' = [left EXCEPT ![c] = 0]
  /\ UNCHANGED stuck

\* It is moved to the dead ones, in place of what is there.
Retire(c) ==
  /\ ~stuck /\ kept[c] # {} /\ Lifetime > 0
  /\ kept' = [kept EXCEPT ![c] = {}] /\ grave' = [grave EXCEPT ![c] = kept[c]]
  /\ left' = [left EXCEPT ![c] = Lifetime]
  /\ UNCHANGED stuck

\* It is moved back, in place of what is there.
Revive(c) ==
  /\ ~stuck /\ left[c] > 0
  /\ kept' = [kept EXCEPT ![c] = grave[c]] /\ grave' = [grave EXCEPT ![c] = {}]
  /\ left' = [left EXCEPT ![c] = 0]
  /\ UNCHANGED stuck

\* Dead containers whose time is over are forgotten.
Age ==
  /\ ~stuck
  /\ left' = [c \in Containers |->
                IF left[c] <= Interval THEN 0 ELSE left[c] - Interval]
  /\ grave' = [c \in Containers |->
                 IF left[c] <= Interval THEN {} ELSE grave[c]]
  /\ UNCHANGED <<kept, stuck>>

Lose ==
  /\ ~stuck /\ \E c \in Containers : kept[c] # {}
  /\ stuck' = TRUE
  /\ UNCHANGED <<kept, grave, left>>

Restart ==
  /\ kept' = [c \in Containers |-> {}] /\ grave' = [c \in Containers |-> {}]
  /\ left' = [c \in Containers |-> 0]
  /\ stuck' = FALSE

Next ==
  \/ \E c \in Containers : \/ Drop(c) \/ Retire(c) \/ Revive(c)
                           \/ \E p \in Ports : Track(c, p)
  \/ Age \/ Lose \/ Restart

Spec == Init /\ [][Next]_vars
=============================================================================
