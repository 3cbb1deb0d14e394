-------------------------- MODULE BodiesProperties --------------------------
(***************************************************************************)
(* What the bodies of a run may rely on: the value they are given is the   *)
(* one the node they named holds now, in the copy they belong to, and a    *)
(* resource released by dropping really goes with that drop.               *)
(***************************************************************************)
EXTENDS Bodies

(* The value of the node that key m, named in instance i, stands for: that *)
(* of its current attempt, in the nearest copy outwards of its scope.      *)
Current(m, i) ==
  LET o == OwnerOf(m)
      e == Find(PlanOf[o], i) IN
  Value(o, e, IF o \in Leaf THEN attempt[e][o] ELSE 1)

(* What a body, an episode, a release or a recovery was given is the       *)
(* current value of what it named, never missing, never that of an earlier *)
(* attempt and never that of a sibling instance (host/bodies.rs:340).      *)
GivenTheCurrent ==
  \A i \in Live : \A k \in NodesOf(i) : \A m \in DOMAIN given[i][k] :
    given[i][k][m] = Current(m, i)

(* A node that is ready can be read: its slot holds its current value, of  *)
(* a component what its child exports, as long as the owner is up.         *)
ReadyIsReadable ==
  \A i \in Live : \A k \in NodesOf(i) :
    LET o == OwnerOf(k) IN
    /\ st[i][k] = "ready"
    /\ o \in Leaf => st[Find(PlanOf[o], i)][o] = "ready"
    => slots[i][k] = Current(k, i)

(* Once the destructor of a resource released by dropping has been run by  *)
(* the cleanup, no slot of any scope and no body holds its value: the drop *)
(* in the cleanup's poll was the last one the engine could have made       *)
(* (host/bodies/disposal.rs:51).                                           *)
DropIsLast ==
  \A v \in dropped : \A i \in Live :
    /\ \A k \in KeysOf(i) : slots[i][k] # v
    /\ \A k \in NodesOf(i) : \A m \in DOMAIN given[i][k] : given[i][k][m] # v

=============================================================================
