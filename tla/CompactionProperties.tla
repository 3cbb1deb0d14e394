------------------------ MODULE CompactionProperties ------------------------
(***************************************************************************)
(* What compaction must not show.                                          *)
(***************************************************************************)
EXTENDS Compaction

-----------------------------------------------------------------------------
(* The readers: history.rs and the by-key readers of machine.rs.           *)

Kept == DOMAIN m.history.nodes
AllKeys == {m.t.nodes[n].key : n \in DOMAIN m.t.nodes} \cup Kept

StateByKey(k) ==
  IF Known(k) THEN StateOf(m, IndexOf(m.t, k)) ELSE m.history.nodes[k].state

Origin(k) ==
  IF Known(k) THEN <<m.t.nodes[IndexOf(m.t, k)].decl, m.t.nodes[IndexOf(m.t, k)].instance>>
  ELSE <<m.history.nodes[k].decl, m.history.nodes[k].instance>>

OrderOf(k) == IF Known(k) THEN m.t.nodes[IndexOf(m.t, k)].order ELSE m.history.nodes[k].order

InstanceNodes(id) ==
  IF id \in DOMAIN m.history.instances THEN m.history.instances[id].nodes
  ELSE {m.t.nodes[n].key : n \in Belongs(id)}

ReadById == [id \in ToSet(Ids) |-> InstanceNodes(id)]

(* What the comment on compact_ended_instances promises: between two       *)
(* events the rows kept for instances, and the instances kept, are fewer   *)
(* than twice the live ones, nothing at all is kept when no instance       *)
(* lives, and the slots, locks and scopes are as long as the table.        *)
RetentionBounded ==
  LET dynamic == {n \in DOMAIN m.t.nodes : m.t.nodes[n].instance # None}
      live == {n \in dynamic : LiveInstance(m.t.nodes[n].instance)}
  IN /\ ~ batch =>
          /\ dynamic # {} => Cardinality(dynamic) < 2 * Cardinality(live)
          /\ m.instances # <<>> =>
               Len(m.instances) < 2 * Cardinality({id \in ToSet(Ids) : LiveInstance(id)})
     /\ Len(m.slots) = Len(m.t.nodes) /\ Len(m.locks) = Len(m.t.nodes)
     /\ Len(m.scopes) = Len(m.t.scopes)

-----------------------------------------------------------------------------
(* Refinement: the same machine by key, for ever.                          *)

KeyAt(n) == IF n \in DOMAIN m.t.nodes THEN m.t.nodes[n].key ELSE NoKey
KeysAt(S) == {KeyAt(n) : n \in S}

InstanceIsOver(i) == i # None /\ ~ LiveInstance(i)

(* Rows of an ended instance show their end and their origin, whether they *)
(* are still in the table or not.                                          *)
RowByKey(k) ==
  LET n == IndexOf(m.t, k)
      i == Origin(k)[2]
      links == Known(k) /\ ~ InstanceIsOver(i)
  IN [decl |-> Origin(k)[1], inst |-> i, order |-> OrderOf(k),
      st |-> StateByKey(k).st, because |-> StateByKey(k).because,
      needs |-> IF links THEN KeysAt(m.t.nodes[n].needs) ELSE {},
      exclusive |-> IF links THEN KeysAt(m.t.nodes[n].exclusive) ELSE {},
      shared |-> IF links THEN KeysAt(m.t.nodes[n].shared) ELSE {},
      behind |-> IF ~ links \/ m.slots[n].behind = None THEN NoKey
                 ELSE IF InstanceIsOver(m.t.nodes[m.slots[n].behind].instance) THEN NoKey
                 ELSE KeyAt(m.slots[n].behind)]

InstanceById(i) ==
  IF i \in DOMAIN m.history.instances
  THEN [parent |-> m.history.instances[i].parent, order |-> m.history.instances[i].order,
        st |-> "Ended"]
  ELSE LET e == m.instances[InstanceAt(i)] IN
       [parent |-> e.parent, order |-> e.order, st |-> m.scopes[e.scope]]

LockByKey(k) ==
  IF ~ Known(k) \/ InstanceIsOver(Origin(k)[2]) THEN [exclusive |-> {}, shared |-> {}]
  ELSE LET l == m.locks[IndexOf(m.t, k)] IN
       [exclusive |-> IF l.exclusive = None THEN {} ELSE {KeyAt(l.exclusive)},
        shared |-> KeysAt(l.shared)]

Rows == [k \in AllKeys |-> RowByKey(k)]
Insts == [i \in DOMAIN m.history.instances \cup {m.instances[x].id : x \in DOMAIN m.instances}
            |-> InstanceById(i)]
Locks == [k \in AllKeys |-> LockByKey(k)]

(* The picture by key is kept in variables of its own, which only follow   *)
(* the machine.                                                            *)
VARIABLES rows, insts, locks

PicturedInit == Init /\ rows = Rows /\ insts = Insts /\ locks = Locks

Redrawn ==
  IF m' = m THEN UNCHANGED <<rows, insts, locks>>
  ELSE rows' = Rows' /\ insts' = Insts' /\ locks' = Locks'

PicturedNext ==
  \/ ~ batch /\ Event /\ Redrawn
  \/ EndInstances /\ Redrawn
  \/ CompactEndedInstances /\ Redrawn

PicturedSpec == PicturedInit /\ [][PicturedNext]_<<vars, rows, insts, locks>>

ByKey == INSTANCE Instances

(* Every event does to the rows it names by key what it would do if no row *)
(* ever moved, and a pass of compaction does nothing, but for freeing the  *)
(* locks a service that is gone still holds.                               *)
ImplementsInstances == ByKey!Spec
=============================================================================
