----------------------------- MODULE Compaction -----------------------------
(***************************************************************************)
(* The table of a run that spawns instances, and the pass that takes the   *)
(* rows of ended ones out of it.  Everything in the engine names a row by  *)
(* its position; Table::instantiate appends and compact_ended_instances    *)
(* moves, so one pass rewrites every position in the table, the slots, the *)
(* locks, the instances and the timers.  What a row does is only what can  *)
(* be told from its names: it starts, is refused, ends, is abandoned.      *)
(***************************************************************************)
EXTENDS Naturals, FiniteSets, Sequences, SequencesExt, FiniteSetsExt, Functions

CONSTANTS
  Plans,   \* plan name -> its declarations, in order
  Main,    \* the plan of the run
  Ids      \* the identities the host gives to instances, in the order it spawns them

(* A position that is not there, an identity that is not there, no key.    *)
None == 0
NoKey == <<0, 0>>

At(d) == Plans[d[1]][d[2]]

VARIABLES
  m,       \* the machine
  batch    \* the effects of the last event are being performed

vars == <<m, batch>>

-----------------------------------------------------------------------------
(* Table: flatten, link, instantiate.                                      *)

(* The last entry wins.                                                    *)
Lookup(map, d) ==
  IF \E i \in DOMAIN map : map[i][1] = d THEN map[SelectLastInSeq(map, LAMBDA e : e[1] = d)][2]
  ELSE None

IndexOf(t, k) ==
  IF k[1] \in DOMAIN t.index /\ k[2] \in DOMAIN t.index[k[1]] THEN t.index[k[1]][k[2]] ELSE None

Resolve(map, decls) == {Lookup(map, d) : d \in decls} \ {None}

RowOf(t, d, key, id, scope, map) ==
  [key |-> key, decl |-> d, path |-> d, instance |-> id, order |-> t.order, scope |-> scope, inner |-> None,
   needs |-> Resolve(map, At(d).needs), dependents |-> {},
   exclusive |-> Resolve(map, At(d).exclusive), shared |-> Resolve(map, At(d).shared)]

(* The pass carries the table, the map of names and the rows it added.     *)
RECURSIVE Flatten(_, _, _, _, _)
Flatten(pass, p, parent, component, id) ==
  LET scope == Len(pass.t.scopes) + 1
      plan == pass.t.minted + 1
      opened ==
        [pass EXCEPT
           !.t.minted = plan,
           !.t.index = [x \in DOMAIN @ \cup {plan} |->
                          IF x = plan THEN [i \in DOMAIN Plans[p] |-> None] ELSE @[x]],
           !.t.scopes = Append(@, [parent |-> parent, component |-> component,
                                   instance |-> None, template |-> None,
                                   nodes |-> <<>>, map |-> <<>>])]
      declare(a, i) ==
        LET d == <<p, i>>
            x == Len(a.t.nodes) + 1
            row == [a EXCEPT
                      !.t.nodes = Append(@, RowOf(a.t, d, <<plan, i>>, id, scope, a.map)),
                      !.t.order = @ + 1,
                      !.t.index[plan][i] = x,
                      !.t.scopes[scope].nodes = Append(@, x),
                      !.added = Append(@, x),
                      !.map = Append(@, <<d, x>>)]
        IN CASE At(d).kind = "Import" ->
                  [a EXCEPT !.map = Append(@, <<d, Lookup(a.map, At(d).source)>>)]
             [] At(d).kind = "Component" ->
                  Flatten([row EXCEPT !.t.nodes[x].inner = Len(row.t.scopes) + 1],
                          At(d).child, scope, x, id)
             [] OTHER -> row
  IN FoldLeft(declare, opened, [i \in DOMAIN Plans[p] |-> i])

Link(t, added) ==
  [t EXCEPT !.nodes = [x \in DOMAIN @ |->
     [@[x] EXCEPT !.dependents = @ \cup {i \in added : x \in t.nodes[i].needs}]]]

(* The names a template in a scope resolves: the nearest instance's.       *)
RECURSIVE MapOf(_, _)
MapOf(t, s) ==
  CASE t.scopes[s].map # <<>> -> t.scopes[s].map
    [] t.scopes[s].map = <<>> /\ t.scopes[s].parent # None -> MapOf(t, t.scopes[s].parent)
    [] OTHER -> t.map

Instantiate(t, x, id) ==
  LET scope == Len(t.scopes) + 1
      r == Flatten([t |-> t, map |-> MapOf(t, t.nodes[x].scope), added |-> <<>>],
                   At(t.nodes[x].decl).child, t.nodes[x].scope, None, id)
  IN Link([r.t EXCEPT !.scopes[scope].instance = id, !.scopes[scope].template = x,
                      !.scopes[scope].map = r.map], ToSet(r.added))

Built ==
  LET empty == [nodes |-> <<>>, scopes |-> <<>>, map |-> <<>>, index |-> <<>>, order |-> 1,
                minted |-> 0]
      r == Flatten([t |-> empty, map |-> <<>>, added |-> <<>>], Main, None, None, None)
  IN Link([r.t EXCEPT !.map = r.map], ToSet(r.added))

(* Slots, locks and scope bookkeeping for what the table just grew by.     *)
NewSlot == [st |-> "Pending", timer |-> NoKey, behind |-> None, because |-> NoKey]
NewLock == [exclusive |-> None, shared |-> {}]

Grow(v, n, new) == [x \in 1 .. n |-> IF x \in DOMAIN v THEN v[x] ELSE new]

GrowTo(x) ==
  [x EXCEPT !.slots = Grow(@, Len(x.t.nodes), NewSlot),
            !.locks = Grow(@, Len(x.t.nodes), NewLock),
            !.scopes = Grow(@, Len(x.t.scopes), "Admitting")]

Init ==
  /\ m = LET empty == [t |-> Built, slots |-> <<>>, locks |-> <<>>, scopes |-> <<>>,
                       instances |-> <<>>, timers |-> <<>>,
                       history |-> [nodes |-> <<>>, instances |-> <<>>],
                       nextOrder |-> 0, pending |-> FALSE, retiredNodes |-> 0,
                       retiredInstances |-> 0, staticNodes |-> Len(Built.nodes)]
         IN GrowTo(empty)
  /\ batch = FALSE

-----------------------------------------------------------------------------
(* Events.  They name rows by key, instances by id and timers by theirs,   *)
(* and one that names nothing the machine has is rejected.                 *)

Slot(k) == m.slots[IndexOf(m.t, k)]
Known(k) == IndexOf(m.t, k) # None
IsService(n) == At(m.t.nodes[n].decl).kind = "Service"
HasBody(n) == At(m.t.nodes[n].decl).kind \in {"Resource", "Service"}
LiveInstance(i) == \E x \in DOMAIN m.instances : m.instances[x].id = i /\ ~ m.instances[x].ended
InstanceAt(i) == CHOOSE x \in DOMAIN m.instances : m.instances[x].id = i
ScopeAt(i) == m.instances[InstanceAt(i)].scope

Handled(x) == m' = x /\ batch' = TRUE

GrantsAvailable(n) ==
  /\ \A r \in m.t.nodes[n].exclusive : m.locks[r] = NewLock
  /\ \A r \in m.t.nodes[n].shared : m.locks[r].exclusive = None

TakeGrants(x, n) ==
  [x EXCEPT !.locks = [r \in DOMAIN @ |->
     [exclusive |-> IF r \in x.t.nodes[n].exclusive THEN n ELSE @[r].exclusive,
      shared |-> @[r].shared \cup (IF r \in x.t.nodes[n].shared THEN {n} ELSE {})]]]

ReleaseGrants(x, n) ==
  [x EXCEPT !.locks = [r \in DOMAIN @ |->
     [exclusive |-> IF @[r].exclusive = n THEN None ELSE @[r].exclusive,
      shared |-> @[r].shared \ {n}]]]

DropTimer(x, id) == [x EXCEPT !.timers = SelectSeq(@, LAMBDA t : t.id # id)]

(* The timer of a row is named after it; the budget of an instance, after  *)
(* the instance.                                                           *)
BudgetOf(i) == <<0, i>>

(* A scope that settles takes those inside it along.                       *)
RECURSIVE Admits(_)
Admits(s) ==
  IF s = None THEN TRUE ELSE m.scopes[s] = "Admitting" /\ Admits(m.t.scopes[s].parent)

Start(n) ==
  /\ m.slots[n].st = "Pending" /\ HasBody(n) /\ Admits(m.t.nodes[n].scope)
  /\ \A d \in m.t.nodes[n].needs : m.slots[d].st = "Up"
  /\ GrantsAvailable(n)
  /\ LET k == m.t.nodes[n].key
         a == [TakeGrants(m, n) EXCEPT !.slots[n].st = "Up", !.slots[n].behind = None]
     IN Handled(IF IsService(n) THEN a
                ELSE [a EXCEPT !.slots[n].timer = k,
                               !.timers = Append(@, [id |-> k, purpose |-> "Within", at |-> n])])

Wants(n) == m.t.nodes[n].exclusive \cup m.t.nodes[n].shared

(* An earlier waiter, of any scope, wants what this one wants and was not  *)
(* granted it.                                                             *)
Refuse(n, w) ==
  /\ n # w /\ m.slots[n].behind # w
  /\ m.slots[n].st = "Pending" /\ m.slots[w].st = "Pending" /\ HasBody(n) /\ HasBody(w)
  /\ Wants(n) \cap Wants(w) # {} /\ ~ GrantsAvailable(w)
  /\ Admits(m.t.nodes[n].scope) /\ Admits(m.t.nodes[w].scope)
  /\ \A d \in m.t.nodes[n].needs \cup m.t.nodes[w].needs : m.slots[d].st = "Up"
  /\ Handled([m EXCEPT !.slots[n].behind = w])

(* The gate of a release: no dependent is still to come or still up.  A    *)
(* service that is told to stop does not return its grants (ServiceStops   *)
(* of module Scopes).                                                      *)
GateOpen(n) == \A d \in m.t.nodes[n].dependents : m.slots[d].st \in {"Done", "Skipped"}

NodeOk(k) ==
  /\ Known(k) /\ Slot(k).st = "Up" /\ GateOpen(IndexOf(m.t, k))
  /\ LET n == IndexOf(m.t, k)
         a == DropTimer([m EXCEPT !.slots[n].st = "Done", !.slots[n].timer = NoKey], k)
         stopping == IsService(n) /\ m.scopes[m.t.nodes[n].scope] = "Settling"
     IN Handled(IF stopping THEN a ELSE ReleaseGrants(a, n))

InstanceSpawned(k, d, id) ==
  /\ m.nextOrder < Len(Ids) /\ id = Ids[m.nextOrder + 1]
  /\ Known(k) /\ Slot(k).st = "Up"
  /\ \A x \in DOMAIN m.instances : m.instances[x].id # id
  /\ id \notin DOMAIN m.history.instances
  /\ LET sp == IndexOf(m.t, k)
         t == Lookup(MapOf(m.t, m.t.nodes[sp].scope), d)
         scope == Len(m.t.scopes) + 1
         table == Instantiate(m.t, t, id)
         a == GrowTo([m EXCEPT !.t = table])
     IN /\ d \in At(m.t.nodes[sp].decl).spawns /\ t # None
        /\ Admits(m.t.nodes[sp].scope)
        /\ Handled([a EXCEPT
             !.nextOrder = @ + 1,
             !.instances = Append(@,
               [id |-> id, order |-> m.nextOrder, rows |-> Len(table.nodes) - Len(m.t.nodes),
                template |-> t, scope |-> scope, parent |-> m.t.nodes[sp].instance,
                ended |-> FALSE])])

(* One that is known to have ended is left alone.                          *)
StopInstance(id) ==
  /\ LiveInstance(id) /\ m.scopes[ScopeAt(id)] = "Admitting"
  /\ Handled([m EXCEPT
       !.scopes[ScopeAt(id)] = "Settling",
       !.timers = Append(@, [id |-> BudgetOf(id), purpose |-> "Budget", at |-> ScopeAt(id)])])

AbandonRow(x, n) ==
  IF x.slots[n].st # "Up" THEN x
  ELSE ReleaseGrants(
         DropTimer([x EXCEPT !.slots[n].st = "Done", !.slots[n].timer = NoKey],
                   x.slots[n].timer), n)

(* The rows of a scope, and those of the components in it.                 *)
RECURSIVE AbandonAll(_, _)
AbandonAll(x, s) ==
  FoldLeft(LAMBDA a, n : IF a.t.nodes[n].inner = None THEN AbandonRow(a, n)
                         ELSE AbandonAll(a, a.t.nodes[n].inner),
           x, x.t.scopes[s].nodes)

OnTimer(id) ==
  \E e \in ToSet(m.timers) :
    /\ e.id = id
    /\ LET a == DropTimer(m, id) IN
       CASE e.purpose = "Budget" -> Handled(AbandonAll(a, e.at))
         [] e.purpose = "Within" -> /\ GateOpen(e.at)
                                    /\ Handled(AbandonRow(m, e.at))

(* Rows of an instance, those of its components included.                  *)
Belongs(id) == {n \in DOMAIN m.t.nodes : m.t.nodes[n].instance = id}

CanEnd(id, others) ==
  /\ LiveInstance(id) /\ m.scopes[ScopeAt(id)] = "Settling"
  /\ \A n \in Belongs(id) : m.slots[n].st # "Up"
  /\ \A x \in DOMAIN m.instances :
       m.instances[x].parent = id => m.instances[x].ended \/ m.instances[x].id \in others

(* end_instance; what never started is skipped, naming the row that did it.*)
EndInstance(x, id, because) ==
  LET at == InstanceAt(id) IN
  [DropTimer(x, BudgetOf(id)) EXCEPT
     !.slots = [n \in DOMAIN @ |->
        IF n \in Belongs(id) /\ @[n].st = "Pending"
        THEN [@[n] EXCEPT !.st = "Skipped", !.because = because] ELSE @[n]],
     !.scopes[m.instances[at].scope] = "Ended",
     !.instances[at].ended = TRUE,
     !.pending = TRUE,
     !.retiredNodes = @ + m.instances[at].rows,
     !.retiredInstances = @ + 1]

(* The event that took the last row of an instance ends it, and all that   *)
(* waited for that.                                                        *)
Endable == UNION {S \in SUBSET ToSet(Ids) : \A id \in S : CanEnd(id, S)}

(* What never started names a row that did, if there is one.               *)
CauseIn(S) ==
  LET done == {n \in UNION {Belongs(id) : id \in S} : m.slots[n].st = "Done"} IN
  IF done = {} THEN NoKey ELSE m.t.nodes[Min(done)].key

EndInstances ==
  /\ batch /\ Endable # {}
  /\ LET cause == CauseIn(Endable) IN
     Handled(FoldLeft(LAMBDA x, id : EndInstance(x, id, cause), m, SetToSeq(Endable)))

-----------------------------------------------------------------------------
(* Compaction.                                                             *)

(* The new positions of the rows that are kept.                            *)
Mapping(keep) ==
  [i \in DOMAIN keep |-> IF keep[i] THEN Cardinality({j \in 1 .. i : keep[j]}) ELSE None]

RetainRows(v, map) ==
  LET kept == {i \in DOMAIN v : map[i] # None} IN
  [j \in 1 .. Cardinality(kept) |-> v[CHOOSE i \in kept : map[i] = j]]

Remap(i, map) == IF i = None THEN None ELSE map[i]
RemapNone(i, map) == IF i = None THEN None ELSE map[i]
RemapSet(S, map) == {map[i] : i \in S} \ {None}
RemapNames(names, map) ==
  LET moved == [i \in DOMAIN names |-> <<names[i][1], Remap(names[i][2], map)>>]
  IN SelectSeq(moved, LAMBDA e : e[2] # None)

EndedIds(x) == {x.instances[i].id : i \in {j \in DOMAIN x.instances : x.instances[j].ended}}

KeepNodes(x) == [n \in DOMAIN x.t.nodes |-> x.t.nodes[n].instance \notin EndedIds(x)]

(* An instance's own scope goes with it, that of a component with its      *)
(* parent, and parents come first.                                         *)
KeepScopes(x) ==
  LET keep[s \in DOMAIN x.t.scopes] ==
        IF x.t.scopes[s].instance # None THEN x.t.scopes[s].instance \notin EndedIds(x)
        ELSE x.t.scopes[s].parent = None \/ keep[x.t.scopes[s].parent]
  IN keep

(* Table::compact.                                                         *)
CompactTable(t, nodes, scopes) ==
  LET node(r) == [r EXCEPT !.scope = Remap(@, scopes), !.inner = Remap(@, scopes),
                           !.needs = RemapSet(@, nodes), !.exclusive = RemapSet(@, nodes),
                           !.shared = RemapSet(@, nodes), !.dependents = RemapSet(@, nodes)]
      scope(s) == [s EXCEPT !.nodes = [i \in DOMAIN @ |-> Remap(@[i], nodes)],
                            !.parent = Remap(@, scopes), !.component = Remap(@, nodes),
                            !.template = Remap(@, nodes), !.map = RemapNames(@, nodes)]
      rows == RetainRows(t.nodes, nodes)
      kept == RetainRows(t.scopes, scopes)
      index == [p \in DOMAIN t.index |-> [i \in DOMAIN t.index[p] |-> Remap(t.index[p][i], nodes)]]
  IN [t EXCEPT !.nodes = [n \in DOMAIN rows |-> node(rows[n])],
               !.scopes = [s \in DOMAIN kept |-> scope(kept[s])],
               !.map = RemapNames(@, nodes),
               !.index = Restrict(index,
                           {p \in DOMAIN index : \E i \in DOMAIN index[p] : index[p][i] # None})]

(* History: the public state of a row that goes, with the path of the row  *)
(* it names as its cause.                                                  *)
PathOf(x, k) ==
  CASE IndexOf(x.t, k) # None -> x.t.nodes[IndexOf(x.t, k)].path
    [] k \in DOMAIN x.history.nodes -> x.history.nodes[k].path
    [] OTHER -> NoKey

StateOf(x, n) == [st |-> x.slots[n].st, because |-> PathOf(x, x.slots[n].because)]

(* The path of a row moves to its record.                                  *)
ArchiveRow(x, n, state) ==
  LET r == x.t.nodes[n]
      record == [decl |-> r.decl, path |-> r.path, instance |-> r.instance, order |-> r.order,
                 state |-> state]
  IN [x EXCEPT !.t.nodes[n].path = NoKey,
               !.history.nodes = [k \in DOMAIN @ \cup {r.key} |->
                                    IF k = r.key THEN record ELSE @[k]]]

(* Every state is read before any path moves.                              *)
ArchiveNodes(x, going) == FoldLeft(LAMBDA a, n : ArchiveRow(a, n, StateOf(x, n)), x, going)

ArchiveInstances(x) ==
  LET record(i) == LET e == x.instances[CHOOSE j \in DOMAIN x.instances : x.instances[j].id = i]
                   IN [parent |-> e.parent, order |-> e.order,
                       nodes |-> {x.t.nodes[n].key : n \in {y \in DOMAIN x.t.nodes :
                                                              x.t.nodes[y].instance = i}}]
      gone == EndedIds(x)
  IN [x EXCEPT
        !.instances = SelectSeq(@, LAMBDA e : ~ e.ended),
        !.history.instances = [i \in DOMAIN @ \cup gone |->
                                 IF i \in gone THEN record(i) ELSE @[i]]]

(* MUTANT of RemapLocks: who holds a lock is left as it was.               *)
LocksStay(locks, map) == locks

RemapLocks(locks, map) ==
  [r \in DOMAIN locks |-> [exclusive |-> RemapNone(locks[r].exclusive, map),
                           shared |-> RemapSet(locks[r].shared, map)]]

RemapTimers(timers, nodes, scopes) ==
  LET moved == [i \in DOMAIN timers |->
        [timers[i] EXCEPT !.at = Remap(@, IF timers[i].purpose = "Budget" THEN scopes ELSE nodes)]]
  IN SelectSeq(moved, LAMBDA e : e.at # None)

Reclaimed(x) ==
  LET nodes  == Mapping(KeepNodes(x))
      scopes == Mapping(KeepScopes(x))
      going  == SelectSeq([n \in DOMAIN nodes |-> n], LAMBDA n : nodes[n] = None)
      a == ArchiveInstances(ArchiveNodes(x, going))
      moved == [i \in DOMAIN a.instances |->
                  [a.instances[i] EXCEPT !.template = Remap(@, nodes), !.scope = Remap(@, scopes)]]
      slots == [n \in DOMAIN a.slots |-> [a.slots[n] EXCEPT !.behind = RemapNone(@, nodes)]]
  IN [a EXCEPT
        !.retiredNodes = 0, !.retiredInstances = 0, !.pending = FALSE,
        !.instances = moved,
        !.slots = RetainRows(slots, nodes),
        !.locks = RetainRows(RemapLocks(a.locks, nodes), nodes),
        !.scopes = RetainRows(a.scopes, scopes),
        !.timers = RemapTimers(a.timers, nodes, scopes),
        !.t = CompactTable(a.t, nodes, scopes)]

(* MUTANT of TooFew: one count that is still small is enough to wait.      *)
EitherIsSmall(x) ==
  LET dynamic == Len(x.t.nodes) - x.staticNodes IN
  \/ x.retiredNodes < dynamic - x.retiredNodes
  \/ x.retiredInstances < Len(x.instances) - x.retiredInstances

(* Fewer than half of the rows, and of the instances, would go.            *)
TooFew(x) ==
  LET dynamic == Len(x.t.nodes) - x.staticNodes IN
  /\ x.retiredNodes < dynamic - x.retiredNodes
  /\ x.retiredInstances < Len(x.instances) - x.retiredInstances

(* Once the host has performed the effects of an event.                    *)
CompactEndedInstances ==
  /\ batch /\ Endable = {}
  /\ m' = IF ~ m.pending \/ TooFew(m) THEN m ELSE Reclaimed(m)
  /\ batch' = FALSE

-----------------------------------------------------------------------------
Keys == {<<p, i>> : p \in 1 .. m.t.minted, i \in 1 .. 5}

Event ==
  \/ \E n \in DOMAIN m.t.nodes : Start(n) \/ \E w \in DOMAIN m.t.nodes : Refuse(n, w)
  \/ \E k \in Keys : NodeOk(k)
  \/ \E k \in Keys, id \in ToSet(Ids) :
       \E d \in IF Known(k) THEN At(m.t.nodes[IndexOf(m.t, k)].decl).spawns ELSE {} :
          InstanceSpawned(k, d, id)
  \/ \E id \in ToSet(Ids) : StopInstance(id) \/ OnTimer(BudgetOf(id))
  \/ \E k \in Keys : OnTimer(k)

Next == (~ batch /\ Event) \/ EndInstances \/ CompactEndedInstances

Spec == Init /\ [][Next]_vars
=============================================================================
