------------------------------- MODULE Bodies -------------------------------
(***************************************************************************)
(* Where the values of a run live: one slot table for every scope of the   *)
(* static graph and one for every scope of each live instance, the copies  *)
(* of imported values, the publication of exports, and the disposal of     *)
(* what is released by being dropped.  All the operations on tables are    *)
(* called by the driver's loop, one after another; the bodies they build   *)
(* run as tasks and keep the values they were given.  When the engine      *)
(* calls for an operation is reduced to its rules on needs, on dependents  *)
(* and on the end of instances.                                            *)
(***************************************************************************)
EXTENDS Integers, FiniteSets, FiniteSetsExt, Functions

CONSTANTS
  PlanOf,      \* key -> the scope that declares it
  Kind,        \* key -> what it is
  Needs,       \* key -> the keys its body needs
  Source,      \* key -> the key that an import or a bound input names
  Child,       \* key of a component or template -> the scope it mounts
  Export,      \* scope -> the key it exports
  ByDrop,      \* the resources released by being dropped
  Identity,    \* effect -> the key of its operation identity
  Spawns,      \* service -> the templates it spawns
  Roots,       \* the scopes a run may be made from
  Flaky,       \* nodes whose attempts may fail
  MaxAttempts, \* attempts of a node
  MaxInstances \* instances spawned in a run

NoKey == "-"
Key == DOMAIN PlanOf
Scope == DOMAIN Export

Leaf == {k \in Key : Kind[k] \in {"Resource", "Effect", "Step", "Service"}}
Holding == {k \in Key : Kind[k] \in {"Resource", "Effect"}}
Structural == {k \in Key : Kind[k] \in {"Component", "Join"}}
Node == Leaf \cup Structural

Static == 0
Instance == 1..MaxInstances
NoValue == [of |-> NoKey, inst |-> -1, attempt |-> 0]
Value(k, i, a) == [of |-> k, inst |-> i, attempt |-> a]

VARIABLES
  live,     \* instance -> its parent and template; 0 is the static graph, of a root
  slots,    \* live instance -> the value in every slot of its scopes
  st,       \* live instance -> the state of each of its nodes
  attempt,  \* live instance -> the attempts of each node
  given,    \* live instance -> what the running body of a node was given
  stopping, \* instances whose scope stops
  dropped,  \* values whose destructor has run
  spawned   \* instances spawned so far

engine == <<st, attempt, stopping>>
vars == <<live, slots, st, attempt, given, stopping, dropped, spawned>>

-----------------------------------------------------------------------------
(* The layout: the scopes mounted under one another as components, for the *)
(* static graph and for each template.                                     *)

Mounts(p, kind) == {k \in Key : PlanOf[k] = p /\ Kind[k] = kind}

RECURSIVE Collect(_)
Collect(p) == {p} \cup UNION {Collect(Child[k]) : k \in Mounts(p, "Component")}

StaticScopes == [r \in Roots |-> Collect(r)]
TemplateScopes == [t \in {k \in Key : Kind[k] = "Template"} |-> Collect(Child[t])]

Bindings(p) == {k \in Key : PlanOf[k] = p /\ Source[k] # NoKey}

(* What a slot is an alias of: an import of its source, a component of     *)
(* what the child exports.                                                 *)
AliasOf ==
  [k \in Key |->
     IF Source[k] # NoKey THEN Source[k]
     ELSE IF Kind[k] = "Component" THEN Export[Child[k]]
     ELSE NoKey]

RECURSIVE OwnerOf(_)
OwnerOf(k) == IF AliasOf[k] = NoKey THEN k ELSE OwnerOf(AliasOf[k])

OnlyImports ==
  [o \in ByDrop |-> {k \in Key : Source[k] = o}]

(* The slots that may hold a value of a resource released by dropping.     *)
DropAliases ==
  [o \in ByDrop |-> {k \in Key : AliasOf[k] # NoKey /\ OwnerOf(k) = o}]

-----------------------------------------------------------------------------
(* Resolution.                                                             *)

ScopesOf(i) ==
  IF i = Static THEN StaticScopes[live[i].template] ELSE TemplateScopes[live[i].template]
KeysOf(i) == {k \in Key : PlanOf[k] \in ScopesOf(i)}
NodesOf(i) == KeysOf(i) \cap Node
Live == DOMAIN live

NotFound == -1

(* Outwards: the instance's own tables, then its parent's, at last the     *)
(* static graph's.                                                         *)
RECURSIVE Find(_, _)
Find(p, i) ==
  IF i \notin Live THEN NotFound
  ELSE IF p \in ScopesOf(i) THEN i
  ELSE IF i = Static THEN NotFound
  ELSE Find(p, live[i].parent)

FindExact(p, i) == IF i \in Live /\ p \in ScopesOf(i) THEN i ELSE NotFound

KeepFirst(t, k, from, to) ==
  IF from = NotFound \/ t[from][Source[k]] = NoValue \/ t[to][k] # NoValue THEN t
  ELSE [t EXCEPT ![to][k] = t[from][Source[k]]]

(* Every import of scope p, as instance i sees it, is copied down from     *)
(* where it was declared, whose own imports are copied first.  An empty    *)
(* source leaves what is there.                                            *)
CopyDown(t, k, from, to) ==
  IF from = NotFound \/ t[from][Source[k]] = NoValue THEN t
  ELSE [t EXCEPT ![to][k] = t[from][Source[k]]]

RECURSIVE Refresh(_, _, _)
Refresh(t, p, i) ==
  LET Copied(k, u) ==
        LET from == Find(PlanOf[Source[k]], i) IN
        CopyDown(IF from = NotFound THEN u ELSE Refresh(u, PlanOf[Source[k]], from),
                 k, from, i)
  IN  FoldSet(Copied, t, Bindings(p))

-----------------------------------------------------------------------------
(* The engine's rules.                                                     *)

Enclosing(i, p) == Find(p, i)

(* What a need is waiting for: an import is ready with what it names, an   *)
(* input that is not bound is always there.                                *)
RECURSIVE IsReady(_, _)
IsReady(k, i) ==
  IF Source[k] # NoKey
  THEN IsReady(Source[k], Enclosing(i, PlanOf[Source[k]]))
  ELSE IF Kind[k] = "Input" THEN TRUE ELSE st[i][k] = "ready"

(* A node of a component runs once its component may: what the component   *)
(* imports is ready.                                                       *)
MountOf(p) == {k \in Key : Kind[k] = "Component" /\ Child[k] = p}

RECURSIVE ScopeOpen(_, _)
ScopeOpen(p, i) ==
  \A c \in MountOf(p) :
    /\ \A k \in Bindings(p) : IsReady(k, i)
    /\ ScopeOpen(PlanOf[c], i)

CanStart(k, i) ==
  /\ st[i][k] = "waiting" /\ i \notin stopping
  /\ \A m \in Needs[k] : IsReady(m, i)
  /\ ScopeOpen(PlanOf[k], i)

(* The nodes that must be over before k is released: its dependents, those *)
(* of every import of it, and those of the component k is inside of.       *)
RECURSIVE UsersOf(_)
UsersOf(k) ==
  {m \in Leaf : k \in Needs[m]}
    \cup UNION {UsersOf(m) : m \in {m \in Key : Source[m] = k \/ (Kind[m] = "Join" /\ k \in Needs[m])}}
    \cup UNION {UsersOf(c) : c \in MountOf(PlanOf[k])}
    \cup UNION {{m \in Leaf : PlanOf[m] = Child[c]} :
                c \in {c \in Key : Kind[c] = "Component"
                                     /\ \E m \in Bindings(Child[c]) : Source[m] = k}}

Users == [k \in Leaf |-> UsersOf(k)]

IsOver(k, i) ==
  st[i][k] \in {"waiting", "done"} \/ (Kind[k] = "Step" /\ st[i][k] = "ready")

CanRelease(k, i) ==
  \A j \in Live : \A u \in Users[k] \cap KeysOf(j) :
    Enclosing(j, PlanOf[k]) = i => IsOver(u, j)

(* What an instance is stopped with: every instance spawned under it.      *)
RECURSIVE IsUnder(_, _)
IsUnder(j, i) == j = i \/ (j # Static /\ IsUnder(live[j].parent, i))

-----------------------------------------------------------------------------
(* The operations of the body source.                                      *)

(* What a body is given: the values of its needs out of its own scope's    *)
(* table; a slot that is empty means no body.                              *)
Fetch(t, k, i) == [m \in Needs[k] |-> t[i][m]]

(* body(): resolved, refreshed, fetched.                                   *)
Start(i, k) ==
  LET in == Find(PlanOf[k], i)
      t == Refresh(slots, PlanOf[k], in) IN
  /\ k \in Leaf /\ CanStart(k, i)
  /\ slots' = t
  /\ given' = [given EXCEPT ![i][k] = Fetch(t, k, in)]
  /\ st' = [st EXCEPT ![i][k] = "preparing"]
  /\ attempt' = [attempt EXCEPT ![i][k] = @ + 1]
  /\ UNCHANGED <<live, stopping, dropped, spawned>>

Nothing == [m \in {} |-> NoValue]

(* store(): what the body registered, whatever its outcome.                *)
Store(i, k) ==
  LET in == Find(PlanOf[k], i) IN
  [slots EXCEPT ![in][k] = Value(k, i, attempt[i][k])]

(* serve(): an episode is given the published handle.  The first begins    *)
(* with the success of the initializer; the wait before another is left    *)
(* out.                                                                    *)
Serve(t, i, k) ==
  LET in == Find(PlanOf[k], i)
      u == Refresh(t, PlanOf[k], in) IN
  /\ slots' = u
  /\ given' = [given EXCEPT ![i][k] = [m \in {k} |-> u[in][k]]]

Succeed(i, k) ==
  /\ st[i][k] = "preparing"
  /\ st' = [st EXCEPT ![i][k] = "ready"]
  /\ IF Kind[k] = "Service" THEN Serve(Store(i, k), i, k)
     ELSE slots' = Store(i, k) /\ given' = [given EXCEPT ![i][k] = Nothing]
  /\ UNCHANGED <<live, attempt, stopping, dropped, spawned>>

Restart(i, k) ==
  /\ Kind[k] = "Service" /\ st[i][k] = "ready" /\ i \notin stopping
  /\ Serve(slots, i, k)
  /\ UNCHANGED <<live, engine, dropped, spawned>>

(* A failed attempt that registered is released before the next one.       *)
FailHolding(i, k) ==
  /\ st[i][k] = "preparing" /\ k \in Holding \cap Flaky
  /\ slots' = Store(i, k)
  /\ st' = [st EXCEPT ![i][k] = "failed"]
  /\ given' = [given EXCEPT ![i][k] = Nothing]
  /\ UNCHANGED <<live, attempt, stopping, dropped, spawned>>

CanRetry(i, k) == i \notin stopping /\ attempt[i][k] < MaxAttempts

Fail(i, k) ==
  /\ st[i][k] = "preparing" /\ k \in Flaky
  /\ st' = [st EXCEPT ![i][k] =
              IF Kind[k] = "Effect" /\ Identity[k] # NoKey THEN "unknown"
              ELSE IF CanRetry(i, k) THEN "waiting" ELSE "done"]
  /\ given' = [given EXCEPT ![i][k] = Nothing]
  /\ UNCHANGED <<live, slots, attempt, stopping, dropped, spawned>>

(* publish_ready(): the unit value, or what the child exports, resolved in *)
(* this instance exactly.                                                  *)
Exported(i, c) == Export[Child[c]]

Published(i, c) ==
  LET source == Exported(i, c)
      in == FindExact(PlanOf[source], i)
      t == Refresh(slots, PlanOf[source], in) IN
  [t EXCEPT ![i][c] = t[in][source]]

HasExport(c) == Kind[c] = "Component" /\ Export[Child[c]] # NoKey

CanPublish(i, c) ==
  /\ st[i][c] = "waiting" /\ i \notin stopping
  /\ ScopeOpen(PlanOf[c], i)
  /\ IF Kind[c] = "Component"
     THEN /\ \A k \in Bindings(Child[c]) : IsReady(k, i)
          /\ \A k \in Node : PlanOf[k] = Child[c] => st[i][k] = "ready"
     ELSE \A m \in Needs[c] : IsReady(m, i)

Publish(i, c) ==
  /\ c \in Structural /\ CanPublish(i, c)
  /\ slots' = IF HasExport(c) THEN Published(i, c)
              ELSE [slots EXCEPT ![i][c] = Value(c, i, 1)]
  /\ st' = [st EXCEPT ![i][c] = "ready"]
  /\ UNCHANGED <<live, attempt, given, stopping, dropped, spawned>>

(* take_drop_aliases(): the aliases of the static graph, if the owner is   *)
(* in it, and those of the instances that see this copy of the owner.      *)
SeesAny(o, i, j) == TRUE
SeesOwner(o, i, j) == Find(PlanOf[o], j) = i

TakenAliases(o, i) ==
  {<<j, a>> \in (Live \ {Static}) \X DropAliases[o] : a \in KeysOf(j) /\ SeesOwner(o, i, j)}
    \cup {<<Static, a>> : a \in IF i = Static THEN DropAliases[o] \cap KeysOf(Static) ELSE {}}

Emptied(o, i) ==
  [j \in Live |-> [a \in DOMAIN slots[j] |->
     IF <<j, a>> \in TakenAliases(o, i) \cup {<<i, o>>} THEN NoValue ELSE slots[j][a]]]

Releasable(i, k) ==
  \/ st[i][k] = "failed"
  \/ st[i][k] = "unknown"
  \/ st[i][k] = "ready" /\ i \in stopping /\ CanRelease(k, i)

(* cleanup(): the body is built from the table as it is; of a resource     *)
(* released by dropping, every alias moves into the cleanup's task.        *)
Cleanup(i, k) ==
  LET read == IF st[i][k] = "unknown" THEN Identity[k] ELSE k IN
  /\ k \in Holding /\ Releasable(i, k)
  /\ given' = [given EXCEPT ![i][k] = [m \in {read} |-> slots[i][m]]]
  /\ slots' = IF k \in ByDrop THEN Emptied(k, i) ELSE slots
  /\ st' = [st EXCEPT ![i][k] =
              CASE st[i][k] = "ready" -> "releasing"
                [] st[i][k] = "failed" -> "undoing"
                [] OTHER -> "recovering"]
  /\ UNCHANGED <<live, attempt, stopping, dropped, spawned>>

(* The cleanup's task: the destructor runs in its poll.                    *)
Clean(i, k) ==
  /\ st[i][k] \in {"releasing", "undoing", "recovering"}
  /\ dropped' = IF k \in ByDrop THEN dropped \cup {given[i][k][k]} ELSE dropped
  /\ st' = [st EXCEPT ![i][k] =
              IF st[i][k] = "undoing" /\ CanRetry(i, k) THEN "waiting" ELSE "done"]
  /\ given' = [given EXCEPT ![i][k] = Nothing]
  /\ UNCHANGED <<live, slots, attempt, stopping, spawned>>

StopService(i, k) ==
  /\ Kind[k] = "Service" /\ st[i][k] = "ready" /\ i \in stopping /\ CanRelease(k, i)
  /\ st' = [st EXCEPT ![i][k] = "done"]
  /\ given' = [given EXCEPT ![i][k] = Nothing]
  /\ UNCHANGED <<live, slots, attempt, stopping, dropped, spawned>>

(* open_scopes(), with the input of the run or instance: an input that is  *)
(* not bound has its value before any body runs.                           *)
Opened(i, keys) ==
  [k \in keys |->
     IF Kind[k] = "Input" /\ Source[k] = NoKey THEN Value(k, i, 1) ELSE NoValue]

Spawn(i, k, t) ==
  LET j == spawned + 1
      keys == {m \in Key : PlanOf[m] \in TemplateScopes[t]} IN
  /\ Kind[k] = "Service" /\ t \in Spawns[k] /\ i \notin stopping
  /\ st[i][k] \in {"preparing", "ready"}
  /\ spawned < MaxInstances
  /\ spawned' = j
  /\ live' = [l \in Live \cup {j} |->
                IF l = j THEN [parent |-> i, template |-> t] ELSE live[l]]
  /\ slots' = [l \in Live \cup {j} |-> IF l = j THEN Opened(j, keys) ELSE slots[l]]
  /\ st' = [l \in Live \cup {j} |->
              IF l = j THEN [m \in keys \cap Node |-> "waiting"] ELSE st[l]]
  /\ attempt' = [l \in Live \cup {j} |->
                   IF l = j THEN [m \in keys \cap Node |-> 0] ELSE attempt[l]]
  /\ given' = [l \in Live \cup {j} |->
                 IF l = j THEN [m \in keys \cap Node |-> Nothing] ELSE given[l]]
  /\ UNCHANGED <<stopping, dropped>>

Stop(i) ==
  /\ i \notin stopping
  /\ stopping' = stopping \cup {j \in Live : IsUnder(j, i)}
  /\ UNCHANGED <<live, slots, st, attempt, given, dropped, spawned>>

AllOver(i) == \A k \in NodesOf(i) : k \in Leaf => IsOver(k, i)

(* close_instance(), with the end of the instance's scope.                 *)
Close(i) ==
  /\ i # Static /\ i \in stopping /\ AllOver(i)
  /\ \A j \in Live \ {Static} : live[j].parent # i
  /\ live' = Restrict(live, Live \ {i})
  /\ slots' = Restrict(slots, Live \ {i})
  /\ st' = Restrict(st, Live \ {i})
  /\ attempt' = Restrict(attempt, Live \ {i})
  /\ given' = Restrict(given, Live \ {i})
  /\ stopping' = stopping \ {i}
  /\ UNCHANGED <<dropped, spawned>>

Over ==
  /\ Live = {Static} /\ Static \in stopping /\ AllOver(Static)
  /\ UNCHANGED vars

-----------------------------------------------------------------------------
(* build_bodies(): the run's input is in the root's table from the start.  *)
Init ==
  /\ \E root \in Roots : live = [i \in {Static} |-> [parent |-> NotFound, template |-> root]]
  /\ slots = [i \in {Static} |-> Opened(i, KeysOf(i))]
  /\ st = [i \in {Static} |-> [k \in NodesOf(i) |-> "waiting"]]
  /\ attempt = [i \in {Static} |-> [k \in DOMAIN st[i] |-> 0]]
  /\ given = [i \in {Static} |-> [k \in DOMAIN st[i] |-> Nothing]]
  /\ stopping = {} /\ dropped = {} /\ spawned = 0

Step(i, k) ==
  \/ Start(i, k) \/ Succeed(i, k) \/ FailHolding(i, k) \/ Fail(i, k)
  \/ Publish(i, k) \/ Restart(i, k)
  \/ Cleanup(i, k) \/ Clean(i, k) \/ StopService(i, k)
  \/ \E t \in Spawns[k] : Spawn(i, k, t)

Next ==
  \/ \E i \in Live : (\E k \in NodesOf(i) : Step(i, k)) \/ Stop(i) \/ Close(i)
  \/ Over

Spec == Init /\ [][Next]_vars

=============================================================================
