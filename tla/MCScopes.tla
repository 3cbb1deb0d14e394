------------------------------ MODULE MCScopes ------------------------------
(***************************************************************************)
(* The tables the engine over several scopes is checked on.                *)
(***************************************************************************)
EXTENDS ScopesProperties

Row(kind, s) ==
  [kind |-> kind, scope |-> s, needs |-> {}, exclusive |-> {}, pooled |-> FALSE, attempts |-> 1,
   restarts |-> 0, zeroWait |-> TRUE, terminal |-> FALSE, stopWithin |-> FALSE, inner |-> 0,
   spawns |-> 0]

With(kind, s, overrides) == overrides @@ Row(kind, s)

AScope(parent, overrides) ==
  overrides @@ [policy |-> "FailFast", mode |-> "Resident", bounded |-> TRUE, parent |-> parent,
                component |-> 0, template |-> 0, export |-> 0, limit |-> 1]

(* A component whose two nodes lock the resource of the parent, beside a   *)
(* step that wants it too and one that uses the component.                 *)
Mounted(inner, outer, export) ==
  [node |-> << With("Resource", 1, [attempts |-> 1]),
               With("Component", 1, [needs |-> {1}, inner |-> 2]),
               With("Resource", 2, [needs |-> {1}, exclusive |-> {1}, attempts |-> 2]),
               With("Step", 2, [needs |-> {1, 3}, exclusive |-> {1}, pooled |-> TRUE]),
               With("Step", 1, [needs |-> {1}, exclusive |-> {1}, attempts |-> 2,
                                zeroWait |-> FALSE]),
               With("Step", 1, [needs |-> {2}]) >>,
   scope |-> << AScope(0, [policy |-> outer, mode |-> "Finite"]),
                AScope(1, [policy |-> inner, component |-> 2, export |-> export]) >>]

MountedTrees ==
  {Mounted("Isolate", "FailFast", 0), Mounted("FailFast", "Isolate", 0),
   Mounted("Isolate", "Isolate", 3)}

(* A template that imports a resource, a service that spawns two instances *)
(* of it, and a step; the instances and the step lock the resource.        *)
Spawning(policy) ==
  [node |-> << With("Resource", 1, [attempts |-> 1]),
               With("Template", 1, [needs |-> {1}]),
               With("Service", 1, [needs |-> {1}, spawns |-> 2, stopWithin |-> TRUE]),
               With("Step", 2, [needs |-> {1}, exclusive |-> {1}]),
               With("Step", 3, [needs |-> {1}, exclusive |-> {1}]),
               With("Step", 1, [needs |-> {1}, exclusive |-> {1}]) >>,
   scope |-> << AScope(0, [policy |-> policy]),
                AScope(1, [template |-> 2]), AScope(1, [template |-> 2]) >>]

(* An instance that mounts a component; the step competes with its node.   *)
Nested(policy) ==
  [node |-> << With("Resource", 1, [attempts |-> 1]),
               With("Template", 1, [needs |-> {1}]),
               With("Service", 1, [needs |-> {1}, spawns |-> 2, stopWithin |-> TRUE]),
               With("Component", 2, [needs |-> {1}, inner |-> 3]),
               With("Resource", 3, [needs |-> {1}, exclusive |-> {1}, attempts |-> 2]),
               With("Step", 1, [needs |-> {1}, exclusive |-> {1}]) >>,
   scope |-> << AScope(0, [policy |-> policy]),
                AScope(1, [template |-> 2]), AScope(2, [component |-> 4]) >>]

SpawningTrees == {Spawning("FailFast"), Nested("Isolate")}

(* A component whose service locks a resource of the parent and is stopped *)
(* by a fault in its scope, while a step of the parent waits for the lock. *)
DeadHolder ==
  [node |-> << With("Resource", 1, [attempts |-> 1]),
               With("Component", 1, [needs |-> {1}, inner |-> 2]),
               With("Service", 2, [needs |-> {1}, exclusive |-> {1}]),
               With("Step", 2, [needs |-> {3}]),
               With("Step", 1, [needs |-> {1}, exclusive |-> {1}]) >>,
   scope |-> << AScope(0, [policy |-> "Isolate"]), AScope(1, [component |-> 2]) >>]

(* A component that fails after it was ready, under a dependent that is    *)
(* between two attempts.                                                   *)
LateFault ==
  [node |-> << With("Component", 1, [inner |-> 2]),
               With("Service", 2, [stopWithin |-> TRUE]),
               With("Step", 1, [needs |-> {1}, attempts |-> 2, zeroWait |-> FALSE]) >>,
   scope |-> << AScope(0, [policy |-> "Isolate"]), AScope(1, [component |-> 1]) >>]

(* A finite run mounts a component that settles by itself: its terminal    *)
(* service may finish before the rest of the inner scope is up.            *)
EarlyTerminal ==
  [node |-> << With("Component", 1, [inner |-> 2]),
               With("Service", 2, [terminal |-> TRUE, stopWithin |-> TRUE]),
               With("Step", 2, [attempts |-> 1]),
               With("Step", 1, [needs |-> {1}]) >>,
   scope |-> << AScope(0, [mode |-> "Finite"]), AScope(1, [component |-> 1]) >>]

(* A component inside a component: a retried step in the inner one, which  *)
(* stands below a resource of the middle plan, a step beside it, and a row *)
(* of the root behind both.                                                *)
TwoLevels(middle, innermost) ==
  [node |-> << With("Component", 1, [inner |-> 2]),
               With("Resource", 2, [attempts |-> 2]),
               With("Component", 2, [needs |-> {2}, inner |-> 3]),
               With("Step", 3, [needs |-> {2}, exclusive |-> {2}, attempts |-> 2,
                                zeroWait |-> FALSE]),
               With("Step", 2, [needs |-> {2}, exclusive |-> {2}]),
               With("Step", 1, [needs |-> {1}]) >>,
   scope |-> << AScope(0, [mode |-> "Finite"]),
                AScope(1, [component |-> 1, policy |-> middle]),
                AScope(2, [component |-> 3, policy |-> innermost]) >>]

TwoLevelTrees ==
  {TwoLevels("Isolate", "FailFast"), TwoLevels("FailFast", "Isolate"),
   TwoLevels("Isolate", "Isolate")}

InnerPolicyTrees == {TwoLevels("Isolate", "FailFast")}

RunTrees == MountedTrees \cup SpawningTrees \cup TwoLevelTrees

DeadHolderTrees == {DeadHolder}
LateFaultTrees == {LateFault}
EarlyTerminalTrees == {EarlyTerminal}
=============================================================================
