------------------------------ MODULE MCMachine ------------------------------
(***************************************************************************)
(* The plans the engine is checked on.  Every plan is small, and together  *)
(* they put each kind of node, each policy of a node and each way a scope  *)
(* stops next to the others it interacts with.                             *)
(***************************************************************************)
EXTENDS MachineProperties, TLC

Plain(kind) ==
  [kind |-> kind, needs |-> {}, exclusive |-> {}, shared |-> {}, pool |-> {}, attempts |-> 1,
   restarts |-> 0, ambiguity |-> "report", zeroWait |-> TRUE, within |-> FALSE,
   cooperative |-> FALSE, stopWithin |-> FALSE, terminal |-> FALSE, persistent |-> FALSE,
   rank |-> 0]

With(kind, overrides) == overrides @@ Plain(kind)

APlan(nodes, policy, mode, bounded) ==
  [decl |-> nodes, limit |-> [p \in Pool |-> 1], policy |-> policy, mode |-> mode,
   bounded |-> bounded]

(* A resource that is retried, an effect that uses it, a thread under a    *)
(* deadline, a join of both and a step behind the join.  An effect that    *)
(* only reports an unknown outcome is persistent here, one that may be     *)
(* done again is not, and one that is recovered is either.                 *)
Transfer(ambiguity, persistent) ==
  << With("Resource", [attempts |-> 2]),
     With("Effect", [needs |-> {1}, shared |-> {1}, attempts |-> 2, ambiguity |-> ambiguity,
                     persistent |-> persistent, within |-> TRUE,
                     zeroWait |-> FALSE]),
     With("BlockingStep", [needs |-> {1}, exclusive |-> {1}, pool |-> Pool, within |-> TRUE,
                           attempts |-> 2]),
     With("Join", [needs |-> {2, 3}]),
     With("Step", [needs |-> {4}]) >>

FinitePlans ==
  {APlan(Transfer(a[1], a[2]), f, "Finite", TRUE) :
     a \in {<<"report", TRUE>>, <<"recover", TRUE>>, <<"recover", FALSE>>, <<"retry", FALSE>>},
     f \in {"FailFast", "Isolate"}}

(* A service that restarts and locks a resource, a step that wants the same *)
(* resource, a step that uses the service and a join of both steps.        *)
Serving(terminal) ==
  << With("Resource", [rank |-> 1, attempts |-> 2]),
     With("Service", [needs |-> {1}, exclusive |-> {1}, restarts |-> 1, terminal |-> terminal,
                      zeroWait |-> FALSE, stopWithin |-> terminal, within |-> TRUE]),
     With("Step", [needs |-> {1}, exclusive |-> {1}, pool |-> Pool, cooperative |-> TRUE,
                   attempts |-> 2]),
     With("Step", [needs |-> {2}, pool |-> Pool, attempts |-> 2, zeroWait |-> FALSE,
                   within |-> TRUE]),
     With("Join", [needs |-> {3, 4}]) >>

ResidentPlans ==
  {APlan(Serving(t), f, "Resident", TRUE) : t \in BOOLEAN, f \in {"FailFast", "Isolate"}}

(* Readers and writers of one resource, and two slots for three takers,    *)
(* one of them a thread that outlives its deadline.                        *)
Contention ==
  << With("Resource", [rank |-> 1]),
     With("Step", [needs |-> {1}, shared |-> {1}, pool |-> Pool, attempts |-> 2]),
     With("Step", [needs |-> {1}, exclusive |-> {1}, attempts |-> 2, zeroWait |-> FALSE,
                   rank |-> 1]),
     With("Effect", [needs |-> {1}, shared |-> {1}, pool |-> Pool, ambiguity |-> "retry",
                     attempts |-> 2, within |-> TRUE]),
     With("BlockingStep", [needs |-> {1}, pool |-> Pool, attempts |-> 2, within |-> TRUE]) >>

ContentionPlans ==
  {[APlan(Contention, f, "Finite", FALSE) EXCEPT !.limit = [p \in Pool |-> 2]] :
     f \in {"FailFast", "Isolate"}}

EnginePlans == FinitePlans \cup ResidentPlans \cup ContentionPlans

(* An idempotent effect that may be done again after a timeout.            *)
AmbiguityPlans ==
  {APlan(<<With("Effect", [ambiguity |-> "retry", attempts |-> 2, within |-> TRUE])>>,
         "FailFast", "Finite", TRUE)}

(* A service that may be restarted, and a step that uses it and is retried. *)
RestartPlans ==
  {APlan(<<With("Service", [restarts |-> 1, zeroWait |-> FALSE]),
           With("Step", [needs |-> {1}, attempts |-> 2])>>,
         "Isolate", "Resident", TRUE)}
=============================================================================
