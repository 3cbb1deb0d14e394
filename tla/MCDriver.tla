------------------------------ MODULE MCDriver ------------------------------
(***************************************************************************)
(* The plans the driver is checked on: two nodes each, so that every order *)
(* of their messages in the mailbox can be looked at.                      *)
(***************************************************************************)
EXTENDS DriverProperties, TLC

Plain(kind) ==
  [kind |-> kind, needs |-> {}, exclusive |-> {}, shared |-> {}, pool |-> {}, attempts |-> 1,
   restarts |-> 0, ambiguity |-> "report", zeroWait |-> TRUE, within |-> FALSE,
   cooperative |-> FALSE, stopWithin |-> FALSE, terminal |-> FALSE, persistent |-> FALSE,
   rank |-> 0]

With(kind, overrides) == overrides @@ Plain(kind)

APlan(nodes, policy, mode) ==
  [decl |-> nodes, limit |-> [p \in Pool |-> 1], policy |-> policy, mode |-> mode,
   bounded |-> TRUE]

(* A resource that is retried, and a thread that may be late and is        *)
(* retried too.                                                            *)
Retried ==
  APlan(<< With("Resource", [attempts |-> 2]),
           With("BlockingStep", [needs |-> {1}, pool |-> Pool, within |-> TRUE,
                                 attempts |-> 2]) >>,
        "FailFast", "Finite")

(* An effect beside a join, under a resource that is told to stop.         *)
Acquiring ==
  APlan(<< With("Resource", [cooperative |-> TRUE, zeroWait |-> FALSE, attempts |-> 2]),
           With("Effect", [needs |-> {1}, ambiguity |-> "recover"]) >>,
        "Isolate", "Finite")

(* A service that is restarted and a join that only passes it on.          *)
Served ==
  APlan(<< With("Service", [restarts |-> 1, stopWithin |-> TRUE]),
           With("Join", [needs |-> {1}]) >>,
        "FailFast", "Resident")

DriverPlans == {Retried, Acquiring, Served}

(* A resource that is up, and one that is still being acquired when the    *)
(* budget of the shutdown expires.                                         *)
LateHold ==
  APlan(<< With("Resource", [attempts |-> 1]),
           With("Resource", [needs |-> {1}]) >>, "FailFast", "Resident")

LateHoldPlans == {LateHold}
=============================================================================
