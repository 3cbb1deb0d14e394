-------------------------------- MODULE Plan --------------------------------
(***************************************************************************)
(* What a built plan declares about one scope, as the engine reads it from *)
(* Table: the run nodes in declaration order, each with its kind, needs,   *)
(* locks, pool and per-node policies, and the scope's fail policy, mode    *)
(* and shutdown budget.  Durations are abstracted to their presence: a     *)
(* timer that is armed may fire at any later moment.                       *)
(***************************************************************************)
EXTENDS Naturals, FiniteSets

CONSTANTS
  N,        \* number of run nodes; a node is its declaration index
  Pool,     \* the concurrency budgets of the scope
  Plans     \* the plans a run may be started from

ASSUME NAssumption == N \in Nat

Node == 1 .. N

Kinds == {"Resource", "Step", "BlockingStep", "Service", "Effect", "Join"}

NodeDecl ==
  [kind       : Kinds,
   needs      : SUBSET Node,
   exclusive  : SUBSET Node,      \* resources locked exclusively ...
   shared     : SUBSET Node,      \* ... and shared
   pool       : SUBSET Pool,      \* {} or the one pool the node takes a slot of
   attempts   : Nat \ {0},        \* retry: total attempts, 1 without retry
   restarts   : Nat,              \* restart limit of a service, 0 without restart
   ambiguity  : {"report", "recover", "retry"},
   zeroWait   : BOOLEAN,          \* the backoff between attempts is zero
   within     : BOOLEAN,          \* the body has a deadline
   cooperative: BOOLEAN,          \* cancel mode: signal and grace, else drop
   stopWithin : BOOLEAN,
   terminal   : BOOLEAN,
   persistent : BOOLEAN,          \* an effect without compensation
   rank       : Nat]              \* schedule preference

PlanType ==
  [decl    : [Node -> NodeDecl],
   limit   : [Pool -> Nat \ {0}],
   policy  : {"FailFast", "Isolate"},
   mode    : {"Finite", "Resident"},
   bounded : BOOLEAN]             \* Shutdown::within, else unbounded

(***************************************************************************)
(* What the typed builder and PlanBuilder::build refuse.  A key exists     *)
(* only after its terminal, so needs point backwards; locks are on needed  *)
(* resources (V-LOCK-NEEDS), each once (V-DUP-ATTR); a join declares needs *)
(* only; a blocking step has a pool and is never cooperative               *)
(* (V-BLOCKING-CANCEL); a finite scope has no service (V-MODE); under an   *)
(* unbounded shutdown every service bounds its own stop                    *)
(* (V-SERVICE-UNBOUNDED).                                                  *)
(***************************************************************************)
ValidNode(p, n) ==
  LET d == p.decl[n] IN
  /\ d.needs \subseteq 1 .. (n - 1)
  /\ d.exclusive \cup d.shared \subseteq d.needs
  /\ d.exclusive \cap d.shared = {}
  /\ \A q, r \in d.pool : q = r
  /\ d.kind = "Join" => d.exclusive \cup d.shared = {} /\ d.pool = {}
  /\ d.kind = "BlockingStep" => d.pool # {} /\ ~ d.cooperative
  /\ d.kind = "Service" => p.mode = "Resident" /\ (d.stopWithin \/ p.bounded)

Valid(p) == \A n \in Node : ValidNode(p, n)

ASSUME PlansAssumption == /\ Plans \subseteq PlanType
                          /\ \A p \in Plans : Valid(p)
=============================================================================
