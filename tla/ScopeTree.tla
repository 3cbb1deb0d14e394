----------------------------- MODULE ScopeTree -----------------------------
(***************************************************************************)
(* The flat table a run is made from: the root plan, the inner plans of    *)
(* its components, and the rows the instances of its templates will take.  *)
(* Table::flatten gives every declaration one row, resolves an import to   *)
(* the parent's row it stands for, and Table::instantiate appends the rows *)
(* of one instance.  Here the rows of the instances that may be spawned    *)
(* are laid out from the start; a run only uses those that were born.      *)
(***************************************************************************)
EXTENDS Naturals, FiniteSets, Sequences, SequencesExt

CONSTANTS
  NNodes,    \* rows a table may have
  NScopes,   \* scopes it may have: 1 is the root
  Trees      \* the tables a run may be made from

ASSUME RowsAssumption == NNodes \in Nat \ {0} /\ NScopes \in Nat \ {0}

RowId == 1 .. NNodes
ScopeId == 1 .. NScopes
Root == 1

NodeRow ==
  [kind       : {"Resource", "Step", "Service", "Component", "Template"},
   scope      : ScopeId,
   needs      : SUBSET RowId,       \* own and imported rows
   exclusive  : SUBSET RowId,       \* locked resources, own or imported
   pooled     : BOOLEAN,           \* takes a slot of its scope's pool
   attempts   : Nat \ {0},
   restarts   : Nat,
   zeroWait   : BOOLEAN,
   terminal   : BOOLEAN,
   stopWithin : BOOLEAN,
   inner      : ScopeId \cup {0},    \* the scope of a component
   spawns     : RowId \cup {0}]     \* the template the body instantiates

ScopeRow ==
  [policy    : {"FailFast", "Isolate"},
   mode      : {"Finite", "Resident"},
   bounded   : BOOLEAN,
   parent    : ScopeId \cup {0},
   component : RowId \cup {0},      \* the component the scope runs for
   template  : RowId \cup {0},      \* the template it is an instance of
   export    : RowId \cup {0},
   limit     : Nat]

Tree == [node : Seq(NodeRow), scope : Seq(ScopeRow)]

(***************************************************************************)
(* What flatten and link guarantee and build checks.  A row is declared    *)
(* after what it needs, in its own scope or, through imports, in an        *)
(* enclosing one; a component's scope follows its row; a lock is on a need *)
(* (V-LOCK-NEEDS); a finite root has no service and no template of its own *)
(* (V-MODE, which does not look at inner plans: OD-MODE).                  *)
(***************************************************************************)
RECURSIVE Encloses(_, _, _)
Encloses(t, outer, s) ==
  s = outer \/ (t.scope[s].parent # 0 /\ Encloses(t, outer, t.scope[s].parent))

ValidRow(t, n) ==
  LET r == t.node[n] IN
  /\ \A d \in r.needs : d < n /\ Encloses(t, t.node[d].scope, r.scope)
  /\ r.exclusive \subseteq r.needs
  /\ \A e \in r.exclusive : t.node[e].kind = "Resource"
  /\ r.kind = "Component" <=> r.inner # 0
  /\ r.kind \in {"Component", "Template"} => r.exclusive = {} /\ ~ r.pooled
  /\ r.inner # 0 => t.scope[r.inner].component = n /\ t.scope[r.inner].parent = r.scope
  /\ r.spawns # 0 => t.node[r.spawns].kind = "Template" /\ t.node[r.spawns].scope = r.scope
  /\ r.kind \in {"Service", "Template"} =>
       ~ (r.scope = Root /\ t.scope[Root].mode = "Finite")
  /\ r.kind = "Service" => r.stopWithin \/ t.scope[r.scope].bounded

ValidScope(t, s) ==
  LET r == t.scope[s] IN
  /\ s = Root <=> r.parent = 0
  /\ s # Root => (r.component = 0) # (r.template = 0)
  /\ r.template # 0 => r.parent = t.node[r.template].scope
  /\ r.export # 0 => t.node[r.export].scope = s

ASSUME TreesAssumption ==
  /\ Trees \subseteq Tree
  /\ \A t \in Trees : /\ DOMAIN t.node \subseteq RowId /\ DOMAIN t.scope \subseteq ScopeId
                      /\ \A n \in DOMAIN t.node : ValidRow(t, n)
                      /\ \A s \in DOMAIN t.scope : ValidScope(t, s)
=============================================================================
