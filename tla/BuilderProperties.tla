------------------------- MODULE BuilderProperties -------------------------
(***************************************************************************)
(* What holds of every plan that build accepts.  The newest plan is enough *)
(* to look at: each was the newest in the state after it was built.        *)
(***************************************************************************)
EXTENDS Builder, Layout

Newest == IF plans = <<>> THEN {} ELSE {Last(plans)}

BodyFits(n, body) ==
  /\ body.prepare = (n.kind \in {"Resource", "Step", "TryStep", "Service", "Effect"})
  /\ body.serve = (n.kind = "Service")
  /\ body.blocking = (n.kind = "BlockingStep")
  /\ body.release = (n.attrs.release \in {"Release", "Compensate"})
  /\ n.kind = "Resource" => body.release
  /\ n.kind = "Effect" => n.attrs.release \in {"Compensate", "Persistent"}
  /\ "recover" \in n.attrs.ambiguous => body.recovery # {}

Positions(ir, kinds) == SelectSeq([i \in DOMAIN ir.nodes |-> i],
                                  LAMBDA i : ir.nodes[i].kind \in kinds)

RECURSIVE BodiesFit(_, _)
BodiesFit(ir, bodies) ==
  LET mounted == Positions(ir, {"Component", "Template"}) IN
  /\ Len(bodies.nodes) = Len(ir.nodes)
  /\ \A i \in DOMAIN ir.nodes : BodyFits(ir.nodes[i], bodies.nodes[i])
  /\ [i \in DOMAIN bodies.imports |-> bodies.imports[i][2]] = Positions(ir, {"Import", "Input"})
  /\ [i \in DOMAIN bodies.ready |-> bodies.ready[i][1][2]] = Positions(ir, {"Join", "Component"})
  /\ Len(bodies.children) = Len(mounted)
  /\ \A i \in DOMAIN mounted : \A c \in ir.nodes[mounted[i]].child :
       BodiesFit(c, bodies.children[i])

(* A plan that build accepts has, at every level, exactly the bodies its   *)
(* kinds need: no forgotten chain, no recovery without its handler, every  *)
(* child's bodies at its own node.  An effect's recovery reads the         *)
(* operation's identity during cleanup, so the effect needs that key, in   *)
(* whatever order its methods were called.                                 *)
WhollyDeclared ==
  \A p \in Newest :
    /\ BodiesFit(p.ir, p.bodies)
    /\ \A i \in DOMAIN p.bodies.nodes :
         \A k \in p.bodies.nodes[i].recovery : k \in Range(p.ir.nodes[i].needs)

OwnKeys(s) == {n.key : n \in Range(s.nodes)}

(* Whatever was passed from one plan to another: the keys, templates and   *)
(* pools a node names are its own scope's, and so is the export.           *)
OwnNames(s) ==
  /\ s.export \cup s.input \subseteq OwnKeys(s)
  /\ \A n \in Range(s.nodes) :
       /\ Range(n.needs \o n.attrs.exclusive \o n.attrs.shared \o n.spawns) \subseteq OwnKeys(s)
       /\ n.attrs.limit \cup n.attrs.pool \subseteq {<<s.id, i>> : i \in DOMAIN s.pools}
       /\ \A t \in Range(n.spawns) : n.kind = "Service" /\ s.nodes[t[2]].kind = "Template"

(* What a child's import or input stands for is a need of the node it is   *)
(* mounted at, so it outlives the child; and no port is left unbound.      *)
SourcesOutlive(n) ==
  \A c \in n.child : \A m \in Range(c.nodes) :
    /\ m.source \subseteq Range(n.needs)
    /\ m.kind = "Import" => m.source # {}

(* In an accepted plan every name means one thing, however often plans are *)
(* mounted in one another: every scope has an identity of its own, a node  *)
(* names its own scope's, and reaches out of it only through its mount.    *)
NamesResolve ==
  \A p \in Newest :
    /\ IsInjective(ScopeIds(p.ir))
    /\ \A s \in Range(Tree(p.ir)) :
         OwnNames(s) /\ \A n \in Range(s.nodes) : SourcesOutlive(n)

(* Every service of the tree has a bounded stop, its own or the root's for *)
(* no other budget runs before its scope is released, and no budget        *)
(* exceeds one that contains it.                                           *)
RECURSIVE Contained(_, _)
Contained(ir, bounds) ==
  LET inner == bounds \cup ir.shutdown IN
  /\ \A d \in ir.shutdown, e \in bounds : d <= e
  /\ \A n \in Range(ir.nodes) :
       /\ \A d \in n.attrs.stop, e \in inner : d <= e
       /\ \A c \in n.child : Contained(c, inner)

BudgetsNest ==
  \A p \in Newest :
    /\ Contained(p.ir, {})
    /\ p.ir.shutdown = {} => \A s \in Range(Tree(p.ir)) : \A n \in Range(s.nodes) :
                               n.kind = "Service" => n.attrs.stop # {}

AllNodes(root) == UNION {Range(s.nodes) : s \in Range(Tree(root))}

(* What a key stands for once components, imports and inputs are followed. *)
Forwards(n) ==
  n.source \cup (IF n.kind = "Component" THEN UNION {c.export : c \in n.child} ELSE {})

RECURSIVE Reaches(_, _)
Reaches(nodes, ks) ==
  LET next == ks \cup UNION {Forwards(n) : n \in {m \in nodes : m.key \in ks}}
  IN  IF next = ks THEN ks ELSE Reaches(nodes, next)

(* A finite plan's export is never the value of a resource or a service,   *)
(* however many mounts and imports it passes through.                      *)
NoLiveExport ==
  \A p \in Newest : p.ir.mode = "Finite" =>
    LET nodes == AllNodes(p.ir)  reached == Reaches(nodes, p.ir.export)
    IN  \A n \in nodes : n.key \in reached => n.kind \notin {"Resource", "Service"}

(* The keys needs come from, imports and bound inputs followed, save those *)
(* the run's own input supplies.                                           *)
RECURSIVE WaitsOn(_, _)
WaitsOn(nodes, ks) ==
  LET passed == {n \in nodes : n.key \in ks /\ n.kind \in {"Import", "Input"}}
  IN  IF passed = {} THEN ks
      ELSE WaitsOn(nodes, (ks \ {n.key : n \in passed}) \cup UNION {n.source : n \in passed})

TableFits(root, t, from) ==
  LET nodes == AllNodes(root) IN
  \A i \in from .. Len(t.nodes) :
    LET f == t.nodes[i]
        needs == UNION {Range(n.needs) : n \in {m \in nodes : m.key = f.decl}}
    IN  /\ {t.nodes[j].decl : j \in Range(f.needs)} = WaitsOn(nodes, needs)
        /\ \A j \in Range(f.needs) : j < i

(* What the engine's models assume of a declaration (Plan!ValidNode).      *)
EngineAccepts(s, n) ==
  LET locks == Range(n.attrs.exclusive) \cup Range(n.attrs.shared) IN
  /\ \A k \in Range(n.needs) : k[2] < n.key[2]
  /\ locks \subseteq Range(n.needs)
  /\ Len(n.attrs.exclusive) + Len(n.attrs.shared) = Cardinality(locks)
  /\ Cardinality(n.attrs.limit \cup n.attrs.pool) <= 1
  /\ n.kind = "Join" => locks = {} /\ n.attrs.limit = {}
  /\ n.kind = "BlockingStep" => n.attrs.pool # {} /\ ~ Has(n, "cancel")
  /\ n.kind = "Service" => s.mode = "Resident"

(* The engine is handed what it assumes: every declaration is one it       *)
(* accepts, and the table drops no dependency: each node waits for exactly *)
(* the nodes its needs stand for, all earlier in the table, save what the  *)
(* run's own input supplies; an instance's nodes do too.                   *)
TableIsFaithful ==
  \A p \in Newest :
    /\ \A s \in Range(Tree(p.ir)) : \A n \in Range(s.nodes) : EngineAccepts(s, n)
    /\ Rootable(p.ir) =>
         LET t == BuildTable(p.ir) IN
         /\ TableFits(p.ir, t, 1)
         /\ \A i \in DOMAIN t.nodes :
              t.nodes[i].kind = "Template" => TableFits(p.ir, Instantiate(t, i), Len(t.nodes) + 1)

RECURSIVE WaitsFor(_, _)
WaitsFor(t, flats) ==
  LET next == flats \cup UNION {Range(t.nodes[i].needs) : i \in flats}
  IN  IF next = flats THEN flats ELSE WaitsFor(t, next)

(* A service that awaits an instance before it is ready can be answered:   *)
(* nothing the instance waits for waits for the service itself.            *)
SpawnsCanResolve ==
  \A p \in Newest : Rootable(p.ir) =>
    LET t == BuildTable(p.ir) IN
    \A s, i \in DOMAIN t.nodes : t.nodes[i].decl \in Range(t.nodes[s].spawns) =>
      LET u == Instantiate(t, i)
      IN  s \notin WaitsFor(u, (Len(t.nodes) + 1) .. Len(u.nodes))

(* Within one rule the findings come in node declaration order.  A late    *)
(* spawn of a foreign key is reported after the nodes, and is left out.    *)
Before(a, b) ==
  LET m == IF Len(a) < Len(b) THEN Len(a) ELSE Len(b) IN
  \/ IsPrefix(a, b)
  \/ \E i \in 1 .. m : a[i] < b[i] /\ \A j \in 1 .. (i - 1) : a[j] = b[j]

FindingsInOrder ==
  \A i, j \in DOMAIN refused :
    (/\ i < j /\ refused[i].rule = refused[j].rule
     /\ refused[i].rule # "ForeignKey"
     /\ refused[i].nodes # <<>> /\ refused[j].nodes # <<>>)
      => Before(refused[i].nodes[1], refused[j].nodes[1])
=============================================================================
