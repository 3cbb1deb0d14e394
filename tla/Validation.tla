----------------------------- MODULE Validation -----------------------------
(***************************************************************************)
(* What PlanBuilder::build refuses (validate.rs, validate/rules.rs,        *)
(* validate/budgets.rs): one operator per rule, each giving its findings   *)
(* in the order the code emits them.  A finding names its rule and the     *)
(* nodes involved, each by its path of declaration positions.              *)
(***************************************************************************)
EXTENDS Declaration

At(n) == <<n.key[2]>>
Finding(rule, nodes) == [rule |-> rule, nodes |-> nodes]
OneIf(condition, rule, nodes) == IF condition THEN <<Finding(rule, nodes)>> ELSE <<>>

ForEachOf(list, F(_)) == FoldLeft(LAMBDA found, x : found \o F(x), <<>>, list)
ForEach(ir, F(_)) == ForEachOf(ir.nodes, F)
NodesWhere(ir, Test(_)) == SelectSeq(ir.nodes, Test)

(* Mutant: reserved entries are not looked at.                             *)
IgnoresUnfinished(ir, unfinished) == <<>>

IncompleteDeclaration(ir, unfinished) ==
  ForEachOf(unfinished, LAMBDA k : OneIf(NodeAt(ir, k) # {}, "IncompleteDeclaration", <<<<k[2]>>>>))

(* Mutant: only a handle exported directly counts.                         *)
ExportsDirectly(root, k, seen) ==
  \E n \in NodeAt(root, k) : n.kind \in {"Resource", "Service"}

(* Follow declaration-level forwarding only: a component to its child's    *)
(* export, an import or input to its source.                               *)
Find(root, k) == UNION {NodeAt(s, k) : s \in Range(Tree(root))}

RECURSIVE ExportsLiveCapability(_, _, _)
ExportsLiveCapability(root, k, seen) ==
  /\ k \notin seen
  /\ \E n \in Find(root, k) :
       \/ n.kind \in {"Resource", "Service"}
       \/ /\ n.kind = "Component"
          /\ \E c \in n.child : \E e \in c.export :
               ExportsLiveCapability(root, e, seen \cup {k})
       \/ /\ n.kind \in {"Import", "Input"}
          /\ \E s \in n.source : ExportsLiveCapability(root, s, seen \cup {k})

LiveExport(ir) ==
  IF ir.mode = "Finite"
  THEN ForEachOf(SetToSeq(ir.export), LAMBDA k :
         OneIf(NodeAt(ir, k) # {} /\ ExportsLiveCapability(ir, k, {}), "LiveExport", <<<<k[2]>>>>))
  ELSE <<>>

Empty(ir) ==
  OneIf(\A n \in Range(ir.nodes) : n.kind \in {"Input", "Import"}, "Empty", <<>>)

(* Mutant: only what is locked or spawned is looked at.                    *)
ForeignSpawns(ir) ==
  ForEach(ir, LAMBDA n : ForEachOf(n.attrs.exclusive \o n.attrs.shared \o n.spawns, LAMBDA k :
    OneIf(k[1] # ir.id, "ForeignKey", <<At(n)>>)))

(* Keys, then pools, node by node; the late spawns of foreign keys last,   *)
(* and the export before them all.                                         *)
NamedKeys(n) ==
  (IF n.kind \in {"Component", "Template"} THEN <<>> ELSE n.needs)
    \o n.attrs.exclusive \o n.attrs.shared \o n.spawns

NamedPools(n) == SetToSeq(n.attrs.limit) \o SetToSeq(n.attrs.pool)

ForeignKey(ir) ==
  LET here(n) == ForEachOf(NamedKeys(n) \o NamedPools(n), LAMBDA k :
                   OneIf(k[1] # ir.id, "ForeignKey", <<At(n)>>))
  IN  ForEachOf(SetToSeq(ir.export), LAMBDA k : OneIf(NodeAt(ir, k) = {}, "ForeignKey", <<>>))
        \o ForEach(ir, here)
        \o ForEachOf(ir.foreign, LAMBDA late : <<Finding("ForeignKey", <<<<late[2][2]>>>>)>>)

DupName(ir) ==
  LET later(a) == SelectSeq(ir.nodes, LAMBDA b : b.key[2] > a.key[2] /\ b.name = a.name)
  IN  ForEach(ir, LAMBDA a :
        IF a.kind \in {"Import", "Input"} THEN <<>>
        ELSE ForEachOf(later(a), LAMBDA b : <<Finding("DupName", <<At(a), At(b)>>)>>))

Repeated(list) == {list[i] : i \in {j \in DOMAIN list : \E h \in 1 .. (j - 1) : list[h] = list[j]}}

DupAttr(ir) ==
  LET each(n, keys) == ForEachOf(SetToSeq(keys), LAMBDA k : <<Finding("DupAttr", <<At(n)>>)>>)
  IN  ForEach(ir, LAMBDA n :
        OneIf(Repeated(n.attrs.declared) # {}, "DupAttr", <<At(n)>>)
          \o each(n, Repeated(n.attrs.exclusive))
          \o each(n, Repeated(n.attrs.shared))
          \o each(n, Range(n.attrs.exclusive) \cap Range(n.attrs.shared)))

\* A child's port must be bound, and to a node of this plan.
ImportScope(ir) ==
  LET unbound(c) == NodesWhere(c, LAMBDA p : p.kind = "Import" /\ p.source = {})
  IN  ForEach(ir, LAMBDA n :
        IF n.kind \notin {"Component", "Template"} THEN <<>>
        ELSE ForEachOf(SetToSeq(n.child), LAMBDA c :
               ForEachOf(unbound(c), LAMBDA p : <<Finding("ImportScope", <<At(n) \o At(p)>>)>>))
               \o ForEachOf(n.needs, LAMBDA k :
                    OneIf(NodeAt(ir, k) = {}, "ImportScope", <<At(n)>>)))

SpawnSelfImport(ir) ==
  ForEach(ir, LAMBDA n : ForEachOf(n.spawns, LAMBDA t :
    ForEachOf(SetToSeq(NodeAt(ir, t)), LAMBDA tpl : ForEachOf(SetToSeq(tpl.child), LAMBDA c :
      ForEachOf(Imports(c), LAMBDA k :
        OneIf(k = n.key, "SpawnSelfImport", <<At(n), At(tpl)>>))))))

SpawnKind(ir) ==
  ForEach(ir, LAMBDA n :
    IF n.kind = "Service" THEN <<>>
    ELSE ForEachOf(n.spawns, LAMBDA t : <<Finding("SpawnKind", <<At(n), <<t[2]>>>>)>>))

(* Mutant: any key may be locked.                                          *)
LocksAnything(ir) == <<>>

LockNeeds(ir) ==
  ForEach(ir, LAMBDA n : ForEachOf(n.attrs.exclusive \o n.attrs.shared, LAMBDA k :
    OneIf(k \notin Range(n.needs), "LockNeeds", <<At(n)>>)))

(* Whatever may make the engine act twice on one external effect.          *)
ActsTwice(n) ==
  \/ n.kind = "Effect" /\ Has(n, "retry")
  \/ n.kind = "Service" /\ Has(n, "restart")
  \/ n.attrs.ambiguous \cap {"recover", "retry"} # {}

IdempotentRequired(ir) ==
  ForEach(ir, LAMBDA n :
    OneIf(ActsTwice(n) /\ ~ Has(n, "idempotent"), "IdempotentRequired", <<At(n)>>))

Takes(n, pool) == pool \in n.attrs.limit \cup n.attrs.pool

RECURSIVE ChildHoldsPool(_, _)
ChildHoldsPool(ir, pool) ==
  \E n \in Range(ir.nodes) :
    Takes(n, pool) \/ \E c \in n.child : ChildHoldsPool(c, pool)

(* Residents that can fill a pool starve whoever else takes it.            *)
PoolStarve(ir) ==
  LET users(pool) == NodesWhere(ir, LAMBDA n : Takes(n, pool))
      resident(pool) == Len(SelectSeq(users(pool), LAMBDA n : n.kind = "Service"))
      unbounded(pool) ==
        \E n \in Range(ir.nodes) :
          n.kind = "Template" /\ (Takes(n, pool) \/ \E c \in n.child : ChildHoldsPool(c, pool))
      starved(pool) == SelectSeq(users(pool), LAMBDA n : n.kind \notin {"Service", "Template"})
      of(i, pool) ==
        OneIf(/\ starved(pool) # <<>>
              /\ unbounded(pool) \/ resident(pool) >= ir.pools[i],
              "PoolStarve", [j \in DOMAIN starved(pool) |-> At(starved(pool)[j])])
  IN  FlattenSeq([i \in DOMAIN ir.pools |-> of(i, <<ir.id, i>>)])

UnusedPool(ir) ==
  FlattenSeq([i \in DOMAIN ir.pools |->
    OneIf(~ ChildHoldsPool(ir, <<ir.id, i>>), "UnusedPool", <<>>)])

(* An unbounded root: every service of the whole declaration tree, depth   *)
(* first, bounds its own stop.                                             *)
RECURSIVE UnboundedServices(_, _)
UnboundedServices(ir, prefix) ==
  ForEach(ir, LAMBDA n :
    OneIf(n.kind = "Service" /\ n.attrs.stop = {}, "ServiceUnbounded", <<prefix \o At(n)>>)
      \o ForEachOf(SetToSeq(n.child), LAMBDA c : UnboundedServices(c, prefix \o At(n))))

(* Mutant: only the root's own services are looked at.                     *)
OwnServicesUnbounded(ir) ==
  ForEach(ir, LAMBDA n :
    OneIf(ir.shutdown = {} /\ n.kind = "Service" /\ n.attrs.stop = {}, "ServiceUnbounded", <<At(n)>>))

ServiceUnbounded(ir) == IF ir.shutdown # {} THEN <<>> ELSE UnboundedServices(ir, <<>>)

(* One finding for all the try-steps nothing depends on.                   *)
TryUnconsumed(ir) ==
  LET vanishing == NodesWhere(ir, LAMBDA n :
        n.kind = "TryStep" /\ \A m \in Range(ir.nodes) : n.key \notin Range(m.needs))
  IN  OneIf(vanishing # <<>>, "TryUnconsumed", [i \in DOMAIN vanishing |-> At(vanishing[i])])

BudgetOrder(ir) ==
  ForEachOf(SetToSeq(ir.shutdown), LAMBDA budget : ForEach(ir, LAMBDA n :
    OneIf(\E d \in n.attrs.stop : d > budget, "BudgetOrder", <<At(n)>>)
      \o OneIf(\E c \in n.child : c.shutdown = {} \/ \E d \in c.shutdown : d > budget,
               "BudgetOrder", <<At(n)>>)))

ModeRule(ir) ==
  ForEach(ir, LAMBDA n :
    OneIf(ir.mode = "Finite" /\ n.kind \in {"Service", "Template"}, "Mode", <<At(n)>>))

BlockingCancel(ir) ==
  ForEach(ir, LAMBDA n :
    OneIf(n.kind = "BlockingStep" /\ Has(n, "cancel"), "BlockingCancel", <<At(n)>>))

BlockingLimit(ir) ==
  ForEach(ir, LAMBDA n :
    OneIf(n.kind = "BlockingStep" /\ n.attrs.pool # {} /\ n.attrs.limit # {},
          "BlockingLimit", <<At(n)>>))

RecoveryMissing(ir) ==
  ForEach(ir, LAMBDA n :
    OneIf("recover" \in n.attrs.ambiguous /\ ~ n.attrs.recovery, "RecoveryMissing", <<At(n)>>))

(* Every rule, in emission order.                                          *)
ValidateBuild(ir, unfinished) ==
  IncompleteDeclaration(ir, unfinished) \o LiveExport(ir) \o Empty(ir) \o ForeignKey(ir)
    \o DupName(ir) \o DupAttr(ir) \o ImportScope(ir) \o SpawnSelfImport(ir) \o SpawnKind(ir)
    \o LockNeeds(ir) \o IdempotentRequired(ir) \o PoolStarve(ir) \o UnusedPool(ir)
    \o ServiceUnbounded(ir) \o TryUnconsumed(ir) \o BudgetOrder(ir) \o ModeRule(ir)
    \o BlockingCancel(ir) \o BlockingLimit(ir) \o RecoveryMissing(ir)
=============================================================================
