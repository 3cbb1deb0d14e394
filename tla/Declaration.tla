---------------------------- MODULE Declaration ----------------------------
(***************************************************************************)
(* A plan's declaration as a value (plan.rs): nodes in declaration order,  *)
(* each with its needs, locks, pools and child plan, and what mounting a   *)
(* plan into another does to its identities (plan/mounting.rs).            *)
(*                                                                         *)
(* A key is <<plan, position>> with positions from 1, and so is a pool.    *)
(* An Option is a set of at most one element.  An attribute whose value    *)
(* plays no part in validation is there when its name was declared.        *)
(***************************************************************************)
EXTENDS Naturals, Sequences, FiniteSets, SequencesExt

ChainKinds == {"Resource", "Step", "TryStep", "BlockingStep", "Service", "Effect"}
Kinds == ChainKinds \cup {"Join", "Component", "Template", "Import", "Input"}

Flags == {"within", "retry", "idempotent", "cancel", "restart", "terminal"}

NoAttrs ==
  [declared  |-> <<>>,   \* attribute names in the order set
   stop      |-> {},     \* stop_within
   ambiguous |-> {},     \* on_ambiguous
   recovery  |-> FALSE,
   exclusive |-> <<>>,
   shared    |-> <<>>,
   limit     |-> {},
   pool      |-> {},
   release   |-> "None"]

Decl(key, name, kind) ==
  [key |-> key, name |-> name, kind |-> kind, needs |-> <<>>, source |-> {},
   spawns |-> <<>>, child |-> {}, attrs |-> NoAttrs]

Has(n, attribute) == attribute \in Range(n.attrs.declared)

(* The node behind a key of this plan, if there is one.                    *)
NodeAt(ir, k) ==
  IF k[2] \in DOMAIN ir.nodes /\ ir.nodes[k[2]].key = k THEN {ir.nodes[k[2]]} ELSE {}

(* The parent keys a plan imports, in declaration order.                   *)
Imports(ir) == FoldLeft(LAMBDA found, n : found \o SetToSeq(n.source), <<>>, ir.nodes)

Children(ir) == FoldLeft(LAMBDA found, n : found \o SetToSeq(n.child), <<>>, ir.nodes)

(* Every scope of the tree under a plan, itself first.                     *)
RECURSIVE Tree(_)
Tree(ir) == FoldLeft(LAMBDA scopes, c : scopes \o Tree(c), <<ir>>, Children(ir))

(* Where a plan's identity went: the first pair recorded for it.           *)
Renamed(ids, base, plan) ==
  LET at == SelectInSeq(ids, LAMBDA id : id = plan)
  IN  IF at = 0 THEN plan ELSE base + at - 1

RemapNode(n, key(_)) ==
  LET all(keys) == [i \in DOMAIN keys |-> key(keys[i])]
      some(keys) == {key(k) : k \in keys}
  IN  [n EXCEPT !.key = key(@), !.needs = all(@), !.source = some(@), !.spawns = all(@),
                !.attrs = [@ EXCEPT !.exclusive = all(@), !.shared = all(@),
                                    !.limit = some(@), !.pool = some(@)]]

RECURSIVE Remap(_, _, _)
Remap(ir, ids, base) ==
  LET key(k) == <<Renamed(ids, base, k[1]), k[2]>>
      node(n) == [RemapNode(n, key) EXCEPT !.child = {Remap(c, ids, base) : c \in @}]
  IN  [ir EXCEPT !.id = Renamed(ids, base, @),
                 !.input = {key(k) : k \in @},
                 !.export = {key(k) : k \in @},
                 !.nodes = [i \in DOMAIN @ |-> node(@[i])]]

ScopeIds(ir) == FoldLeft(LAMBDA ids, s : Append(ids, s.id), <<>>, Tree(ir))

(* Mutant: only the mounted plan itself gets a fresh identity.             *)
MountRenamesTop(ir, base) == Remap(ir, <<ir.id>>, base)

(* mount_ir: every scope of the tree gets a fresh identity, from base on.  *)
Mount(ir, base) == LET ids == ScopeIds(ir) IN Remap(ir, ids, base)
=============================================================================
