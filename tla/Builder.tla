------------------------------ MODULE Builder ------------------------------
(***************************************************************************)
(* The authoring surface (builder.rs, terminals.rs, recovery.rs): plan     *)
(* builders, the one node chain under construction, and the plans built.   *)
(* A chain reserves its declaration when it begins and its terminal        *)
(* completes it; while it lives it borrows its builder, so nothing else    *)
(* happens to that builder.  Type state decides which methods a chain has: *)
(* "stage" is the type the author holds.                                   *)
(*                                                                         *)
(* A menu bounds what is authored: its i-th entry says what the i-th       *)
(* builder offers.  Every builder takes one input and every value has one  *)
(* type.                                                                   *)
(***************************************************************************)
EXTENDS Validation

CONSTANT Menus

VARIABLES
  builders,  \* PlanBuilders in the order they were begun
  chain,     \* at most one Node chain
  plans,     \* the plans built and bound, each its declaration and bodies
  refused,   \* the findings of the last refusal
  nextPlan,  \* PLAN_IDS
  menu       \* what this author writes

vars == <<builders, chain, plans, refused, nextPlan, menu>>

NoBody == [prepare |-> FALSE, release |-> FALSE, recovery |-> {}, serve |-> FALSE, blocking |-> FALSE]

NextKey(B) == <<B.id, Len(B.nodes) + 1>>

(* Complete the reserved entry, or append one that needed no chain.        *)
Commit(B, decl, body) ==
  IF decl.key \in Range(B.unfinished)
  THEN [B EXCEPT !.unfinished = SelectSeq(@, LAMBDA k : k # decl.key),
                 !.nodes[decl.key[2]] = decl, !.bodies[decl.key[2]] = body]
  ELSE [B EXCEPT !.nodes = Append(@, decl), !.bodies = Append(@, body)]

NewBuild(id) ==
  [id |-> id, open |-> TRUE, unfinished |-> <<>>, nodes |-> <<>>, pools |-> <<>>,
   bodies |-> <<>>, imports |-> <<>>, ready |-> <<>>, children |-> <<>>,
   export |-> {}, input |-> {}, foreign |-> <<>>]

(* Plan::with_input: every plan declares its input first.                  *)
WithInput(id) ==
  LET B == NewBuild(id)  key == NextKey(B)
  IN  [Commit(B, Decl(key, 0, "Input"), NoBody) EXCEPT
         !.input = {key}, !.imports = <<key>>]

Init ==
  /\ builders = <<>> /\ chain = {} /\ plans = <<>> /\ refused = <<>>
  /\ nextPlan = 1
  /\ menu \in Menus

May(b, op) == op \in menu[b].ops

(* A builder the author may call: not consumed, and no chain borrows one.  *)
(* Calls of two builders meet only in the keys and plans they exchange, so *)
(* the author works on the innermost one, and stops at a refusal.          *)
Free(b) ==
  /\ builders[b].open /\ chain = {} /\ refused = <<>>
  /\ \A c \in DOMAIN builders : c > b => ~ builders[c].open

(* The author exports last: naming the export commutes with declaring.     *)
Room(b) == Len(builders[b].nodes) < menu[b].size /\ builders[b].export = {}

(* A fresh name, or one the plan has already.                              *)
Names(b) ==
  {Len(builders[b].nodes) + 1}
    \cup (IF May(b, "dup") THEN {n.name : n \in Range(builders[b].nodes)} ELSE {})

(* Keys come from terminals only, so an unfinished chain has none, and a   *)
(* template yields a handle and no key.                                    *)
KeysOf(B) ==
  {n.key : n \in {m \in Range(B.nodes) : m.kind # "Template" /\ m.key \notin Range(B.unfinished)}}

TemplatesOf(B) == {n.key : n \in {m \in Range(B.nodes) : m.kind = "Template"}}

Others(b) == IF May(b, "foreign") THEN DOMAIN builders ELSE {b}
Keys(b) == UNION {KeysOf(builders[c]) : c \in Others(b)}
Templates(b) == UNION {TemplatesOf(builders[c]) : c \in Others(b)}
Pools(b) == UNION {{<<builders[c].id, i>> : i \in DOMAIN builders[c].pools} : c \in Others(b)}

Deps(b) == UNION {[1 .. d -> Keys(b)] : d \in 1 .. menu[b].width}

(* What a mount's input is bound to: (), or a key.                         *)
Inputs(b) == {{}} \cup (IF May(b, "input") THEN {{k} : k \in Keys(b)} ELSE {})

Set(b, B) == builders' = [builders EXCEPT ![b] = B]

(***************************************************************************)
(* The plan builder.                                                       *)
(***************************************************************************)
StartBuilder ==
  /\ Len(builders) < Len(menu) /\ chain = {} /\ refused = <<>>
  /\ Cardinality({b \in DOMAIN builders : ~ builders[b].open}) >= menu[Len(builders) + 1].after
  /\ builders' = Append(builders, WithInput(nextPlan))
  /\ nextPlan' = nextPlan + 1
  /\ UNCHANGED <<chain, plans, refused, menu>>

(* A formal import names no parent key yet; an import names one.           *)
Import(b, source) ==
  LET B == builders[b]  key == NextKey(B)
  IN  [Commit(B, [Decl(key, key[2], "Import") EXCEPT !.source = source], NoBody)
         EXCEPT !.imports = Append(@, key)]

DeclareImport(b) ==
  /\ Free(b) /\ Room(b) /\ May(b, "import")
  /\ \E c \in DOMAIN builders \ {b} : \E k \in KeysOf(builders[c]) : Set(b, Import(b, {k}))
  /\ UNCHANGED <<chain, plans, refused, nextPlan, menu>>

DeclarePort(b) ==
  /\ Free(b) /\ Room(b) /\ May(b, "port")
  /\ Set(b, Import(b, {}))
  /\ UNCHANGED <<chain, plans, refused, nextPlan, menu>>

Join(b, name, deps) ==
  LET B == builders[b]  key == NextKey(B)
  IN  [Commit(B, [Decl(key, name, "Join") EXCEPT !.needs = deps], NoBody)
         EXCEPT !.ready = Append(@, <<key, {}>>)]

DeclareJoin(b) ==
  /\ Free(b) /\ Room(b) /\ May(b, "join")
  /\ \E name \in Names(b), deps \in Deps(b) : Set(b, Join(b, name, deps))
  /\ UNCHANGED <<chain, plans, refused, nextPlan, menu>>

(* A static mount: fresh identities, then the input's binding, and only    *)
(* then what the component needs.                                          *)
BindInput(child, input) ==
  [child EXCEPT !.nodes = [i \in DOMAIN @ |->
     IF @[i].key \in child.input THEN [@[i] EXCEPT !.source = input] ELSE @[i]]]

(* Mutant: what the component needs is read before its input is bound.     *)
ComponentBindsLast(b, name, plan, input) ==
  LET B == builders[b]
      key == NextKey(B)
      child == Mount(plan.ir, nextPlan)
      decl == [Decl(key, name, "Component") EXCEPT
                 !.needs = Imports(child), !.child = {BindInput(child, input)},
                 !.attrs.release = "Inner"]
  IN  [Commit(B, decl, NoBody) EXCEPT !.ready = Append(@, <<key, child.export>>),
                                      !.children = Append(@, plan.bodies)]

Component(b, name, plan, input) ==
  LET B == builders[b]
      key == NextKey(B)
      child == BindInput(Mount(plan.ir, nextPlan), input)
      decl == [Decl(key, name, "Component") EXCEPT
                 !.needs = Imports(child), !.child = {child}, !.attrs.release = "Inner"]
  IN  [Commit(B, decl, NoBody) EXCEPT !.ready = Append(@, <<key, child.export>>),
                                      !.children = Append(@, plan.bodies)]

Template(b, name, plan) ==
  LET B == builders[b]
      child == Mount(plan.ir, nextPlan)
      decl == [Decl(NextKey(B), name, "Template") EXCEPT
                 !.needs = Imports(child), !.child = {child}, !.attrs.release = "Instances"]
  IN  [Commit(B, decl, NoBody) EXCEPT !.children = Append(@, plan.bodies)]

DeclareChild(b) ==
  /\ Free(b) /\ Room(b)
  /\ \E p \in Range(plans), name \in Names(b) :
       /\ p.ir.id # builders[b].id
       /\ \/ /\ May(b, "component")
             /\ \E input \in Inputs(b) : Set(b, Component(b, name, p, input))
          \/ May(b, "template") /\ Set(b, Template(b, name, p))
       /\ nextPlan' = nextPlan + Len(Tree(p.ir))
  /\ UNCHANGED <<chain, plans, refused, menu>>

(* The late form takes any key; one of another plan is kept for build.     *)
Spawns(B, service, template) ==
  IF \E n \in Range(B.nodes) : n.key = service
  THEN [B EXCEPT !.nodes = [i \in DOMAIN @ |->
         IF @[i].key = service THEN [@[i] EXCEPT !.spawns = Append(@, template)] ELSE @[i]]]
  ELSE [B EXCEPT !.foreign = Append(@, <<service, template>>)]

DeclareSpawns(b) ==
  /\ Free(b) /\ May(b, "late")
  /\ \E k \in Keys(b), t \in Templates(b) :
       /\ \A n \in Range(builders[b].nodes) : n.spawns = <<>>
       /\ builders[b].foreign = <<>>
       /\ Set(b, Spawns(builders[b], k, t))
  /\ UNCHANGED <<chain, plans, refused, nextPlan, menu>>

DeclarePool(b) ==
  /\ Free(b)
  /\ Len(builders[b].pools) < menu[b].pools
  /\ \E limit \in menu[b].limits :
       Set(b, [builders[b] EXCEPT !.pools = Append(@, limit)])
  /\ UNCHANGED <<chain, plans, refused, nextPlan, menu>>

Export(b) ==
  /\ Free(b) /\ May(b, "export") /\ builders[b].export = {}
  /\ \E k \in Keys(b) : Set(b, [builders[b] EXCEPT !.export = {k}])
  /\ UNCHANGED <<chain, plans, refused, nextPlan, menu>>

(* Plan::bind: another value of the same definition, one port bound.       *)
Binds(plan, port, parent) ==
  IF \E n \in NodeAt(plan.ir, port) : n.kind = "Import"
  THEN /\ plans' = Append(plans, [plan EXCEPT !.ir.nodes[port[2]].source = {parent}])
       /\ UNCHANGED refused
  ELSE /\ refused' = <<Finding("ImportScope", <<>>)>>
       /\ UNCHANGED plans

Bind ==
  /\ chain = {} /\ refused = <<>>
  /\ \E p \in Range(plans) : \E b, c \in DOMAIN builders :
       /\ b # c /\ May(b, "port")
       /\ \E n \in Range(builders[b].nodes) :
            n.kind \in {"Import", "Input"} /\ n.source = {} /\ \E k \in KeysOf(builders[c]) :
              /\ \A q \in Range(plans) : \A m \in NodeAt(q.ir, n.key) : m.source = {}
              /\ Binds(p, n.key, k)
  /\ UNCHANGED <<builders, chain, nextPlan, menu>>

PlanIr(B, shutdown, mode) ==
  [id |-> B.id, nodes |-> B.nodes, pools |-> B.pools, shutdown |-> shutdown, mode |-> mode,
   export |-> B.export, input |-> B.input, foreign |-> B.foreign]

Bodies(B) ==
  [plan |-> B.id, nodes |-> B.bodies, imports |-> B.imports, ready |-> B.ready,
   children |-> B.children]

Build(b) ==
  /\ Free(b)
  /\ \E shutdown \in menu[b].shutdowns, mode \in menu[b].modes :
       LET ir == PlanIr(builders[b], shutdown, mode)
           checks == ValidateBuild(ir, builders[b].unfinished)
       IN  IF checks = <<>>
           THEN /\ plans' = Append(plans, [ir |-> ir, bodies |-> Bodies(builders[b])])
                /\ UNCHANGED refused
           ELSE refused' = checks /\ UNCHANGED plans
  /\ Set(b, [builders[b] EXCEPT !.open = FALSE])
  /\ UNCHANGED <<chain, nextPlan, menu>>

(***************************************************************************)
(* The node chain.                                                         *)
(***************************************************************************)
Begin(b) ==
  /\ Free(b) /\ Room(b)
  /\ \E kind \in menu[b].kinds, name \in Names(b) :
       LET decl == Decl(NextKey(builders[b]), name, kind)
       IN  /\ Set(b, [builders[b] EXCEPT !.unfinished = Append(@, decl.key),
                                         !.nodes = Append(@, decl),
                                         !.bodies = Append(@, NoBody)])
           /\ chain' = {[b |-> b, decl |-> decl, stage |-> "open", identity |-> {}]}
  /\ UNCHANGED <<plans, refused, nextPlan, menu>>

(* Attribute calls so far but needs, which menu bounds.                    *)
Spent(d) ==
  Len(d.attrs.declared) + Len(d.attrs.exclusive) + Len(d.attrs.shared) + Len(d.spawns)
SpentBy(c) ==
  Spent(c.decl)
    + FoldSeq(LAMBDA n, sum : sum + (IF n.kind \in ChainKinds THEN Spent(n) ELSE 0),
              0, builders[c.b].nodes)

Offers(c, call) ==
  call \in menu[c.b].calls /\ (call = "needs" \/ SpentBy(c) < menu[c.b].spend)

Declares(c, name) == [c EXCEPT !.decl.attrs.declared = Append(@, name)]

(* A Node, which an identified effect wraps with fewer methods.            *)
Configurable(c) == c.stage \in {"open", "ambiguous", "pooled", "identified"}
Wrapped == {"within", "retry", "idempotent"}

MayDeclare(c, flag) ==
  /\ Configurable(c) /\ Offers(c, flag)
  /\ c.stage = "identified" => flag \in Wrapped
  /\ flag \in {"restart", "terminal"} => c.decl.kind = "Service"

(* Deps of an identified effect: its identity once, after the others.      *)
Identified(deps, identity) ==
  deps \o SelectSeq(SetToSeq(identity), LAMBDA k : k \notin Range(deps))

Flag(c) == {Declares(c, flag) : flag \in {f \in Flags : MayDeclare(c, f)}}

(* Mutant: new needs replace the identity too.                             *)
NeedsForgetsIdentity(c) ==
  IF Configurable(c) /\ Offers(c, "needs")
  THEN {[c EXCEPT !.decl.needs = deps] : deps \in Deps(c.b)}
  ELSE {}

Needs(c) ==
  IF Configurable(c) /\ Offers(c, "needs")
  THEN {[c EXCEPT !.decl.needs = Identified(deps, c.identity)] : deps \in Deps(c.b)}
  ELSE {}

Lock(c) ==
  IF Configurable(c) /\ c.stage # "identified"
  THEN (IF Offers(c, "exclusive")
        THEN {[c EXCEPT !.decl.attrs.exclusive = Append(@, k)] : k \in Keys(c.b)} ELSE {})
       \cup (IF Offers(c, "shared")
             THEN {[c EXCEPT !.decl.attrs.shared = Append(@, k)] : k \in Keys(c.b)} ELSE {})
  ELSE {}

Limit(c) ==
  IF Configurable(c) /\ c.stage # "identified" /\ Offers(c, "limit")
  THEN {[Declares(c, "limit") EXCEPT !.decl.attrs.limit = {p}] : p \in Pools(c.b)}
  ELSE {}

On(c) ==
  IF c.stage = "open" /\ c.decl.kind = "BlockingStep"
  THEN {[c EXCEPT !.stage = "pooled", !.decl.attrs.pool = {p}] : p \in Pools(c.b)}
  ELSE {}

StopWithin(c) ==
  IF c.stage = "open" /\ c.decl.kind = "Service" /\ Offers(c, "stop_within")
  THEN {[Declares(c, "stop_within") EXCEPT !.decl.attrs.stop = {d}] : d \in menu[c.b].stops}
  ELSE {}

ChainSpawns(c) ==
  IF c.stage = "open" /\ c.decl.kind = "Service" /\ Offers(c, "spawns")
  THEN {[c EXCEPT !.decl.spawns = Append(@, t)] : t \in Templates(c.b)}
  ELSE {}

OnAmbiguous(c) ==
  IF c.stage = "open" /\ c.decl.kind = "Effect"
  THEN {[Declares(c, "on_ambiguous") EXCEPT !.stage = "ambiguous", !.decl.attrs.ambiguous = {a}] :
          a \in menu[c.b].ambiguity}
  ELSE {}

IdentifiedBy(c) ==
  IF c.stage = "ambiguous" /\ Offers(c, "identified_by")
  THEN {[c EXCEPT !.stage = "identified", !.identity = {k},
                  !.decl.needs = Identified(@, {k})] : k \in Keys(c.b)}
  ELSE {}

(* acquire, initialize and perform record the prepare body and leave a     *)
(* value that has one more method to call.                                 *)
Prepare(c) ==
  IF c.stage = "open" /\ c.decl.kind = "Resource" THEN {[c EXCEPT !.stage = "release"]}
  ELSE IF c.stage = "open" /\ c.decl.kind = "Service"
  THEN {[c EXCEPT !.stage = "serve", !.decl.attrs.release = "Stop"]}
  ELSE IF c.stage = "ambiguous" THEN {[c EXCEPT !.stage = "compensate"]}
  ELSE IF c.stage = "identified" THEN {[c EXCEPT !.stage = "recover"]}
  ELSE {}

RecoverUnknown(c) ==
  IF c.stage = "recover"
  THEN {[c EXCEPT !.stage = "compensate", !.decl.attrs.recovery = TRUE]}
  ELSE {}

Extend ==
  /\ \E c \in chain : \E d \in Flag(c) \cup Needs(c) \cup Lock(c) \cup Limit(c) \cup On(c)
                               \cup StopWithin(c) \cup ChainSpawns(c) \cup OnAmbiguous(c)
                               \cup IdentifiedBy(c) \cup Prepare(c) \cup RecoverUnknown(c) :
       chain' = {d}
  /\ UNCHANGED <<builders, plans, refused, nextPlan, menu>>

(* What a terminal commits, with the bodies it hands over.                 *)
Released(c, style) == [c.decl EXCEPT !.attrs.release = style]
Prepared == [NoBody EXCEPT !.prepare = TRUE]

RunTerminal(c) ==
  IF c.decl.kind \in {"Step", "TryStep"} THEN {<<c.decl, Prepared>>}
  ELSE IF c.stage = "pooled" THEN {<<c.decl, [NoBody EXCEPT !.blocking = TRUE]>>}
  ELSE {}

ReleaseTerminal(c) ==
  IF c.stage = "release"
  THEN {<<Released(c, "Release"), [Prepared EXCEPT !.release = TRUE]>>}
  ELSE {}

ServeTerminal(c) ==
  IF c.stage = "serve" THEN {<<c.decl, [Prepared EXCEPT !.serve = TRUE]>>} ELSE {}

EffectTerminal(c) ==
  IF c.stage = "compensate"
  THEN {<<Released(c, "Compensate"), [Prepared EXCEPT !.release = TRUE, !.recovery = c.identity]>>,
        <<Released(c, "Persistent"), [Prepared EXCEPT !.recovery = c.identity]>>}
  ELSE {}

Finish ==
  /\ \E c \in chain : \E t \in RunTerminal(c) \cup ReleaseTerminal(c) \cup ServeTerminal(c)
                               \cup EffectTerminal(c) :
       Set(c.b, Commit(builders[c.b], t[1], t[2]))
  /\ chain' = {}
  /\ UNCHANGED <<plans, refused, nextPlan, menu>>

(* The author forgets the chain: its declaration stays reserved.           *)
Drop ==
  /\ \E c \in chain : May(c.b, "drop")
  /\ chain' = {}
  /\ UNCHANGED <<builders, plans, refused, nextPlan, menu>>

Next ==
  \/ StartBuilder \/ Bind \/ Extend \/ Finish \/ Drop
  \/ \E b \in DOMAIN builders :
       \/ DeclareImport(b) \/ DeclarePort(b) \/ DeclareJoin(b) \/ DeclareChild(b)
       \/ DeclareSpawns(b) \/ DeclarePool(b) \/ Export(b) \/ Build(b) \/ Begin(b)

Spec == Init /\ [][Next]_vars
=============================================================================
