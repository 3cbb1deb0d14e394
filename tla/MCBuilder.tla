----------------------------- MODULE MCBuilder -----------------------------
(***************************************************************************)
(* What the authors of the checked instances write.                        *)
(***************************************************************************)
EXTENDS BuilderProperties

Nothing ==
  [kinds |-> {}, calls |-> {}, spend |-> 0, width |-> 1, ops |-> {}, size |-> 2, pools |-> 0,
   after |-> 0, limits |-> {1}, stops |-> {}, ambiguity |-> {"report"}, shutdowns |-> {{1}},
   modes |-> {"Resident"}]

(* One plan of two chains: every kind, attributes in any order and twice,  *)
(* chains forgotten at every stage.                                        *)
Chains ==
  <<[Nothing EXCEPT
      !.kinds = ChainKinds,
      !.calls = {"needs", "idempotent", "cancel", "exclusive", "limit", "stop_within",
                 "identified_by"},
      !.spend = 2, !.ops = {"drop"}, !.size = 3, !.pools = 1, !.stops = {1},
      !.ambiguity = {"report", "recover"}, !.modes = {"Finite", "Resident"}]>>

(* A parent, a child begun inside it that imports from it, and a root that *)
(* mounts them: resources exported and imported at any level.              *)
Mounts ==
  <<[Nothing EXCEPT
      !.kinds = {"Resource"}, !.ops = {"component", "export"}, !.size = 3],
    [Nothing EXCEPT
      !.ops = {"import", "join", "export"}, !.size = 3],
    [Nothing EXCEPT
      !.ops = {"component", "export"}, !.size = 3, !.modes = {"Finite"}, !.after = 2]>>

(* A definition with a formal port, bound or not, mounted in its parent.   *)
Ports ==
  <<[Nothing EXCEPT !.kinds = {"Resource"}, !.ops = {"component", "input", "template"}, !.size = 4],
    [Nothing EXCEPT
      !.kinds = {"Step"}, !.calls = {"needs"}, !.ops = {"port", "import"}, !.size = 3]>>

(* Services three mounts deep under every order of budgets.                *)
Budgets ==
  <<[Nothing EXCEPT
      !.kinds = {"Service"}, !.calls = {"stop_within"}, !.spend = 1, !.stops = {1, 2},
      !.shutdowns = {{}, {1}, {2}}],
    [Nothing EXCEPT
      !.kinds = {"Service"}, !.calls = {"stop_within"}, !.spend = 1, !.stops = {1, 2},
      !.ops = {"component", "template"}, !.size = 3, !.shutdowns = {{}, {1}, {2}},
      !.modes = {"Finite", "Resident"}],
    [Nothing EXCEPT
      !.ops = {"component"}, !.shutdowns = {{}, {1}, {2}}]>>

(* Services and steps that spawn templates, in the chain and late, whose   *)
(* plan imports from the spawner's scope.                                  *)
Spawners ==
  <<[Nothing EXCEPT
      !.kinds = {"Service"}, !.calls = {"spawns"}, !.spend = 1,
      !.ops = {"template", "late", "foreign"}, !.size = 4],
    [Nothing EXCEPT
      !.kinds = {"Step"}, !.calls = {"needs"}, !.ops = {"import", "join", "foreign"},
      !.size = 3]>>

Authors == {Chains, Mounts, Ports, Budgets, Spawners}

(* A service, a resource and a template that may import either.            *)
Early ==
  <<[Nothing EXCEPT
      !.kinds = {"Service", "Resource"}, !.calls = {"needs"},
      !.ops = {"template", "late"}, !.size = 4],
    [Nothing EXCEPT
      !.kinds = {"Step"}, !.calls = {"needs"}, !.ops = {"import"}, !.size = 3]>>

(* Two pools, and steps and services on them.                              *)
Pooled ==
  <<[Nothing EXCEPT
      !.kinds = {"Step", "Service"}, !.calls = {"limit"}, !.spend = 4, !.size = 5,
      !.pools = 2]>>

EarlyAuthors == {Early}
PooledAuthors == {Pooled}
=============================================================================
