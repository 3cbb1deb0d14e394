------------------------------ MODULE MCBodies ------------------------------
(***************************************************************************)
(* Two plans.  In the run of A, instances of one template each hold a      *)
(* resource, a component that imports it and exports another, and a step   *)
(* that needs the export; both resources are released by dropping, and the *)
(* first may be attempted twice.  In the run of B a resource and an effect *)
(* are attempted twice, a component passes what it imports through, and an *)
(* instance spawns another.                                                *)
(***************************************************************************)
EXTENDS BodiesProperties, TLC

D(plan, kind, needs, source) ==
  [plan |-> plan, kind |-> kind, needs |-> needs, source |-> source]

Layout ==
  "sv" :> D("A", "Service", {}, "-") @@ "t" :> D("A", "Template", {}, "-")
    @@ "pin" :> D("A1", "Input", {}, "-") @@ "q" :> D("A1", "Resource", {"pin"}, "-")
    @@ "c" :> D("A1", "Component", {"q"}, "-") @@ "w" :> D("A1", "Step", {"c"}, "-")
    @@ "j" :> D("A1", "Join", {"w"}, "-") @@ "y" :> D("A1", "Step", {"j", "c"}, "-")
    @@ "iq" :> D("A2", "Import", {}, "q") @@ "e" :> D("A2", "Resource", {"iq"}, "-")
    @@ "r" :> D("B", "Resource", {}, "-") @@ "sw" :> D("B", "Service", {}, "-")
    @@ "u" :> D("B", "Template", {}, "-") @@ "d" :> D("B", "Component", {"r"}, "-")
    @@ "kr" :> D("B1", "Import", {}, "r")
    @@ "ir" :> D("B2", "Import", {}, "r") @@ "id" :> D("B2", "Import", {}, "d")
    @@ "x" :> D("B2", "Service", {}, "-") @@ "f" :> D("B2", "Effect", {"ir", "id"}, "-")
    @@ "v" :> D("B2", "Template", {}, "-")
    @@ "if" :> D("B3", "Import", {}, "f") @@ "z" :> D("B3", "Step", {"if"}, "-")

MCPlanOf == [k \in DOMAIN Layout |-> Layout[k].plan]
MCKind == [k \in DOMAIN Layout |-> Layout[k].kind]
MCNeeds == [k \in DOMAIN Layout |-> Layout[k].needs]
MCSource == [k \in DOMAIN Layout |-> Layout[k].source]
MCChild == "t" :> "A1" @@ "c" :> "A2" @@ "u" :> "B2" @@ "d" :> "B1" @@ "v" :> "B3"
MCExport ==
  "A" :> "-" @@ "A1" :> "-" @@ "A2" :> "e"
    @@ "B" :> "-" @@ "B1" :> "kr" @@ "B2" :> "-" @@ "B3" :> "-"
MCByDrop == {"q", "e"}
MCIdentity == [k \in DOMAIN Layout |-> IF k = "f" THEN "id" ELSE "-"]
MCSpawns ==
  [k \in DOMAIN Layout |->
     CASE k = "sv" -> {"t"} [] k = "sw" -> {"u"} [] k = "x" -> {"v"} [] OTHER -> {}]
MCFlaky == {"r", "f", "q"}
=============================================================================
