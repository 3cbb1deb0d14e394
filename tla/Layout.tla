------------------------------- MODULE Layout -------------------------------
(***************************************************************************)
(* The run table a plan is compiled to when it is built (engine/table.rs): *)
(* one flat list of nodes over a tree of scopes, imports resolved to what  *)
(* they stand for.  A lookup that finds nothing drops its key silently, so *)
(* validation alone makes the table true to the declaration.               *)
(***************************************************************************)
EXTENDS Declaration

NoTable == [nodes |-> <<>>, scopes |-> <<>>, map |-> <<>>]

(* Key lookup, searched from the end.                                      *)
Lookup(map, k) ==
  LET at == {i \in DOMAIN map : map[i][1] = k}
  IN  IF at = {} THEN {} ELSE {map[CHOOSE i \in at : \A j \in at : j <= i][2]}

Resolve(map, keys) == FlattenSeq([i \in DOMAIN keys |-> SetToSeq(Lookup(map, keys[i]))])

(* Vec::dedup drops a repetition only next to its first.                   *)
Dedup(list) ==
  LET kept == SelectSeq([i \in DOMAIN list |-> i], LAMBDA i : i = 1 \/ list[i] # list[i - 1])
  IN  [i \in DOMAIN kept |-> list[kept[i]]]

FlatNode(t, n, scope) ==
  [decl |-> n.key, kind |-> n.kind, scope |-> scope, child |-> n.child, spawns |-> n.spawns,
   needs |-> Dedup(Resolve(t.map, n.needs)),
   exclusive |-> Resolve(t.map, n.attrs.exclusive),
   shared |-> Resolve(t.map, n.attrs.shared),
   pool |-> IF n.attrs.limit # {} THEN n.attrs.limit ELSE n.attrs.pool]

RECURSIVE Flatten(_, _, _)
(* Mutant: an input is supplied by the run even when a mount binds it.     *)
InputNeverWaits(t, n, scope) ==
  IF n.kind = "Import"
  THEN [t EXCEPT !.map = @ \o
         SetToSeq({<<n.key, i>> : i \in UNION {Lookup(t.map, src) : src \in n.source}})]
  ELSE IF n.kind = "Input" THEN t
  ELSE LET flat == Len(t.nodes) + 1
           added == [t EXCEPT !.nodes = Append(@, FlatNode(t, n, scope)),
                              !.map = Append(@, <<n.key, flat>>)]
       IN  IF n.kind = "Component"
           THEN FoldLeft(LAMBDA u, c : Flatten(c, {scope}, u), added, SetToSeq(n.child))
           ELSE added

FlattenNode(t, n, scope) ==
  IF n.kind = "Import" \/ (n.kind = "Input" /\ n.source # {})
  THEN [t EXCEPT !.map = @ \o
         SetToSeq({<<n.key, i>> : i \in UNION {Lookup(t.map, src) : src \in n.source}})]
  ELSE IF n.kind = "Input" THEN t
  ELSE LET flat == Len(t.nodes) + 1
           added == [t EXCEPT !.nodes = Append(@, FlatNode(t, n, scope)),
                              !.map = Append(@, <<n.key, flat>>)]
       IN  IF n.kind = "Component"
           THEN FoldLeft(LAMBDA u, c : Flatten(c, {scope}, u), added, SetToSeq(n.child))
           ELSE added

Flatten(ir, parent, t) ==
  LET scope == Len(t.scopes) + 1
      begun == [t EXCEPT !.scopes =
                  Append(@, [mounted |-> ir.id, parent |-> parent, export |-> {}])]
      all == FoldLeft(LAMBDA u, n : FlattenNode(u, n, scope), begun, ir.nodes)
      export == UNION {Lookup(all.map, k) : k \in ir.export}
  IN  [all EXCEPT !.scopes[scope].export = export]

Rootable(ir) == \A n \in Range(ir.nodes) : n.kind # "Import"

BuildTable(ir) == Flatten(ir, {}, NoTable)

(* One instance of the template at a flat index, appended to the table.    *)
Instantiate(t, i) ==
  FoldLeft(LAMBDA u, c : Flatten(c, {t.nodes[i].scope}, u), t, SetToSeq(t.nodes[i].child))
=============================================================================
