---------------------------- MODULE MCCompaction ----------------------------
(***************************************************************************)
(* A service that spawns instances of plan C, each with a service, a       *)
(* component and a template of its own, spawned from inside.               *)
(***************************************************************************)
EXTENDS CompactionProperties

A(kind) == [kind |-> kind, needs |-> {}, exclusive |-> {}, shared |-> {}, spawns |-> {},
            child |-> None, source |-> NoKey]

(* Not in the order of their names. *)
IdsDef == <<2, 3, 1>>

PlansDef == <<
  (* 1: the run *)
  << [A("Resource") EXCEPT !.kind = "Resource"],                                  \* Endpoint
     [A("Service") EXCEPT !.needs = {<<1, 1>>}, !.spawns = {<<1, 3>>}],           \* Acceptor
     [A("Template") EXCEPT !.child = 2] >>,
  (* 2: one connection *)
  << [A("Import") EXCEPT !.source = <<1, 1>>],
     [A("Import") EXCEPT !.source = <<1, 2>>],
     [A("Service") EXCEPT !.needs = {<<2, 1>>, <<2, 2>>}, !.shared = {<<2, 1>>},
                          !.spawns = {<<2, 5>>}],
     [A("Component") EXCEPT !.child = 3],
     [A("Template") EXCEPT !.child = 4] >>,
  (* 3: the inside of its component *)
  << [A("Import") EXCEPT !.source = <<2, 3>>],
     [A("Resource") EXCEPT !.needs = {<<3, 1>>}, !.exclusive = {<<3, 1>>}] >>,
  (* 4: one request of the connection *)
  << [A("Import") EXCEPT !.source = <<2, 3>>],
     [A("Resource") EXCEPT !.needs = {<<4, 1>>}, !.exclusive = {<<4, 1>>}] >> >>
=============================================================================
