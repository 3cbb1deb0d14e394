-------------------------- MODULE DriverProperties --------------------------
(***************************************************************************)
(* What the driver owes the engine, and what it owes the bodies.           *)
(***************************************************************************)
EXTENDS Driver

Answers(n) ==
  {i \in DOMAIN mail : /\ IsBody(mail[i]) /\ mail[i].node = n
                       /\ mail[i].ev \notin {"Started", "Held"}}

(* The task of n as the host knows it: it runs, or its answer is queued.   *)
HostBody ==
  [n \in Node |->
     LET phases == {t.phase : t \in {u \in task : u.node = n}}
                     \cup {mail[i].phase : i \in Answers(n)}
     IN IF phases = {} THEN [phase |-> "none", aborted |-> FALSE]
        ELSE [phase |-> CHOOSE p \in phases : TRUE, aborted |-> ~ live[n].handle]]

AsSeen == INSTANCE MachineProperties WITH body <- HostBody

(* T5, INV-12, INV-15: with the tasks and the queued answers in the place  *)
(* of what it asked for, the engine is a behaviour of Machine, and all     *)
(* that Machine's liveness assumes of its host comes true: a task is       *)
(* answered once, by its own outcome or by its join, whatever raced.       *)
ImplementsMachine == AsSeen!FairSpec

(* D1 (driver/observer.rs): nothing makes the engine refuse an event that  *)
(* this driver feeds it.                                                   *)
NothingRefused == refused = {}

(* No outcome, join, timer, request or acknowledgement the driver feeds is *)
(* ever misplaced: what the engine refuses is a registration of a body it  *)
(* abandoned, and nothing else.  body.rs: no attempt starts while an       *)
(* answer of the one before is out, so an epoch never has to tell two      *)
(* attempts of a node apart.                                               *)
NothingMisplaced ==
  /\ refused \subseteq {<<"Held", "Abandoned">>}
  /\ \A i \in DOMAIN mail : IsBody(mail[i]) => IsCurrent(mail[i])

(* INV-3: a body finds the value of everything it needs in the slots, and  *)
(* a release finds the value its own attempt acquired: it was handed over  *)
(* before the engine heard of the outcome.                                 *)
ValuesInPlace ==
  [][\A n \in Node :
       /\ StartsAttempt(n) =>
            \A d \in Decl(n).needs : Decl(d).kind # "Join" => bank'[d] # 0
       /\ StartsCleanup(n) /\ slot'[n].held => bank'[n] = live'[n].epoch]_driverVars

(* INV-15: a run leaves no task behind that it did not record as           *)
(* abandoned, and none it could have aborted and did not.                  *)
NothingLeaks ==
  Ended => \A t \in task :
    /\ slot[t.node].st = "Abandoned"
    /\ t.aborted = "no" => Decl(t.node).kind = "BlockingStep"
=============================================================================
