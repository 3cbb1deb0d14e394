------------------------------- MODULE Driver -------------------------------
(***************************************************************************)
(* The run driver of sdax-tokio composed with the engine: the tasks the    *)
(* runtime polls for the bodies, the mailbox they and the timers and the   *)
(* requests send to, and the loop that feeds the engine one message at a   *)
(* time and performs what it asks for.  Machine's body is what the engine  *)
(* asked for; task, live and mail are what the host really has.            *)
(***************************************************************************)
EXTENDS MachineProperties, Sequences

CONSTANT MaxRequests      \* requests made from outside in one run

VARIABLES
  live,     \* Node -> the current attempt: its epoch, its context, its task's handle
  task,     \* the tasks of bodies that have not ended
  mail,     \* the mailbox of the driver
  bank,     \* Node -> epoch of the attempt whose value is in the slot, 0 for none
  refused,  \* events the engine refused
  asked     \* requests made so far

hostVars == <<live, task, mail, bank, refused, asked>>
driverVars == <<vars, hostVars>>

(* cx: nothing, an output of a step or service, a registered acquisition,  *)
(* or a value already handed over.                                         *)
Live ==
  [epoch : Nat, cx : {"empty", "output", "held", "taken"}, acquired : BOOLEAN,
   handle : BOOLEAN]

Task ==
  [node : Node, epoch : Nat, phase : {"run", "serve", "cleanup"}, polled : BOOLEAN,
   aborted : {"no", "yes", "last"}]

BodyEvents == {"Started", "Held", "Ok", "Err", "Cancelled", "ServeOk", "ServeErr"}

FromBody(t, ev) == [node |-> t.node, epoch |-> t.epoch, phase |-> t.phase, ev |-> ev]

(* An id is never used twice, and an attempt or episode arms a timer of a  *)
(* purpose once, so that these name it.                                    *)
TimerOf(n) ==
  [timer |-> slot[n].timer, node |-> n, attempt |-> slot[n].attempt,
   restarts |-> slot[n].restarts]

ScopeTimer(purpose) == [timer |-> purpose, node |-> 0, attempt |-> 0, restarts |-> 0]
RequestOf(cause) == [request |-> cause]

IsTimer(m) == "timer" \in DOMAIN m
IsRequest(m) == "request" \in DOMAIN m
IsBody(m) == "ev" \in DOMAIN m

InMail(P(_)) == \E i \in DOMAIN mail : P(mail[i])

DriverInit ==
  /\ Init
  /\ live = [n \in Node |-> [epoch |-> 0, cx |-> "empty", acquired |-> FALSE,
                             handle |-> FALSE]]
  /\ task = {} /\ mail = <<>> /\ bank = [n \in Node |-> 0]
  /\ refused = {} /\ asked = 0

-----------------------------------------------------------------------------
(* Effects: what the engine asked for in this step is in body'.            *)

SpawnAsked(n) ==
  /\ body'[n].phase # "none"
  /\ \/ body'[n].phase # body[n].phase
     \/ body'[n].phase = "run" /\ slot'[n].attempt # slot[n].attempt
     \/ body'[n].phase = "serve" /\ slot'[n].restarts # slot[n].restarts

AbortAsked(n) == body'[n].aborted /\ ~ body[n].aborted

(* MUTANT of EpochFor: a cleanup opens an epoch of its own.                *)
AlwaysFresh(n, phase) == live[n].epoch + 1

(* A cleanup belongs to the attempt it follows.                            *)
EpochFor(n, phase) ==
  IF phase = "cleanup" /\ live[n].epoch # 0 THEN live[n].epoch ELSE live[n].epoch + 1

Fresh(n) ==
  [node |-> n, epoch |-> EpochFor(n, body'[n].phase), phase |-> body'[n].phase,
   polled |-> FALSE, aborted |-> "no"]

(* MUTANT of Aborts: the handle is dropped and the task left to itself.     *)
Detaches(t) == FALSE

(* The handle can be taken once; the second abort of a task does nothing.  *)
Aborts(t) == AbortAsked(t.node) /\ live[t.node].handle /\ t.epoch = live[t.node].epoch

(* lv is live after the handler's own books.                               *)
Perform(lv) ==
  LET spawned == {n \in Node : SpawnAsked(n)} IN
  /\ live' = [n \in Node |->
       CASE n \in spawned -> [epoch |-> EpochFor(n, body'[n].phase), cx |-> "empty",
                              acquired |-> FALSE, handle |-> TRUE]
         [] n \notin spawned /\ AbortAsked(n) -> [lv[n] EXCEPT !.handle = FALSE]
         [] OTHER -> lv[n]]
  /\ task' = {IF Aborts(t) THEN [t EXCEPT !.aborted = "yes"] ELSE t : t \in task}
               \cup {Fresh(n) : n \in spawned}

-----------------------------------------------------------------------------
(* The loop.                                                               *)

(* A terminal body event hands over what the attempt registered, before    *)
(* the engine acts on it.                                                  *)
Settled(m) == m.ev \in {"Ok", "Err", "Cancelled"} /\ live[m.node].cx \in {"output", "held"}

(* What the handlers of the engine accept.                                 *)
Accepts(m) ==
  LET st == slot[m.node].st IN
  CASE m.ev = "Started" -> st \in {"Running", "Abandoned"}
    [] m.ev = "Held" -> st = "Running" /\ CanHold(m.node)
    [] m.ev = "Cancelled" -> st \in {"Running", "Abandoned"}
    [] m.ev \in {"Ok", "Err"} ->
         \/ st \in {"Running", "Releasing", "Compensating", "RetryRelease", "Abandoned"}
         \/ Decl(m.node).kind = "BlockingStep"
    [] m.ev \in {"ServeOk", "ServeErr"} ->
         IsService(m.node) /\ st \in {"Ready", "Stopping", "Abandoned", "Finished", "Failed"}

EngineStep(m) ==
  LET n == m.node IN
  CASE m.ev = "Started" -> UNCHANGED vars
    [] m.ev = "Held" -> BodyHeld(n)
    [] m.ev = "Cancelled" -> BodyCancelled(n, live[n].acquired) \/ AbandonedTaskEnds(n)
    [] m.ev \in {"Ok", "Err"} ->
         \/ BodyReturns(n, m.ev = "Ok") \/ CleanupReturns(n, m.ev = "Ok")
         \/ RetryReleaseReturns(n, m.ev = "Ok") \/ AbandonedTaskEnds(n)
    [] m.ev \in {"ServeOk", "ServeErr"} ->
         \/ ServingEnds(n, m.ev = "ServeOk") \/ ServiceStops(n, m.ev = "ServeOk")
         \/ AbandonedTaskEnds(n)

IsCurrent(m) == m.epoch = live[m.node].epoch

HandleBody(m) ==
  IF ~ IsCurrent(m) THEN UNCHANGED <<vars, live, task, bank, refused>>
  ELSE LET banks == Settled(m)
           lv == [live EXCEPT ![m.node].cx = IF banks THEN "taken" ELSE @]
       IN /\ bank' = [bank EXCEPT ![m.node] = IF banks THEN m.epoch ELSE @]
          /\ IF Accepts(m)
             THEN EngineStep(m) /\ refused' = refused
             ELSE UNCHANGED vars /\ refused' = refused \cup {<<m.ev, slot[m.node].st>>}
          /\ Perform(lv)

(* A timer the engine has dropped since is not an error.                   *)
HandleTimer(m) ==
  /\ CASE m = ScopeTimer("Budget") -> BudgetExpires
       [] m = ScopeTimer("Zero") /\ scope.zero -> ZeroExpires
       [] m = ScopeTimer("Zero") /\ ~ scope.zero -> UNCHANGED vars
       [] m.node # 0 ->
            IF m = TimerOf(m.node) THEN Timers(m.node) ELSE UNCHANGED vars
  /\ Perform(live) /\ UNCHANGED <<bank, refused>>

HandleRequest(m) ==
  /\ IF Admits(Here) THEN Request(m.request) ELSE UNCHANGED vars
  /\ Perform(live) /\ UNCHANGED <<bank, refused>>

Publishing == \E n \in Node : slot[n].publishing

Free == scope.st # "Planned" /\ ~ Ended /\ ~ Publishing

Handle ==
  /\ Free /\ mail # <<>>
  /\ mail' = Tail(mail) /\ asked' = asked
  /\ LET m == Head(mail) IN
     \/ IsBody(m) /\ HandleBody(m)
     \/ IsTimer(m) /\ HandleTimer(m)
     \/ IsRequest(m) /\ HandleRequest(m)

(* The host's value transfers are answered before anything else is read.   *)
AcknowledgeNext ==
  /\ Publishing
  /\ \E n \in Node, ok \in BOOLEAN : Acknowledged(n, ok)
  /\ Perform(live) /\ UNCHANGED <<mail, bank, refused, asked>>

(* Requests made before the first poll come before the ship boundary.      *)
Boot ==
  /\ scope.st = "Planned"
  /\ IF mail = <<>> THEN Begin ELSE Request(Head(mail).request)
  /\ mail' = <<>>
  /\ Perform(live) /\ UNCHANGED <<bank, refused, asked>>

-----------------------------------------------------------------------------
(* The runtime.  What is sent after the end is never read.                 *)

Send(messages) == mail' = IF Ended THEN mail ELSE mail \o messages

(* The engine hears of a task that outlives the run only in the model.     *)
Outlived(n) == IF Ended THEN AbandonedTaskEnds(n) ELSE UNCHANGED vars

(* MUTANT of OutcomeEvent: a serve future is answered for like a body.      *)
OneOutcome(t, ends) == ends

OutcomeEvent(t, ends) ==
  IF t.phase # "serve" THEN ends ELSE IF ends = "Ok" THEN "ServeOk" ELSE "ServeErr"

(* What one poll of the wrapper sends, in order.                           *)
Reported(t, registers, ends) ==
  (IF t.phase = "run" /\ ~ t.polled THEN <<FromBody(t, "Started")>> ELSE <<>>)
    \o (IF registers THEN <<FromBody(t, "Held")>> ELSE <<>>)
    \o (IF ends = "no" THEN <<>> ELSE <<FromBody(t, OutcomeEvent(t, ends))>>)

(* MUTANT of Remains: the join of an aborted task reports a cancel even if *)
(* the task had answered by itself.                                        *)
AlwaysJoined(t, ends) ==
  IF ends # "no" /\ t.aborted = "no" THEN {}
  ELSE {[t EXCEPT !.polled = TRUE, !.aborted = IF @ = "yes" THEN "last" ELSE @]}

(* An abort that lands during a poll lets that poll finish; a task that    *)
(* ends in it is joined as done, and its own answer stands.                *)
Remains(t, ends) ==
  IF ends # "no" THEN {}
  ELSE {[t EXCEPT !.polled = TRUE, !.aborted = IF @ = "yes" THEN "last" ELSE @]}

(* One poll of a body, or what a thread does next.  A body that returns a  *)
(* held value has registered it, by the type of its terminal.              *)
Poll(t, registers, ends) ==
  LET n == t.node
      returns == t.phase = "run" /\ ends = "Ok"
  IN
  /\ t \in task /\ t.aborted # "last"
  /\ ~ t.polled \/ registers \/ ends # "no"
  /\ registers => t.phase = "run" /\ CanHold(n) /\ ~ live[n].acquired
  /\ returns /\ CanHold(n) => live[n].acquired \/ registers
  /\ Send(Reported(t, registers, ends))
  /\ task' = (task \ {t}) \cup Remains(t, ends)
  /\ live' = IF registers
             THEN [live EXCEPT ![n].cx = "held", ![n].acquired = TRUE]
             ELSE IF returns /\ ~ CanHold(n) THEN [live EXCEPT ![n].cx = "output"]
             ELSE live
  /\ IF ends # "no" THEN Outlived(n) ELSE UNCHANGED vars
  /\ UNCHANGED <<bank, refused, asked>>

(* The aborted task is gone, and the task that joins it says so.           *)
JoinAborted(t) ==
  /\ t \in task /\ t.aborted # "no"
  /\ task' = task \ {t}
  /\ Send(<<FromBody(t, "Cancelled")>>)
  /\ Outlived(t.node)
  /\ UNCHANGED <<live, bank, refused, asked>>

(* A timer's task sends its id once; cancelling it is dropping the task.   *)
Fire(armed, id) ==
  /\ armed /\ ~ Ended /\ ~ InMail(LAMBDA m : m = id)
  /\ Send(<<id>>)
  /\ UNCHANGED <<vars, live, task, bank, refused, asked>>

FireNode(n) == Fire(slot[n].timer # "none", TimerOf(n))
FireBudget == Fire(scope.budget, ScopeTimer("Budget"))
FireZero == Fire(scope.zero, ScopeTimer("Zero"))

(* shutdown(), cancel(), and the drop of a live Running.                   *)
Ask(cause) ==
  /\ ~ Ended /\ asked < MaxRequests
  /\ asked' = asked + 1
  /\ Send(<<RequestOf(cause)>>)
  /\ UNCHANGED <<vars, live, task, bank, refused>>

(* What is left in the mailbox is dropped with the driver.                 *)
Discard ==
  /\ Ended /\ mail # <<>>
  /\ mail' = Tail(mail)
  /\ LET m == Head(mail) IN
     IF IsBody(m) /\ m.ev \notin {"Started", "Held"} THEN Outlived(m.node) ELSE UNCHANGED vars
  /\ UNCHANGED <<live, task, bank, refused, asked>>

Finished == Ended /\ task = {} /\ mail = <<>> /\ UNCHANGED driverVars

PollAny(n) ==
  \E t \in task, registers \in BOOLEAN, ends \in {"no", "Ok", "Err"} :
    t.node = n /\ Poll(t, registers, ends)

JoinAny(n) == \E t \in task : t.node = n /\ JoinAborted(t)

DriverNext ==
  \/ Boot \/ Handle \/ AcknowledgeNext \/ Discard
  \/ \E n \in Node : PollAny(n) \/ JoinAny(n) \/ FireNode(n)
  \/ FireBudget \/ FireZero
  \/ \E cause \in {"Shutdown", "Cancel"} : Ask(cause)
  \/ Finished

DriverSpec == DriverInit /\ [][DriverNext]_driverVars

(* Something is there for the driver to do.                                *)
LoopReady == scope.st = "Planned" \/ Publishing \/ mail # <<>>

EndAny(n) ==
  \/ JoinAny(n)
  \/ \E t \in task, registers \in BOOLEAN, ends \in {"Ok", "Err"} :
       t.node = n /\ Poll(t, registers, ends)

(* The executor runs the driver and the joins, the clock delivers timers,  *)
(* and every body's future ends if it is polled for long enough.  A run    *)
(* has finitely many steps, so that a driver that is never starved is one  *)
(* that always comes to have nothing to do.                                *)
DriverFairness ==
  /\ []<>(~ LoopReady)
  /\ WF_driverVars(FireBudget) /\ WF_driverVars(FireZero)
  /\ \A n \in Node : WF_driverVars(EndAny(n)) /\ WF_driverVars(FireNode(n))

FairDriverSpec == DriverSpec /\ DriverFairness
=============================================================================
