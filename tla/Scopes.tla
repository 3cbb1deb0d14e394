------------------------------- MODULE Scopes -------------------------------
(***************************************************************************)
(* The engine over a tree of scopes: components, templates and instances.  *)
(* Module Machine keeps all of one scope; here the nodes are plainer       *)
(* (no effects, joins, threads, deadlines or parked faults) and what one   *)
(* scope does to another is kept: grants taken on imported resources,      *)
(* faults and settles that cross a boundary, release graphs that wait for  *)
(* each other, budgets that nest, and instances spawned and stopped while  *)
(* the rest runs.                                                          *)
(*                                                                         *)
(* The handlers call one another and re-enter themselves, so they are      *)
(* recursive operators from machine state to machine state, one for each   *)
(* function of host/engine; an action is one event.                        *)
(***************************************************************************)
EXTENDS ScopeTree

VARIABLES
  tree,      \* the immutable table
  slot,      \* Node -> bookkeeping of a row
  sc,        \* Scope -> bookkeeping of a scope
  queue,     \* the waiters of all scopes, by Slot::queued
  born,      \* the scopes that exist
  calls      \* spawns that passed the host's gate and are still in its queue

vars == <<tree, slot, sc, queue, born, calls>>

Node == DOMAIN tree.node
Scope == DOMAIN tree.scope

R(n) == tree.node[n]
P(s) == tree.scope[s]

Unstarted == {"Pending", "Waiting"}
CleanupStates == {"Releasing", "Stopping", "StoppingInstances"}

(* A slot's timer is none, Grace, Backoff or StopDeadline; publishing is    *)
(* publication_pending, started and everSpawned are a template's; closed is *)
(* history: the attempt has a terminal observation.  A scope's ended and    *)
(* outcome are those of the instance it is.                                 *)
Init ==
  /\ tree \in Trees
  /\ slot = [n \in Node |->
       [st |-> "Pending", attempt |-> 0, restarts |-> 0, initialized |-> FALSE, held |-> FALSE,
        granted |-> FALSE, cancelling |-> FALSE, signalled |-> FALSE, aborted |-> FALSE,
        timer |-> "none", publishing |-> FALSE, started |-> FALSE, everSpawned |-> FALSE,
        closed |-> FALSE]]
  /\ sc = [s \in Scope |->
       [st |-> "Planned", cause |-> "none", deadline |-> FALSE, budget |-> FALSE, zero |-> FALSE,
        spent |-> FALSE, faulted |-> FALSE, ended |-> FALSE, outcome |-> "none"]]
  /\ queue = <<>> /\ calls = {}
  /\ born = {s \in Scope : \A i \in Scope : tree.scope[i].template # 0 =>
                              ~ Encloses(tree, i, s)}

(* A step works on the state as a record, with the number of starts so far *)
(* (Machine::starts), and stores it once.                                  *)
Here == [slot |-> slot, sc |-> sc, queue |-> queue, born |-> born, starts |-> 0]

Become(m) ==
  /\ slot' = m.slot /\ sc' = m.sc /\ queue' = m.queue /\ born' = m.born
  /\ UNCHANGED tree

-----------------------------------------------------------------------------
(* Readers.                                                                *)

(* The members of a set of rows, or of scopes, in the order of the table.  *)
Table == [i \in 1 .. NNodes + NScopes |-> i]
Ascending(S) == SelectSeq(Table, LAMBDA i : i \in S)
RowsOf(s) == Ascending({n \in Node : R(n).scope = s})
BornScopes(m) == Ascending(m.born)
In(m, states) == {n \in Node : R(n).scope \in m.born /\ m.slot[n].st \in states}
Dependents(m, n) == {d \in Node : n \in R(d).needs /\ R(d).scope \in m.born}
IsService(n) == R(n).kind = "Service"
IsRoot(s) == P(s).component = 0 /\ P(s).template = 0
Admits(m, s) == m.sc[s].st \in {"Admitting", "Steady"}
LiveInstances(m, t) == {s \in m.born : P(s).template = t /\ ~ m.sc[s].ended}

NeedsReady(m, n) ==
  \A d \in R(n).needs : \/ IsService(d) /\ m.slot[d].initialized
                        \/ m.slot[d].st \in {"Ready", "Finished"}

Granted(m) == {n \in Node : m.slot[n].granted}
PoolUse(m, s) == Cardinality({h \in Granted(m) : R(h).scope = s /\ R(h).pooled})

(* MUTANT of GrantsAvailable: an imported resource is another lock.        *)
OwnScopeLocks(m, n) ==
  /\ \A h \in Granted(m) : R(h).scope = R(n).scope => R(h).exclusive \cap R(n).exclusive = {}
  /\ R(n).pooled => PoolUse(m, R(n).scope) < P(R(n).scope).limit

GrantsAvailable(m, n) ==
  /\ \A h \in Granted(m) : R(h).exclusive \cap R(n).exclusive = {}
  /\ R(n).pooled => PoolUse(m, R(n).scope) < P(R(n).scope).limit

Unsettled(m, s) ==
  \E n \in {x \in Node : R(x).scope = s} :
    \/ m.slot[n].st \in Unstarted \cup {"Backoff"} /\ ~ (IsService(n) /\ m.slot[n].initialized)
    \/ m.slot[n].st \in {"Running", "Publishing", "RetryRelease"}

-----------------------------------------------------------------------------
(* Chores shared by the handlers.                                          *)

Dequeue(m, n) == [m EXCEPT !.queue = SelectSeq(@, LAMBDA x : x # n)]
ReleaseGrants(m, n) == [m EXCEPT !.slot[n].granted = FALSE]
Skip(m, n) == Dequeue([m EXCEPT !.slot[n].st = "Skipped"], n)

RequestPublication(m, n) ==
  [m EXCEPT !.slot[n].st = "Publishing", !.slot[n].publishing = TRUE]

(* MUTANT of EndComponentAttempt: the attempt is left without an end.      *)
LeavesOpen(m, c) ==
  IF m.slot[c].st \notin {"Running", "Publishing"} THEN m
  ELSE [m EXCEPT !.slot[c].st = "Interrupted"]

(* INV-15: a component's own attempt ends with an observation.             *)
EndComponentAttempt(m, c) ==
  IF m.slot[c].st \notin {"Running", "Publishing"} THEN m
  ELSE [m EXCEPT !.slot[c].st = "Interrupted", !.slot[c].closed = TRUE]

(* A template that has admitted an instance is never skipped.              *)
KeepTemplateLive(m, n) ==
  IF R(n).kind = "Template" /\ m.slot[n].everSpawned /\ m.slot[n].st \in Unstarted
  THEN Dequeue([m EXCEPT !.slot[n].st = "Live"], n) ELSE m

(* MUTANT of ArmBudget: only the root has a clock.                         *)
RootOnly(m, s) ==
  IF m.sc[s].budget \/ m.sc[s].spent \/ ~ IsRoot(s) THEN m
  ELSE [m EXCEPT !.sc[s].deadline = P(s).bounded, !.sc[s].budget = P(s).bounded]

(* The budget of the root starts at its settle and that of a nested scope  *)
(* when its release graph opens; it never outlives the parent's.           *)
ArmBudget(m, s) ==
  IF m.sc[s].budget \/ m.sc[s].spent THEN m
  ELSE LET d == P(s).bounded \/ (P(s).parent # 0 /\ m.sc[P(s).parent].deadline) IN
       [m EXCEPT !.sc[s].deadline = d, !.sc[s].budget = d]

(* MUTANT of ArmZero: what starts after the budget is left running.        *)
NeverZero(m, s) == m

ArmZero(m, s) ==
  IF \E n \in Node : R(n).scope = s /\ m.slot[n].st \in {"Releasing", "Stopping", "RetryRelease"}
  THEN [m EXCEPT !.sc[s].zero = TRUE] ELSE m

(* In-flight bodies and unacknowledged publications, inner scopes and live *)
(* instances included.                                                     *)
RECURSIVE InFlight(_, _)
InFlight(m, s) ==
  \E n \in {x \in Node : R(x).scope = s} :
    \/ m.slot[n].publishing
    \/ R(n).inner = 0 /\ m.slot[n].st = "Running"
    \/ /\ R(n).inner # 0
       /\ \/ m.slot[n].st = "Running" /\ Admits(m, R(n).inner)
          \/ InFlight(m, R(n).inner)
    \/ /\ R(n).kind = "Template"
       /\ \E i \in LiveInstances(m, n) : Admits(m, i) \/ InFlight(m, i)

(* MUTANT of Owes: a component owes nothing of its own.                    *)
OwesWithoutInner(m, n) ==
  LET st == m.slot[n].st IN
  CASE R(n).kind = "Template" ->
         \/ st = "Live"
         \/ st \notin {"StoppingInstances", "Stopped", "Abandoned"} /\ m.slot[n].everSpawned
    [] R(n).kind = "Resource" -> st \in {"Ready", "Failed", "Interrupted"} /\ m.slot[n].held
    [] R(n).kind = "Service" -> st = "Ready"
    [] OTHER -> FALSE

(* An obligation exists and has not started.                               *)
Owes(m, n) ==
  LET st == m.slot[n].st IN
  CASE R(n).kind = "Template" ->
         \/ st = "Live"
         \/ st \notin {"StoppingInstances", "Stopped", "Abandoned"} /\ m.slot[n].everSpawned
    [] R(n).kind = "Resource" -> st \in {"Ready", "Failed", "Interrupted"} /\ m.slot[n].held
    [] R(n).kind = "Service" -> st = "Ready"
    [] R(n).kind = "Component" ->
         /\ st \in {"Ready", "Failed", "Interrupted"}
         /\ m.sc[R(n).inner].st # "Ended" /\ m.slot[n].started
    [] OTHER -> FALSE

(* MUTANT of BlocksRelease: a release or stop that runs does not hold it.  *)
IgnoresCleanups(m, d) ==
  \/ m.slot[d].publishing
  \/ m.slot[d].st \in Unstarted \cup {"Running", "Backoff", "RetryRelease"}
  \/ Owes(m, d)
  \/ R(d).kind = "Template" /\ LiveInstances(m, d) # {}

BlocksRelease(m, d) ==
  \/ m.slot[d].publishing
  \/ m.slot[d].st \in Unstarted \cup CleanupStates \cup {"Running", "Backoff", "RetryRelease"}
  \/ Owes(m, d)
  \/ R(d).kind = "Template" /\ LiveInstances(m, d) # {}

GateOpen(m, n) ==
  /\ ~ m.slot[n].publishing
  /\ \A d \in Dependents(m, n) : ~ BlocksRelease(m, d)

-----------------------------------------------------------------------------
(* The handlers call each other, down into the scopes inside and up to the *)
(* scope around.  A call is a tuple of its name and arguments; one         *)
(* procedure gives what it changes and the calls that follow it, and Run   *)
(* works the stack of calls off.                                           *)

Then(m, calls_) == [m |-> m, then |-> calls_]
Done(m) == Then(m, <<>>)

Each(op, rows) == [i \in DOMAIN rows |-> <<op, rows[i]>>]

(* op1 and then op2 for every row, row by row.                             *)
EachTwice(op1, op2, rows) ==
  FoldLeft(LAMBDA c, n : c \o <<<<op1, n>>, <<op2, n>>>>, <<>>, rows)

AfterCleanup == <<<<"AdmitAll">>, <<"Sweep">>>>

-----------------------------------------------------------------------------
(* T5: a scope stops admitting, and everything inside it with it.          *)

SettleInstance(m, i) ==
  Then(m, IF m.sc[i].st = "Planned" THEN <<<<"SkipScope", i>>>>
          ELSE <<<<"Settle", i, "Parent">>>>)

SettleInstances(m, t) == Each("SettleInstance", Ascending(LiveInstances(m, t)))

(* MUTANT of SettleOrSkipInner: a scope that never started stays planned.  *)
LeavesPlanned(m, n) ==
  Then(m, CASE R(n).kind = "Template" -> SettleInstances(m, n)
            [] R(n).inner # 0 /\ m.sc[R(n).inner].st # "Planned" ->
                 <<<<"Settle", R(n).inner, "Parent">>>>
            [] OTHER -> <<>>)

SettleOrSkipInner(m, n) ==
  Then(m, CASE R(n).kind = "Template" -> SettleInstances(m, n)
            [] R(n).inner # 0 -> IF m.sc[R(n).inner].st = "Planned"
                                 THEN <<<<"SkipScope", R(n).inner>>>>
                                 ELSE <<<<"Settle", R(n).inner, "Parent">>>>
            [] OTHER -> <<>>)

SkipScope(m, s) ==
  IF m.sc[s].st # "Planned" THEN Done(m)
  ELSE Then([m EXCEPT !.sc[s].st = "Ended"], Each("SkipRow", RowsOf(s)))

SkipRow(m, n) ==
  LET k == KeepTemplateLive(m, n) IN
  Then(IF k.slot[n].st \in Unstarted THEN Skip(k, n) ELSE k,
       IF R(n).inner # 0 THEN <<<<"SkipScope", R(n).inner>>>> ELSE <<>>)

(* Cancel what is in flight: a service's initializer is told and given its *)
(* stop budget, other bodies are dropped, a component settles as a scope.  *)
Interrupt(m, n) ==
  CASE m.slot[n].cancelling -> Done(m)
    [] R(n).kind = "Component" -> Then(m, <<<<"Inner", n>>, <<"EndAttempt", n>>>>)
    [] IsService(n) /\ ~ m.slot[n].cancelling ->
         Done([m EXCEPT !.slot[n] = [@ EXCEPT !.cancelling = TRUE, !.signalled = TRUE,
            !.timer = IF R(n).stopWithin \/ m.sc[R(n).scope].deadline THEN "Grace"
                      ELSE "none"]])
    [] OTHER -> Done([m EXCEPT !.slot[n] = [@ EXCEPT !.cancelling = TRUE, !.aborted = TRUE,
                                                     !.timer = "none"]])

(* MUTANT of SettleRow: the release between two attempts is dropped too.   *)
DropsCleanups(m, n) ==
  LET k == KeepTemplateLive(m, n)
      st == k.slot[n].st
  IN
  CASE st \in Unstarted -> Done(Skip(k, n))
    [] st = "RetryRelease" -> Done([k EXCEPT !.slot[n].st = "Abandoned"])
    [] st \in {"Running", "Publishing"} -> Interrupt(k, n)
    [] OTHER -> Done(k)

SettleRow(m, n) ==
  LET k == KeepTemplateLive(m, n)
      st == k.slot[n].st
  IN
  CASE st \in Unstarted -> Done(Skip(k, n))
    [] st = "Backoff" ->
         Done([k EXCEPT !.slot[n] = [@ EXCEPT !.st = "Interrupted", !.timer = "none",
            !.attempt = IF IsService(n) /\ k.slot[n].initialized THEN @ ELSE @ + 1]])
    [] st \in {"Running", "Publishing"} -> Interrupt(k, n)
    [] OTHER -> Done(k)

Settle(m, s, cause) ==
  IF ~ Admits(m, s) THEN Done(m)
  ELSE LET a == [m EXCEPT !.sc[s].st = "Settling", !.sc[s].cause = cause]
       IN Then(IF IsRoot(s) THEN ArmBudget(a, s)
               ELSE [a EXCEPT !.sc[s].deadline = a.sc[P(s).parent].deadline],
               EachTwice("SettleRow", "Inner", RowsOf(s)))

(* T4 under Isolate: the unstarted transitive dependents, in every scope.  *)
SkipDependents(m, n) == Then(m, Each("SkipDependent", Ascending(Dependents(m, n))))

SkipDependent(m, d) ==
  LET k == KeepTemplateLive(m, d) IN
  IF k.slot[d].st \in Unstarted
  THEN Then(Skip(k, d), <<<<"Inner", d>>, <<"SkipDependents", d>>>>) ELSE Done(k)

-----------------------------------------------------------------------------
(* T1: admission.  A component that starts admits its inner scope, and an  *)
(* inner scope that is steady makes its component publish.                 *)

Start(m, n) ==
  LET recovery == IsService(n) /\ m.slot[n].initialized
      clear == [m EXCEPT
        !.starts = @ + 1,
        !.slot[n] = [@ EXCEPT !.held = FALSE, !.cancelling = FALSE, !.signalled = FALSE,
           !.aborted = FALSE, !.started = TRUE, !.closed = FALSE, !.granted = TRUE,
           !.attempt = IF recovery THEN @ ELSE @ + 1,
           !.st = IF recovery THEN "Ready" ELSE "Running"]]
      m1 == Dequeue(clear, n)
      i == R(n).inner
  IN CASE R(n).kind = "Template" -> Done([ReleaseGrants(m1, n) EXCEPT !.slot[n].st = "Live"])
       [] R(n).kind = "Component" ->
            Then([m1 EXCEPT !.sc[i].st = "Admitting"], <<<<"Admit", i>>, <<"CheckSteady", i>>>>)
       [] OTHER -> Done(m1)

MoveTo(m, rows, st) == FoldLeft(LAMBDA x, n : [x EXCEPT !.slot[n].st = st], m, Ascending(rows))

(* Waiters that lost a need leave the queue; rows that became need-ready   *)
(* join it in declaration order.                                           *)
Enqueue(m, s) ==
  LET lost   == {n \in In(m, {"Waiting"}) : R(n).scope = s /\ ~ NeedsReady(m, n)}
      joined == {n \in In(m, {"Pending"}) : R(n).scope = s /\ NeedsReady(m, n)}
  IN [MoveTo(MoveTo(m, lost, "Pending"), joined, "Waiting") EXCEPT
        !.queue = SelectSeq(@, LAMBDA x : x \notin lost) \o Ascending(joined)]

(* What a row waits for: its locks, and its slot of the pool, written 0.    *)
Wants(n) == R(n).exclusive \cup (IF R(n).pooled THEN {0} ELSE {})

(* The rest of a pass over the waiters of s, the grants refused in it, and *)
(* whether it started anything.  An earlier start may have changed a waiter.*)
GrantPass(m, s, rest, blocked, started) ==
  IF rest = <<>> THEN Then(m, IF started THEN <<<<"AdmitPass", s>>>> ELSE <<>>)
  ELSE LET n == Head(rest) IN
       CASE m.slot[n].st # "Waiting" ->
              Then(m, <<<<"GrantPass", s, Tail(rest), blocked, started>>>>)
         [] m.slot[n].st = "Waiting" /\ Wants(n) \cap blocked = {} /\ GrantsAvailable(m, n) ->
              LET r == Start(m, n) IN
              Then(r.m, Append(r.then, <<"GrantPass", s, Tail(rest), blocked, TRUE>>))
         [] OTHER -> Then(m, <<<<"GrantPass", s, Tail(rest), blocked \cup Wants(n), started>>>>)

AdmitPass(m, s) ==
  IF m.sc[s].st # "Admitting" THEN Done(m)
  ELSE LET q == Enqueue(m, s) IN
       Then(q, <<<<"GrantPass", s, SelectSeq(q.queue, LAMBDA x : R(x).scope = s), {}, FALSE>>>>)

Admit(m, s) ==
  Then(IF m.sc[s].st = "Steady" THEN [m EXCEPT !.sc[s].st = "Admitting"] ELSE m,
       <<<<"AdmitPass", s>>>>)

CheckSteady(m, s) ==
  IF m.sc[s].st # "Admitting" \/ Unsettled(m, s) THEN Done(m)
  ELSE LET steady == [m EXCEPT !.sc[s].st = "Steady"] IN
       CASE IsRoot(s) /\ P(s).mode = "Finite" -> Then(steady, <<<<"Settle", s, "Finite">>>>)
         [] P(s).component # 0 /\ m.slot[P(s).component].st = "Running" ->
              Done(RequestPublication(steady, P(s).component))
         [] OTHER -> Done(steady)

(* Every scope that admits, to a fixpoint: a grant on an imported resource *)
(* may have been waited for anywhere.                                      *)
AdmitAll(m) == Then(m, Append(Each("AdmitScope", BornScopes(m)), <<"AdmitAgain", m.starts>>))

AdmitScope(m, s) ==
  Then(m, IF Admits(m, s) THEN <<<<"Admit", s>>, <<"CheckSteady", s>>>> ELSE <<>>)

AdmitAgain(m, starts) == Then(m, IF m.starts = starts THEN <<>> ELSE <<<<"AdmitAll">>>>)

-----------------------------------------------------------------------------
(* T6-T8: release graphs that wait for each other.                         *)

FinishTemplate(m, t) ==
  IF m.slot[t].st = "StoppingInstances" /\ LiveInstances(m, t) = {}
  THEN Then([m EXCEPT !.slot[t].st = "Stopped"], AfterCleanup) ELSE Done(m)

(* MUTANT of CauseIsCancel: whatever settled the parent counts.            *)
AnyParentCancels(m, s) == m.sc[s].cause \in {"Cancel", "Parent"}

RECURSIVE CauseIsCancel(_, _)
CauseIsCancel(m, s) ==
  \/ m.sc[s].cause = "Cancel"
  \/ m.sc[s].cause = "Parent" /\ P(s).parent # 0 /\ CauseIsCancel(m, P(s).parent)

InstanceOutcome(m, s) ==
  IF m.sc[s].faulted THEN "Failed" ELSE IF CauseIsCancel(m, s) THEN "Cancelled" ELSE "Ok"

(* MUTANT of EndInstance: the template is not told.                        *)
ForgetsTemplate(m, s) ==
  IF m.sc[s].ended THEN Done(m)
  ELSE Then([m EXCEPT !.sc[s].ended = TRUE, !.sc[s].outcome = InstanceOutcome(m, s)],
            AfterCleanup)

EndInstance(m, s) ==
  IF m.sc[s].ended THEN Done(m)
  ELSE Then([m EXCEPT !.sc[s].ended = TRUE, !.sc[s].outcome = InstanceOutcome(m, s)],
            <<<<"FinishTemplate", P(s).template>>>> \o AfterCleanup)

(* The release of a component opens: its attempt ends first, its inner     *)
(* scope settles, and the inner budget starts.                             *)
OpenComponent(m, c) ==
  IF m.slot[c].publishing THEN Done(m)
  ELSE Then(IF m.slot[c].st = "Releasing" THEN m
            ELSE [EndComponentAttempt(m, c) EXCEPT !.slot[c].st = "Releasing"],
            <<<<"Inner", c>>, <<"OpenInner", R(c).inner>>>>)

OpenInner(m, i) ==
  LET a == ArmBudget(m, i) IN
  IF a.sc[i].st = "Settling" /\ ~ InFlight(a, i)
  THEN Then([a EXCEPT !.sc[i].st = "Cleanup"], <<<<"Advance", i>>, <<"CheckEnd", i>>>>)
  ELSE Done(a)

StartObligation(m, n) ==
  CASE R(n).kind = "Resource" -> Done([m EXCEPT !.slot[n].st = "Releasing"])
    [] IsService(n) ->
         Done([m EXCEPT !.slot[n] = [@ EXCEPT !.st = "Stopping",
            !.timer = IF R(n).stopWithin \/ m.sc[R(n).scope].deadline THEN "StopDeadline"
                      ELSE @]])
    [] R(n).kind = "Component" -> Then(m, <<<<"OpenComponent", n>>>>)
    [] R(n).kind = "Template" ->
         Then([m EXCEPT !.slot[n].st = "StoppingInstances"],
              SettleInstances(m, n) \o <<<<"Sweep">>, <<"FinishTemplate", n>>>>)
    [] OTHER -> Done(m)

Oblige(m, n) == IF Owes(m, n) /\ GateOpen(m, n) THEN StartObligation(m, n) ELSE Done(m)

(* Passes over the rows until one changes nothing.                         *)
AdvanceCleanup(m, s) ==
  IF m.sc[s].st # "Cleanup" THEN Done(m) ELSE Then(m, <<<<"AdvancePass", s>>>>)

AdvancePass(m, s) == Then(m, Append(Each("Oblige", RowsOf(s)), <<"AdvanceAgain", s, m>>))

AdvanceAgain(m, s, before) ==
  IF m # before THEN Then(m, <<<<"AdvancePass", s>>>>)
  ELSE Done(IF m.sc[s].spent THEN ArmZero(m, s) ELSE m)

(* The attempts of components whose inner scopes are still end here.       *)
CloseAttempts(m, s) ==
  FoldLeft(
    LAMBDA x, n : IF /\ R(n).inner # 0 /\ x.slot[n].st = "Running"
                     /\ x.sc[R(n).inner].st = "Settling" /\ ~ InFlight(x, R(n).inner)
                  THEN EndComponentAttempt(x, n) ELSE x,
    m, RowsOf(s))

TrySettling(m, s) ==
  LET c == P(s).component
      closed == CloseAttempts(m, s)
      opened == [closed EXCEPT !.sc[s].st = "Cleanup"]
      graph == <<<<"Advance", s>>, <<"CheckEnd", s>>>>
  IN CASE InFlight(closed, s) -> Done(closed)
       [] ~ InFlight(closed, s) /\ P(s).template # 0 -> Then(ArmBudget(opened, s), graph)
       [] ~ InFlight(closed, s) /\ IsRoot(s) -> Then(opened, graph)
       [] ~ InFlight(closed, s) /\ c # 0 ->
            Then(closed, IF closed.slot[c].st = "Releasing" \/ GateOpen(closed, c)
                         THEN <<<<"OpenComponent", c>>>> ELSE <<<<"TryCleanup", P(s).parent>>>>)

TryCleanup(m, s) ==
  CASE m.sc[s].st = "Settling" -> TrySettling(m, s)
    [] m.sc[s].st = "Cleanup" -> Then(m, <<<<"Advance", s>>, <<"CheckEnd", s>>>>)
    [] OTHER -> Done(m)

CheckEnd(m, s) ==
  IF m.sc[s].st # "Cleanup" \/ \E n \in Node : R(n).scope = s /\ BlocksRelease(m, n)
  THEN Done(m)
  ELSE LET e == [m EXCEPT !.sc[s] = [@ EXCEPT !.st = "Ended", !.budget = FALSE, !.zero = FALSE]]
       IN CASE P(s).template # 0 -> Then(e, <<<<"EndInstance", s>>>>)
            [] IsRoot(s) -> Done(e)
            [] P(s).component # 0 ->
                 Then([e EXCEPT !.slot[P(s).component].st = "Released"], AfterCleanup)

Sweep(m) ==
  Then(m, Each("SweepScope", BornScopes(m)) \o Each("CheckEnd", Reverse(BornScopes(m))))

SweepScope(m, s) ==
  Then(m, CASE m.sc[s].st = "Settling" -> <<<<"TryCleanup", s>>>>
            [] m.sc[s].st = "Cleanup" -> <<<<"Advance", s>>>>
            [] OTHER -> <<>>)

(* MUTANT of AfterSettle: only the scope of the row is admitted again.     *)
OwnScopeOnly(m, n) ==
  LET s == R(n).scope IN Then(m, <<<<"Admit", s>>, <<"CheckSteady", s>>, <<"TryCleanup", s>>>>)

(* What follows every event that settles a row.                            *)
AfterSettle(m, n) ==
  LET s == R(n).scope IN
  Then(m, <<<<"Admit", s>>, <<"CheckSteady", s>>, <<"AdmitOthers">>, <<"TryCleanup", s>>>>)

AdmitOthers(m) == Then(m, IF Cardinality(m.born) > 1 THEN <<<<"AdmitAll">>>> ELSE <<>>)

-----------------------------------------------------------------------------
(* T7: abandonment.                                                        *)

Abandon(m, n) ==
  [ReleaseGrants(m, n) EXCEPT
     !.slot[n] = [@ EXCEPT !.st = "Abandoned", !.timer = "none", !.cancelling = FALSE,
                           !.granted = FALSE, !.aborted = TRUE]]

AbandonRow(m, n, bodies) ==
  IF \/ bodies /\ m.slot[n].st = "Running"
     \/ m.slot[n].st \in {"Releasing", "Stopping", "RetryRelease"}
  THEN Abandon(m, n) ELSE m

AbandonInstances(m, t) ==
  SettleInstances(m, t)
    \o FoldLeft(LAMBDA c, i : c \o <<<<"AbandonAll", i, TRUE>>, <<"SpendInstance", i>>>>, <<>>,
                Ascending(LiveInstances(m, t)))
    \o <<<<"AbandonTemplate", t>>>>

Spend(m, s) == [m EXCEPT !.sc[s].spent = TRUE]

AbandonTemplate(m, t) == IF m.slot[t].st = "StoppingInstances" THEN Abandon(m, t) ELSE m

AbandonNested(m, n, bodies) ==
  LET st == m.slot[n].st
      i == R(n).inner
  IN Then(m,
       CASE R(n).kind = "Template" ->
              IF LiveInstances(m, n) # {} \/ st = "StoppingInstances" THEN AbandonInstances(m, n)
              ELSE <<>>
         [] R(n).kind = "Component" ->
              IF \/ bodies /\ st = "Running"
                 \/ st = "Releasing"
                 \/ st \in {"Ready", "Failed", "Interrupted"} /\ m.sc[i].st # "Ended"
                      /\ m.slot[n].started
              THEN <<<<"Inner", n>>, <<"AbandonAll", i, TRUE>>, <<"Spend", i>>>> ELSE <<>>)

(* Ordinary rows first, in declaration order; then what nests, backwards.  *)
AbandonAll(m, s, bodies) ==
  LET nests(n) == R(n).kind \in {"Component", "Template"}
      nested == SelectSeq(Reverse(RowsOf(s)), nests)
  IN Then(FoldLeft(LAMBDA x, n : AbandonRow(x, n, bodies), m,
                   SelectSeq(RowsOf(s), LAMBDA n : ~ nests(n))),
          [j \in DOMAIN nested |-> <<"AbandonNested", nested[j], bodies>>])

(* Only the root and an instance may go straight to cleanup here; an inner *)
(* release opens through its component, when the gate allows.              *)
BudgetSpent(m, s) ==
  LET a == Spend(m, s) IN
  Then(IF a.sc[s].st = "Settling" /\ P(s).component = 0 /\ ~ InFlight(a, s)
       THEN [a EXCEPT !.sc[s].st = "Cleanup"] ELSE a, <<<<"Sweep">>>>)

-----------------------------------------------------------------------------
(* T4: faults.                                                             *)

(* Under an inner Isolate only the loss of the export reaches the parent.  *)
InnerFaultReaches(m, s) ==
  \/ P(s).policy = "FailFast"
  \/ /\ P(s).export # 0
     /\ m.slot[P(s).export].st \notin
          Unstarted \cup {"Running", "Backoff", "RetryRelease", "Publishing", "Ready", "Finished"}

ApplyPolicy(m, n) ==
  Then(m, IF P(R(n).scope).policy = "FailFast" THEN <<<<"Settle", R(n).scope, "Fault">>>>
          ELSE <<<<"SkipDependents", n>>>>)

ComponentFaulted(m, c) ==
  IF m.slot[c].st \notin {"Running", "Publishing", "Ready"} THEN Done(m)
  ELSE LET s == R(c).scope IN
       Then([m EXCEPT !.slot[c].st = "Failed", !.slot[c].closed = TRUE, !.sc[s].faulted = TRUE],
            <<<<"Inner", c>>, <<"Policy", c>>>>
              \o (IF P(s).component # 0 THEN <<<<"ComponentFaulted", P(s).component>>>>
                  ELSE <<>>)
              \o <<<<"AfterSettle", c>>>>)

(* MUTANT of FaultReaches: the component is told whatever its policy says. *)
AlwaysReaches(m, s) ==
  Then(m, IF P(s).component # 0 THEN <<<<"ComponentFaulted", P(s).component>>>> ELSE <<>>)

FaultReaches(m, s) ==
  Then(m, IF P(s).component # 0 /\ InnerFaultReaches(m, s)
          THEN <<<<"ComponentFaulted", P(s).component>>>> ELSE <<>>)

NodeFailed(m, n) ==
  LET s == R(n).scope IN
  Then([m EXCEPT !.slot[n].st = "Failed", !.sc[s].faulted = TRUE],
       <<<<"Policy", n>>, <<"FaultReaches", s>>, <<"AfterSettle", n>>>>)

Backoff(m, n) ==
  Then(IF R(n).zeroWait THEN [m EXCEPT !.slot[n].st = "Pending"]
       ELSE [m EXCEPT !.slot[n].st = "Backoff", !.slot[n].timer = "Backoff"],
       <<<<"AfterSettle", n>>>>)

FailAttempt(m, n) ==
  LET f == [ReleaseGrants(m, n) EXCEPT !.slot[n].timer = "none", !.slot[n].cancelling = FALSE]
  IN CASE ~ (f.slot[n].attempt < R(n).attempts /\ Admits(f, R(n).scope)) -> NodeFailed(f, n)
       [] f.slot[n].held -> Then([f EXCEPT !.slot[n].st = "RetryRelease"], <<<<"AfterSettle", n>>>>)
       [] OTHER -> Backoff(f, n)

FinishInterrupted(m, n) ==
  Then([ReleaseGrants(m, n) EXCEPT
          !.slot[n] = [@ EXCEPT !.st = "Interrupted", !.timer = "none", !.cancelling = FALSE,
                                !.signalled = FALSE]],
       <<<<"AfterSettle", n>>>>)

Ready(m, n) ==
  Then([m EXCEPT !.slot[n] = [@ EXCEPT !.st = "Ready", !.timer = "none",
          !.cancelling = FALSE, !.initialized = IsService(n),
          !.granted = IsService(n) /\ m.slot[n].granted]],
       <<<<"AfterSettle", n>>>>)

-----------------------------------------------------------------------------
(* One call, and the whole stack.                                          *)

Perform(m, c) ==
  CASE c[1] = "Inner"            -> SettleOrSkipInner(m, c[2])
    [] c[1] = "Settle"           -> Settle(m, c[2], c[3])
    [] c[1] = "SettleRow"        -> SettleRow(m, c[2])
    [] c[1] = "SettleInstance"   -> SettleInstance(m, c[2])
    [] c[1] = "SkipScope"        -> SkipScope(m, c[2])
    [] c[1] = "SkipRow"          -> SkipRow(m, c[2])
    [] c[1] = "SkipDependents"   -> SkipDependents(m, c[2])
    [] c[1] = "SkipDependent"    -> SkipDependent(m, c[2])
    [] c[1] = "EndAttempt"       -> Done(EndComponentAttempt(m, c[2]))
    [] c[1] = "Admit"            -> Admit(m, c[2])
    [] c[1] = "AdmitPass"        -> AdmitPass(m, c[2])
    [] c[1] = "GrantPass"        -> GrantPass(m, c[2], c[3], c[4], c[5])
    [] c[1] = "CheckSteady"      -> CheckSteady(m, c[2])
    [] c[1] = "AdmitAll"         -> AdmitAll(m)
    [] c[1] = "AdmitScope"       -> AdmitScope(m, c[2])
    [] c[1] = "AdmitAgain"       -> AdmitAgain(m, c[2])
    [] c[1] = "AdmitOthers"      -> AdmitOthers(m)
    [] c[1] = "TryCleanup"       -> TryCleanup(m, c[2])
    [] c[1] = "Advance"          -> AdvanceCleanup(m, c[2])
    [] c[1] = "AdvancePass"      -> AdvancePass(m, c[2])
    [] c[1] = "AdvanceAgain"     -> AdvanceAgain(m, c[2], c[3])
    [] c[1] = "Oblige"           -> Oblige(m, c[2])
    [] c[1] = "CheckEnd"         -> CheckEnd(m, c[2])
    [] c[1] = "Sweep"            -> Sweep(m)
    [] c[1] = "SweepScope"       -> SweepScope(m, c[2])
    [] c[1] = "OpenComponent"    -> OpenComponent(m, c[2])
    [] c[1] = "OpenInner"        -> OpenInner(m, c[2])
    [] c[1] = "EndInstance"      -> EndInstance(m, c[2])
    [] c[1] = "FinishTemplate"   -> FinishTemplate(m, c[2])
    [] c[1] = "AbandonAll"       -> AbandonAll(m, c[2], c[3])
    [] c[1] = "AbandonNested"    -> AbandonNested(m, c[2], c[3])
    [] c[1] = "AbandonTemplate"  -> Done(AbandonTemplate(m, c[2]))
    [] c[1] = "Spend"            -> Done(Spend(m, c[2]))
    [] c[1] = "SpendInstance"    -> Done(ArmZero(Spend(m, c[2]), c[2]))
    [] c[1] = "BudgetSpent"      -> BudgetSpent(m, c[2])
    [] c[1] = "Policy"           -> ApplyPolicy(m, c[2])
    [] c[1] = "FaultReaches"     -> FaultReaches(m, c[2])
    [] c[1] = "ComponentFaulted" -> ComponentFaulted(m, c[2])
    [] c[1] = "NodeFailed"       -> NodeFailed(m, c[2])
    [] c[1] = "Backoff"          -> Backoff(m, c[2])
    [] c[1] = "AfterSettle"      -> AfterSettle(m, c[2])

RECURSIVE Run(_, _)
Run(m, stack) ==
  IF stack = <<>> THEN m
  ELSE LET r == Perform(m, Head(stack)) IN Run(r.m, r.then \o Tail(stack))

(* The handler of an event: what it changes first, and the calls it makes. *)
Becomes(r) == Become(Run(r.m, r.then))

-----------------------------------------------------------------------------
(* Events.                                                                 *)

Begun == sc[Root].st \notin {"Planned", "Ended"}

Begin ==
  /\ sc[Root].st = "Planned"
  /\ Becomes(Then([Here EXCEPT !.sc[Root].st = "Admitting"],
                  <<<<"Admit", Root>>, <<"CheckSteady", Root>>, <<"TryCleanup", Root>>>>))
  /\ UNCHANGED calls

Request(cause) ==
  /\ Admits(Here, Root)
  /\ Becomes(Then(Here, <<<<"Settle", Root, cause>>, <<"TryCleanup", Root>>>>))
  /\ UNCHANGED calls

(* Bodies that may call cx.spawn: one in flight and not dropped.           *)
HasBody(n) ==
  \/ slot[n].st = "Running" /\ R(n).kind \in {"Resource", "Step", "Service"}
  \/ slot[n].st = "Ready" /\ IsService(n)

(* spawn_check, on the table the host published after the last step.       *)
SpawnOpen(n) ==
  /\ R(n).spawns # 0 /\ Admits(Here, R(n).scope)
  /\ slot[R(n).spawns].st \in Unstarted \cup {"Live"}

(* The host's half of cx.spawn: the gate is read, and the event queued.    *)
CallSpawn(n) ==
  /\ Begun /\ HasBody(n) /\ ~ slot[n].aborted /\ SpawnOpen(n)
  /\ \E i \in Scope \ (born \cup {c[2] : c \in calls}) :
       /\ P(i).template = R(n).spawns
       /\ \A j \in Scope \ (born \cup {c[2] : c \in calls}) : P(j).template # 0 => i <= j
       /\ calls' = calls \cup {<<n, i>>}
  /\ UNCHANGED <<tree, slot, sc, queue, born>>

(* MUTANT of InstanceSpawned: the gate of the host is not checked again.   *)
TrustsGate(n, i) ==
  /\ <<n, i>> \in calls /\ Begun
  /\ calls' = calls \ {<<n, i>>}
  /\ LET new == {s \in Scope : Encloses(tree, i, s)}
         m == [Here EXCEPT !.born = @ \cup new, !.slot[P(i).template].everSpawned = TRUE]
     IN Becomes(Then([m EXCEPT !.sc[i].st = "Admitting"],
                     <<<<"Admit", i>>, <<"CheckSteady", i>>, <<"TryCleanup", i>>>>))

(* The event is handled: the rows are appended.  The scope may have        *)
(* settled since the gate was read; then the instance is skipped and ended.*)
InstanceSpawned(n, i) ==
  /\ <<n, i>> \in calls /\ Begun
  /\ calls' = calls \ {<<n, i>>}
  /\ LET new == {s \in Scope : Encloses(tree, i, s)}
         m == [Here EXCEPT !.born = @ \cup new, !.slot[P(i).template].everSpawned = TRUE]
     IN Becomes(IF SpawnOpen(n)
                THEN Then([m EXCEPT !.sc[i].st = "Admitting"],
                          <<<<"Admit", i>>, <<"CheckSteady", i>>, <<"TryCleanup", i>>>>)
                ELSE Then([m EXCEPT !.sc[i].cause = "Parent"],
                          <<<<"SkipScope", i>>, <<"EndInstance", i>>, <<"Sweep">>>>))

(* Child::stop, from whoever holds the handle.                             *)
StopInstance(i) ==
  /\ Begun /\ i \in born /\ P(i).template # 0 /\ Admits(Here, i)
  /\ Becomes(Then(Here, <<<<"Settle", i, "Shutdown">>, <<"Sweep">>>>))
  /\ UNCHANGED calls

RunInFlight(n) ==
  Begun /\ slot[n].st = "Running" /\ R(n).kind \in {"Resource", "Step", "Service"}

BodyHeld(n) ==
  /\ RunInFlight(n) /\ R(n).kind = "Resource" /\ ~ slot[n].held /\ ~ slot[n].aborted
  /\ Become([Here EXCEPT !.slot[n].held = TRUE])
  /\ UNCHANGED calls

BodyReturns(n, ok) ==
  /\ RunInFlight(n)
  /\ ok /\ R(n).kind = "Resource" => slot[n].held
  /\ Becomes(CASE slot[n].signalled -> FinishInterrupted(Here, n)
               [] ~ slot[n].signalled /\ ok -> Ready(Here, n)
               [] ~ slot[n].signalled /\ ~ ok -> FailAttempt(Here, n))
  /\ UNCHANGED calls

BodyCancelled(n, held) ==
  /\ RunInFlight(n) /\ slot[n].aborted
  /\ held => R(n).kind = "Resource"
  /\ Becomes(FinishInterrupted([Here EXCEPT !.slot[n].held = @ \/ held], n))
  /\ UNCHANGED calls

(* on_ready_published: the value of a component was handed over, or not.   *)
Acknowledged(n, ok) ==
  /\ Begun /\ slot[n].publishing
  /\ LET m == [Here EXCEPT !.slot[n].publishing = FALSE]
         failed == ReleaseGrants([m EXCEPT !.slot[n].st = "Failed", !.slot[n].closed = TRUE], n)
         tail == <<<<"AfterSettle", n>>, <<"Sweep">>>>
     IN Becomes(
          CASE slot[n].st # "Publishing" -> Then(m, tail)
            [] slot[n].st = "Publishing" /\ ok ->
                 Then([m EXCEPT !.slot[n].st = "Ready", !.slot[n].closed = TRUE], tail)
            [] slot[n].st = "Publishing" /\ ~ ok ->
                 Then(failed, <<<<"Inner", n>>, <<"NodeFailed", n>>>> \o tail))
  /\ UNCHANGED calls

ServingEnds(n, ok) ==
  /\ Begun /\ IsService(n) /\ slot[n].st = "Ready"
  /\ LET m == ReleaseGrants(Here, n)
         f == [m EXCEPT !.slot[n].st = "Finished"]
     IN Becomes(
          CASE ok -> Then(f, (IF R(n).terminal THEN <<<<"Settle", R(n).scope, "Terminal">>>>
                              ELSE <<>>) \o <<<<"AfterSettle", n>>>>)
            [] ~ ok -> IF slot[n].restarts < R(n).restarts /\ Admits(m, R(n).scope)
                       THEN Backoff([m EXCEPT !.slot[n].restarts = @ + 1], n)
                       ELSE NodeFailed(m, n))
  /\ UNCHANGED calls

(* A stopping service ends: its slot changes state and nothing else does;  *)
(* the grants it holds are not returned on this path.                      *)
ServiceStops(n, ok) ==
  /\ Begun /\ slot[n].st = "Stopping"
  /\ Becomes(Then([Here EXCEPT !.slot[n].timer = "none",
                              !.slot[n].st = IF ok THEN "Stopped" ELSE "ReleaseFailed"],
                  AfterCleanup))
  /\ UNCHANGED calls

CleanupReturns(n, ok) ==
  /\ Begun /\ slot[n].st = "Releasing" /\ R(n).kind = "Resource"
  /\ Becomes(Then([Here EXCEPT !.slot[n].st = IF ok THEN "Released" ELSE "ReleaseFailed"],
                  AfterCleanup))
  /\ UNCHANGED calls

RetryReleaseReturns(n) ==
  /\ Begun /\ slot[n].st = "RetryRelease"
  /\ LET m == [Here EXCEPT !.slot[n].held = FALSE] IN
     Becomes(IF Admits(m, R(n).scope) THEN Backoff(m, n)
             ELSE Then([m EXCEPT !.slot[n].st = "Interrupted", !.slot[n].attempt = @ + 1],
                       <<<<"AfterSettle", n>>>>))
  /\ UNCHANGED calls

GraceExpires(n) ==
  /\ Begun /\ slot[n].timer = "Grace" /\ slot[n].st = "Running" /\ slot[n].cancelling
  /\ Become([Here EXCEPT !.slot[n].timer = "none", !.slot[n].aborted = TRUE])
  /\ UNCHANGED calls

BackoffExpires(n) ==
  /\ Begun /\ slot[n].timer = "Backoff" /\ slot[n].st = "Backoff"
  /\ Becomes(Then([Here EXCEPT !.slot[n].timer = "none", !.slot[n].st = "Pending"],
                  <<<<"AfterSettle", n>>>>))
  /\ UNCHANGED calls

StopDeadline(n) ==
  /\ Begun /\ slot[n].timer = "StopDeadline" /\ slot[n].st = "Stopping"
  /\ Becomes(Then(Abandon(Here, n), AfterCleanup))
  /\ UNCHANGED calls

BudgetExpires(s) ==
  /\ Begun /\ sc[s].budget
  /\ Becomes(Then([Here EXCEPT !.sc[s].budget = FALSE],
                  <<<<"AbandonAll", s, TRUE>>, <<"BudgetSpent", s>>>>))
  /\ UNCHANGED calls

ZeroExpires(s) ==
  /\ Begun /\ sc[s].zero
  /\ Becomes(Then([Here EXCEPT !.sc[s].zero = FALSE],
                  <<<<"AbandonAll", s, FALSE>>, <<"Sweep">>>>))
  /\ UNCHANGED calls

Terminated == sc[Root].st = "Ended" /\ UNCHANGED vars

Next ==
  \/ Begin
  \/ \E cause \in {"Shutdown", "Cancel"} : Request(cause)
  \/ \E n \in Node, i \in Scope : InstanceSpawned(n, i)
  \/ \E n \in Node :
       \/ CallSpawn(n) \/ BodyHeld(n) \/ RetryReleaseReturns(n)
       \/ GraceExpires(n) \/ BackoffExpires(n) \/ StopDeadline(n)
       \/ \E ok \in BOOLEAN :
            \/ BodyReturns(n, ok) \/ BodyCancelled(n, ok) \/ Acknowledged(n, ok)
            \/ ServingEnds(n, ok) \/ ServiceStops(n, ok) \/ CleanupReturns(n, ok)
  \/ \E s \in Scope : StopInstance(s) \/ BudgetExpires(s) \/ ZeroExpires(s)
  \/ Terminated

Spec == Init /\ [][Next]_vars
=============================================================================
