------------------------------ MODULE Machine ------------------------------
(***************************************************************************)
(* The lifecycle engine over one root scope without nested scopes: the     *)
(* pure state machine of host/engine, one action per event the host feeds  *)
(* it, together with the bodies the host runs for it.                      *)
(*                                                                         *)
(* A handler of the engine changes the slot of its node and then runs a    *)
(* fixed tail: admit, check_steady, try_cleanup.  The stages are operators *)
(* from machine state to machine state, and an action composes them, so    *)
(* that one action is one whole call of Machine::step.                     *)
(***************************************************************************)
EXTENDS Plan

VARIABLES
  plan,     \* the immutable table of the run
  slot,     \* Node -> bookkeeping of the node (Slot)
  scope,    \* bookkeeping of the scope (ScopeRun)
  ahead,    \* Node -> the waiters queued before it: the FIFO of T1
  body,     \* Node -> the task the host runs for the node
  report,   \* what the report will list
  due       \* history: what has been observed and must be accounted for

vars == <<plan, slot, scope, ahead, body, report, due>>

Decl(n) == plan.decl[n]
Dependents(n) == {d \in Node : n \in Decl(d).needs}
Wants(n) == Decl(n).exclusive \cup Decl(n).shared
(* MUTANT of CanHold: the guard that refuses Held for other kinds is gone. *)
Registers(n) == Decl(n).kind \notin {"Join", "Service"}

CanHold(n) == Decl(n).kind \in {"Resource", "Effect"}
CanOwe(n) == CanHold(n) /\ ~ (Decl(n).kind = "Effect" /\ Decl(n).persistent)
IsService(n) == Decl(n).kind = "Service"

NodeStates ==
  {"Pending", "Waiting", "Running", "Backoff", "RetryRelease", "Publishing", "Ready",
   "Finished", "Failed", "Interrupted", "Ambiguous", "Skipped", "Releasing",
   "Compensating", "Stopping", "Released", "Compensated", "Stopped", "ReleaseFailed",
   "Abandoned"}

Unstarted == {"Pending", "Waiting"}
CleanupStates == {"Releasing", "Compensating", "Stopping"}

(* The states a node can be in, by its kind.                               *)
StatesOf(n) ==
  Unstarted \cup {"Ready", "Failed", "Skipped"} \cup
  CASE Decl(n).kind = "Join" -> {"Publishing"}
    [] Decl(n).kind \in {"Step", "BlockingStep"} ->
         {"Running", "Backoff", "Interrupted", "Abandoned"}
    [] Decl(n).kind = "Resource" ->
         {"Running", "Backoff", "Interrupted", "Abandoned", "RetryRelease", "Releasing",
          "Released", "ReleaseFailed"}
    [] Decl(n).kind = "Effect" ->
         {"Running", "Backoff", "Interrupted", "Abandoned", "RetryRelease", "Ambiguous",
          "Compensating", "Compensated", "ReleaseFailed"}
    [] Decl(n).kind = "Service" ->
         {"Running", "Backoff", "Interrupted", "Abandoned", "Finished", "Stopping", "Stopped",
          "ReleaseFailed"}

Slot ==
  [st          : NodeStates,
   attempt     : Nat,
   restarts    : Nat,
   initialized : BOOLEAN,    \* a service has published its handle
   held        : BOOLEAN,
   granted     : BOOLEAN,    \* holds its locks and its pool slot
   cancelling  : BOOLEAN,
   signalled   : BOOLEAN,
   timingOut   : BOOLEAN,    \* the abort was for a within deadline
   timedOut    : BOOLEAN,    \* a blocking attempt is past its deadline
   timer       : {"none", "Within", "Grace", "Backoff", "StopDeadline"},
   publishing  : BOOLEAN,    \* publication_pending
   recovering  : BOOLEAN,
   parked      : SUBSET Nat, \* faults not yet exhausted, by attempt or episode
   ambiguity   : SUBSET Nat] \* the parked ambiguous attempt, at most one

Scope ==
  [st     : {"Planned", "Admitting", "Steady", "Settling", "Cleanup", "Ended"},
   cause  : {"none", "Fault", "Cancel", "Shutdown", "Finite", "Terminal"},
   budget : BOOLEAN,         \* the shutdown budget is armed
   zero   : BOOLEAN,         \* the zero-length re-check is armed
   spent  : BOOLEAN]         \* the budget has expired

Body == [phase : {"none", "run", "serve", "cleanup"}, aborted : BOOLEAN]

Report ==
  [faults          : SUBSET (Node \X Nat),
   ambiguous       : SUBSET (Node \X Nat),
   cleanupFailures : SUBSET Node,
   incomplete      : SUBSET Node,
   outcome         : {"none", "Ok", "Failed", "Cancelled"}]

(* Faults and ambiguities observed and not absorbed; acquisitions not yet  *)
(* discharged, failed or recorded as abandoned; nodes that got a task      *)
(* while they had one.                                                     *)
Due ==
  [faults : SUBSET (Node \X Nat), ambiguous : SUBSET (Node \X Nat), held : SUBSET Node,
   overlaps : SUBSET Node]

State ==
  [slot : [Node -> Slot], scope : Scope, ahead : [Node -> SUBSET Node],
   body : [Node -> Body], report : Report, due : Due]

Here == [slot |-> slot, scope |-> scope, ahead |-> ahead, body |-> body,
         report |-> report, due |-> due]

Become(m) ==
  /\ slot' = m.slot /\ scope' = m.scope /\ ahead' = m.ahead
  /\ body' = m.body /\ report' = m.report /\ due' = m.due
  /\ UNCHANGED plan

Init ==
  /\ plan \in Plans
  /\ slot = [n \in Node |->
       [st |-> "Pending", attempt |-> 0, restarts |-> 0, initialized |-> FALSE,
        held |-> FALSE, granted |-> FALSE, cancelling |-> FALSE, signalled |-> FALSE,
        timingOut |-> FALSE, timedOut |-> FALSE, timer |-> "none", publishing |-> FALSE,
        recovering |-> FALSE, parked |-> {}, ambiguity |-> {}]]
  /\ scope = [st |-> "Planned", cause |-> "none", budget |-> FALSE, zero |-> FALSE,
              spent |-> FALSE]
  /\ ahead = [n \in Node |-> {}]
  /\ body = [n \in Node |-> [phase |-> "none", aborted |-> FALSE]]
  /\ report = [faults |-> {}, ambiguous |-> {}, cleanupFailures |-> {}, incomplete |-> {},
               outcome |-> "none"]
  /\ due = [faults |-> {}, ambiguous |-> {}, held |-> {}, overlaps |-> {}]

-----------------------------------------------------------------------------
(* Effects on the host's tasks, and the chores of exits.rs.                *)

Spawn(m, S, phase) ==
  [m EXCEPT
     !.body = [n \in Node |->
        IF n \in S THEN [phase |-> phase, aborted |-> FALSE] ELSE m.body[n]],
     !.due.overlaps = @ \cup {n \in S : m.body[n].phase # "none"}]

Abort(m, S) ==
  [m EXCEPT !.body = [n \in Node |->
     IF n \in S THEN [m.body[n] EXCEPT !.aborted = TRUE] ELSE m.body[n]]]

TaskEnds(m, n) == [m EXCEPT !.body[n] = [phase |-> "none", aborted |-> FALSE]]

(* INV-9: the parked records of S move to the report.                      *)
FlushFaults(m, S) ==
  [m EXCEPT
     !.slot = [n \in Node |->
        IF n \in S THEN [m.slot[n] EXCEPT !.parked = {}, !.ambiguity = {}] ELSE m.slot[n]],
     !.report.faults = @ \cup UNION {{<<n, k>> : k \in m.slot[n].parked} : n \in S},
     !.report.ambiguous = @ \cup UNION {{<<n, k>> : k \in m.slot[n].ambiguity} : n \in S}]

(* A fault of attempt or episode k is observed and parked on its node.     *)
ParkFault(m, n, k) ==
  [m EXCEPT !.slot[n].parked = @ \cup {k}, !.due.faults = @ \cup {<<n, k>>}]

(* A body that reached Ready, or a new episode, answers earlier faults.    *)
Absorb(m, S) ==
  [m EXCEPT
     !.slot = [n \in Node |-> IF n \in S THEN [m.slot[n] EXCEPT !.parked = {}] ELSE m.slot[n]],
     !.due.faults = {f \in @ : f[1] \notin S}]

CleanupFails(m, n) == [m EXCEPT !.report.cleanupFailures = @ \cup {n}]

-----------------------------------------------------------------------------
(* T1: eligibility, the FIFO queue, atomic grants, steady state.           *)

(* MUTANT of Admits: a settling scope still admits.                        *)
AdmitsLate(m) == m.scope.st \in {"Admitting", "Steady", "Settling"}

Admits(m) == m.scope.st \in {"Admitting", "Steady"}

(* A service's readiness is latched by its first initialization.           *)
NeedsReady(m, n) ==
  \A d \in Decl(n).needs :
    \/ IsService(d) /\ m.slot[d].initialized
    \/ m.slot[d].st \in {"Ready", "Finished"}

In(m, states) == {n \in Node : m.slot[n].st \in states}
Granted(m) == {n \in Node : m.slot[n].granted}

Preferred(u, w) ==
  \/ Decl(u).rank < Decl(w).rank
  \/ Decl(u).rank = Decl(w).rank /\ u < w

(* Steps 0 and 1 of admit: waiters that lost a need leave the queue, nodes *)
(* that became need-ready join it, ordered by preference among themselves. *)
Enqueue(m) ==
  LET lost   == {n \in In(m, {"Waiting"}) : ~ NeedsReady(m, n)}
      joined == {n \in In(m, {"Pending"}) : NeedsReady(m, n)}
      queued == In(m, {"Waiting"}) \ lost
  IN [m EXCEPT
        !.scope.st = "Admitting",
        !.slot = [n \in Node |->
           [m.slot[n] EXCEPT !.st = IF n \in lost THEN "Pending"
                                    ELSE IF n \in joined THEN "Waiting" ELSE @]],
        !.ahead = [n \in Node |->
           IF n \in queued THEN m.ahead[n] \cap queued
           ELSE IF n \in joined THEN queued \cup {u \in joined : Preferred(u, n)}
           ELSE {}]]

(* MUTANT of GrantsAvailable: a writer is admitted beside readers.          *)
IgnoresReaders(n, H) ==
  /\ \A r \in Decl(n).exclusive \cup Decl(n).shared : \A h \in H : r \notin Decl(h).exclusive
  /\ \A p \in Decl(n).pool :
       Cardinality({h \in H : p \in Decl(h).pool}) < plan.limit[p]

(* MUTANT of GrantsAvailable: the pool limit is off by one.                *)
OneTooMany(n, H) ==
  /\ \A r \in Decl(n).exclusive : \A h \in H : r \notin Wants(h)
  /\ \A r \in Decl(n).shared : \A h \in H : r \notin Decl(h).exclusive
  /\ \A p \in Decl(n).pool :
       Cardinality({h \in H : p \in Decl(h).pool}) <= plan.limit[p]

(* n can take its grants beside the nodes H that hold theirs.              *)
GrantsAvailable(n, H) ==
  /\ \A r \in Decl(n).exclusive : \A h \in H : r \notin Wants(h)
  /\ \A r \in Decl(n).shared : \A h \in H : r \notin Decl(h).exclusive
  /\ \A p \in Decl(n).pool :
       Cardinality({h \in H : p \in Decl(h).pool}) < plan.limit[p]

Contend(u, w) == Wants(u) \cap Wants(w) # {} \/ Decl(u).pool \cap Decl(w).pool # {}

(* MUTANT of GrantPass: one flag blocks every later waiter.                *)
OneFlag(m, G) ==
  \A w \in In(m, {"Waiting"}) :
    w \in G <=> m.ahead[w] \subseteq G /\ GrantsAvailable(w, Granted(m) \cup m.ahead[w])

(* MUTANT of GrantPass: whatever is free is taken, nobody is waited for.   *)
Greedy(m, G) ==
  \A w \in In(m, {"Waiting"}) :
    w \in G <=> GrantsAvailable(w, Granted(m) \cup (m.ahead[w] \cap G))

(* G is what one pass over the queue grants: a waiter is served iff no     *)
(* earlier waiter that was refused contends with it and its grants are     *)
(* available beside the holders and the earlier waiters served.            *)
GrantPass(m, G) ==
  \A w \in In(m, {"Waiting"}) :
    w \in G <=> /\ \A u \in m.ahead[w] \ G : ~ Contend(u, w)
               /\ GrantsAvailable(w, Granted(m) \cup (m.ahead[w] \cap G))

(* A join has no body: its value is handed to the host and acknowledged.   *)
StartedSlot(m, n) ==
  LET s == [m.slot[n] EXCEPT !.granted = TRUE, !.held = FALSE, !.cancelling = FALSE,
                             !.signalled = FALSE, !.timingOut = FALSE, !.timedOut = FALSE]
  IN CASE IsService(n) /\ s.initialized -> [s EXCEPT !.st = "Ready"]
       [] Decl(n).kind = "Join" ->
            [s EXCEPT !.st = "Publishing", !.attempt = @ + 1, !.granted = FALSE,
                      !.publishing = TRUE]
       [] OTHER ->
            [s EXCEPT !.st = "Running", !.attempt = @ + 1,
                      !.timer = IF Decl(n).within THEN "Within" ELSE @]

Start(m, G) ==
  LET recovered == {n \in G : IsService(n) /\ m.slot[n].initialized}
      spawned   == {n \in G \ recovered : Decl(n).kind # "Join"}
      started   == [m EXCEPT
        !.slot  = [n \in Node |-> IF n \in G THEN StartedSlot(m, n) ELSE m.slot[n]],
        !.ahead = [n \in Node |-> IF n \in G THEN {} ELSE m.ahead[n] \ G]]
  IN Spawn(Spawn(Absorb(started, recovered), recovered, "serve"), spawned, "run")

Unsettled(m, n) ==
  \/ m.slot[n].st \in Unstarted \cup {"Backoff"} /\ ~ (IsService(n) /\ m.slot[n].initialized)
  \/ m.slot[n].st \in {"Running", "Publishing", "RetryRelease"}

-----------------------------------------------------------------------------
(* T5: the scope stops admitting.                                          *)

(* Cancel one in-flight body: a thread is told, a service and a            *)
(* cooperative body are told and given a grace, the rest are dropped.      *)
InterruptedSlot(m, n) ==
  LET s == [m.slot[n] EXCEPT !.cancelling = TRUE] IN
  CASE Decl(n).kind = "BlockingStep" -> [s EXCEPT !.signalled = TRUE]
    [] IsService(n) ->
         [s EXCEPT !.signalled = TRUE,
                   !.timer = IF Decl(n).stopWithin \/ plan.bounded THEN "Grace" ELSE "none"]
    [] ~ IsService(n) /\ Decl(n).cooperative ->
         [s EXCEPT !.signalled = TRUE, !.timer = "Grace"]
    [] OTHER -> [s EXCEPT !.timer = "none"]

Interruptible(m, n) == m.slot[n].st \in {"Running", "Publishing"} /\ ~ m.slot[n].cancelling

SettledSlot(m, n) ==
  LET s == m.slot[n] IN
  CASE s.st \in Unstarted -> [s EXCEPT !.st = "Skipped"]
    [] s.st = "Backoff" ->
         [s EXCEPT !.st = "Interrupted", !.timer = "none",
                   !.attempt = IF IsService(n) /\ s.initialized THEN @ ELSE @ + 1]
    [] Interruptible(m, n) /\ s.st = "Publishing" -> [s EXCEPT !.st = "Skipped"]
    [] Interruptible(m, n) /\ s.st = "Running" -> InterruptedSlot(m, n)
    [] OTHER -> s

(* The bodies an interrupt drops; the others are signalled.                *)
Dropped(m) ==
  {n \in In(m, {"Running"}) : /\ Interruptible(m, n)
                              /\ Decl(n).kind \notin {"BlockingStep", "Service"}
                              /\ ~ Decl(n).cooperative}

(* MUTANT of CutShort: a node that waits for a grant for its next attempt. *)
OnlyBackoffs(m) == In(m, {"Backoff"})

(* The nodes whose parked records a settle moves to the report.            *)
CutShort(m) == In(m, Unstarted \cup {"Backoff"})

Settle(m, cause) ==
  IF ~ Admits(m) THEN m
  ELSE LET f == Abort(FlushFaults(m, CutShort(m)), Dropped(m)) IN
       [f EXCEPT !.scope.st = "Settling", !.scope.cause = cause,
                 !.scope.budget = plan.bounded,
                 !.slot = [n \in Node |-> SettledSlot(f, n)],
                 !.ahead = [n \in Node |-> {}]]

CheckSteady(m) ==
  IF m.scope.st # "Admitting" \/ \E n \in Node : Unsettled(m, n) THEN m
  ELSE LET steady == [m EXCEPT !.scope.st = "Steady"] IN
       IF plan.mode = "Finite" THEN Settle(steady, "Finite") ELSE steady

-----------------------------------------------------------------------------
(* T6-T8: the release graph, its bound, and the end.                       *)

(* MUTANT of InFlight: the joins are not waited for.                        *)
NeverInFlight(m, n) == FALSE

InFlight(m, n) == m.slot[n].publishing \/ m.slot[n].st = "Running"

RecoversAmbiguity(n) == Decl(n).kind = "Effect" /\ Decl(n).ambiguity = "recover"

(* MUTANT of Owes: what was not acquired is released all the same.         *)
OwesUnheld(m, n) ==
  \/ m.slot[n].st = "Ready" /\ IsService(n)
  \/ m.slot[n].st \in {"Ready", "Failed", "Interrupted"} /\ CanOwe(n)
  \/ m.slot[n].st = "Ambiguous" /\ RecoversAmbiguity(n)

(* An obligation exists and has not started.                               *)
Owes(m, n) ==
  \/ m.slot[n].st = "Ready" /\ IsService(n)
  \/ m.slot[n].st \in {"Ready", "Failed", "Interrupted"} /\ m.slot[n].held /\ CanOwe(n)
  \/ m.slot[n].st = "Ambiguous" /\ RecoversAmbiguity(n)

(* The cleanup of n has not ended.                                         *)
BlocksRelease(m, n) ==
  \/ m.slot[n].publishing
  \/ m.slot[n].st \in Unstarted \cup CleanupStates \cup {"Running", "Backoff", "RetryRelease"}
  \/ Owes(m, n)

GateOpen(m, n) ==
  /\ ~ m.slot[n].publishing
  /\ \A d \in Dependents(n) : ~ BlocksRelease(m, d)

ObligationSlot(m, n) ==
  LET s == m.slot[n] IN
  CASE Decl(n).kind = "Resource" -> [s EXCEPT !.st = "Releasing"]
    [] Decl(n).kind = "Effect" ->
         [s EXCEPT !.st = "Compensating", !.recovering = s.st = "Ambiguous"]
    [] IsService(n) ->
         [s EXCEPT !.st = "Stopping",
                   !.timer = IF Decl(n).stopWithin \/ plan.bounded THEN "StopDeadline" ELSE @]

(* A service keeps the task that serves it; the others get a cleanup body. *)
StartObligations(m, S) ==
  Spawn([m EXCEPT !.slot = [n \in Node |->
           IF n \in S THEN ObligationSlot(m, n) ELSE m.slot[n]]],
        {n \in S : ~ IsService(n)}, "cleanup")

(* Start every obligation whose gate is open; past the budget, only to     *)
(* abandon what is running at the zero-length re-check (T7b).              *)
AdvanceCleanup(m) ==
  LET a == StartObligations(m, {n \in Node : Owes(m, n) /\ GateOpen(m, n)}) IN
  IF a.scope.spent /\ In(a, CleanupStates \cup {"RetryRelease"}) # {}
  THEN [a EXCEPT !.scope.zero = TRUE] ELSE a

Outcome(m) ==
  IF m.scope.cause = "Cancel" THEN "Cancelled"
  ELSE IF m.report.faults = {} THEN "Ok" ELSE "Failed"

End(m) ==
  [m EXCEPT !.scope.st = "Ended", !.scope.budget = FALSE, !.scope.zero = FALSE,
            !.report.outcome = Outcome(m)]

(* try_cleanup and check_end: joins first, then the obligations.           *)
TryCleanup(m) ==
  LET open == m.scope.st = "Settling" /\ \A n \in Node : ~ InFlight(m, n)
      c == IF open THEN [m EXCEPT !.scope.st = "Cleanup"] ELSE m
      a == IF c.scope.st = "Cleanup" THEN AdvanceCleanup(c) ELSE c
  IN IF a.scope.st = "Cleanup" /\ \A n \in Node : ~ BlocksRelease(a, n) THEN End(a) ELSE a

(* The tail of every handler that settles a node: after_settle.  A second  *)
(* pass over the queue would grant nothing, so one pass is the fixpoint.   *)
AfterSettle(m) ==
  IF Admits(m)
  THEN LET q == Enqueue(m) IN
       \E G \in SUBSET In(q, {"Waiting"}) :
         /\ GrantPass(q, G)
         /\ Become(TryCleanup(CheckSteady(Start(q, G))))
  ELSE Become(TryCleanup(m))

Abandon(m, S) ==
  LET f == FlushFaults(Abort(m, {n \in S : Decl(n).kind # "BlockingStep"}), S) IN
  [f EXCEPT
     !.slot = [n \in Node |->
        IF n \in S THEN [f.slot[n] EXCEPT !.st = "Abandoned", !.timer = "none",
                           !.granted = FALSE, !.cancelling = FALSE, !.timedOut = FALSE]
        ELSE f.slot[n]],
     !.report.incomplete = @ \cup S,
     !.report.cleanupFailures =
        @ \cup {n \in S : m.slot[n].st = "Compensating" /\ m.slot[n].recovering},
     !.due.held = @ \ S]

-----------------------------------------------------------------------------
(* T4: what a failed attempt leads to.                                     *)

(* MUTANT of SkippedBy: only the direct dependents.                         *)
DirectOnly(m, n) == {d \in Dependents(n) : m.slot[d].st \in Unstarted}

(* Under Isolate, every dependent that waits for its start is skipped, and *)
(* the dependents that wait behind it.                                     *)
SkippedBy(m, n) ==
  LET hit[d \in Node] == /\ m.slot[d].st \in Unstarted
                         /\ \E x \in Decl(d).needs : x = n \/ hit[x]
  IN {d \in Node : hit[d]}

(* MUTANT of SkipDependents: the dependents are left waiting.              *)
LeavesWaiting(m, n) == m

SkipDependents(m, n) ==
  LET S == SkippedBy(m, n)
      f == FlushFaults(m, S)
  IN [f EXCEPT
        !.slot  = [d \in Node |->
                     IF d \in S THEN [f.slot[d] EXCEPT !.st = "Skipped"] ELSE f.slot[d]],
        !.ahead = [d \in Node |-> IF d \in S THEN {} ELSE f.ahead[d] \ S]]

(* The node's faults are the report's and the scope's policy applies.      *)
ApplyPolicy(m, n) ==
  LET f == FlushFaults(m, {n}) IN
  IF plan.policy = "FailFast" THEN Settle(f, "Fault") ELSE SkipDependents(f, n)

NodeFailed(m, n) == ApplyPolicy([m EXCEPT !.slot[n].st = "Failed"], n)

Backoff(m, n) ==
  IF Decl(n).zeroWait THEN [m EXCEPT !.slot[n].st = "Pending"]
  ELSE [m EXCEPT !.slot[n].st = "Backoff", !.slot[n].timer = "Backoff"]

(* MUTANT of AfterFailedAttempt: the next attempt does not wait for the    *)
(* release of the one before.                                              *)
RetriesAtOnce(m, n) ==
  LET f == [m EXCEPT !.slot[n] = [@ EXCEPT !.granted = FALSE, !.timer = "none",
              !.cancelling = FALSE, !.timingOut = FALSE, !.timedOut = FALSE]]
  IN IF f.slot[n].attempt < Decl(n).attempts /\ Admits(m) THEN Backoff(f, n)
     ELSE NodeFailed(f, n)

(* A held attempt is released before the next one starts (INV-12).         *)
AfterFailedAttempt(m, n) ==
  LET f == [m EXCEPT !.slot[n] = [@ EXCEPT !.granted = FALSE, !.timer = "none",
              !.cancelling = FALSE, !.timingOut = FALSE, !.timedOut = FALSE]]
      retry == f.slot[n].attempt < Decl(n).attempts /\ Admits(m)
  IN IF ~ retry THEN NodeFailed(f, n)
     ELSE IF f.slot[n].held /\ CanOwe(n)
          THEN Spawn([f EXCEPT !.slot[n].st = "RetryRelease"], {n}, "cleanup")
          ELSE Backoff(f, n)

FailAttempt(m, n) == AfterFailedAttempt(ParkFault(m, n, m.slot[n].attempt), n)

BecomeAmbiguous(m, n) ==
  [m EXCEPT !.slot[n].st = "Ambiguous", !.slot[n].ambiguity = {m.slot[n].attempt},
            !.due.ambiguous = @ \cup {<<n, m.slot[n].attempt>>}]

(* An idempotent effect is done again, at least once, if it asks for it.   *)
RetriesAmbiguity(m, n) ==
  /\ Decl(n).ambiguity = "retry"
  /\ m.slot[n].attempt < Decl(n).attempts \/ m.slot[n].attempt < 2
  /\ Admits(m)

(* The body the engine cancelled has been joined.                          *)
FinishInterrupted(m, n) ==
  LET s == m.slot[n]
      unknown == Decl(n).kind = "Effect" /\ ~ s.held
      j == [m EXCEPT !.slot[n] = [@ EXCEPT !.timer = "none", !.cancelling = FALSE,
              !.timingOut = FALSE, !.signalled = s.timingOut /\ s.signalled]]
      g == [j EXCEPT !.slot[n].granted = FALSE]
  IN CASE s.timingOut /\ unknown ->
            LET a == ParkFault(BecomeAmbiguous(g, n), n, s.attempt) IN
            IF RetriesAmbiguity(a, n) THEN Backoff(a, n) ELSE ApplyPolicy(a, n)
       [] s.timingOut /\ ~ unknown -> FailAttempt(j, n)
       [] ~ s.timingOut /\ unknown -> FlushFaults(BecomeAmbiguous(g, n), {n})
       [] ~ s.timingOut /\ ~ unknown ->
            FlushFaults([g EXCEPT !.slot[n].st = "Interrupted"], {n})

(* T3.  A service keeps its grants while it serves.                        *)
MakeReady(m, n) ==
  LET r == [Absorb(m, {n}) EXCEPT
              !.slot[n] = [@ EXCEPT !.st = "Ready", !.timer = "none", !.cancelling = FALSE,
                             !.timingOut = FALSE, !.ambiguity = {},
                             !.initialized = IsService(n),
                             !.granted = IsService(n) /\ m.slot[n].granted],
              !.due.ambiguous = {a \in @ : a[1] # n}]
  IN IF IsService(n) THEN Spawn(r, {n}, "serve") ELSE r

-----------------------------------------------------------------------------
(* Events.  The host feeds one at a time; any pending one may come next.   *)

Begin ==
  /\ scope.st = "Planned"
  /\ AfterSettle([Here EXCEPT !.scope.st = "Admitting"])

(* shutdown() and cancel(), a drop of Running included.  A request during  *)
(* Settling or Cleanup changes nothing but the trace (INV-7).              *)
Request(cause) ==
  \/ /\ scope.st = "Planned"
     /\ Become(End([Here EXCEPT !.scope.cause = cause]))
  \/ /\ Admits(Here)
     /\ Become(TryCleanup(Settle(Here, cause)))

RunInFlight(n) == slot[n].st = "Running" /\ body[n].phase = "run"

(* cx.hold completed: the value and the obligation are registered.         *)
BodyHeld(n) ==
  /\ RunInFlight(n) /\ CanHold(n) /\ ~ slot[n].held
  /\ Become([Here EXCEPT !.slot[n].held = TRUE,
                         !.due.held = IF CanOwe(n) THEN @ \cup {n} ELSE @])

(* The body returns.  Past its deadline a thread's return only ends the    *)
(* attempt; after a signal it is the answer to the cancel; after an abort  *)
(* that came too late the body's own outcome stands.                       *)
BodyReturns(n, ok) ==
  /\ RunInFlight(n)
  /\ ok /\ CanHold(n) => slot[n].held
  /\ LET m == TaskEnds(Here, n) IN
     CASE slot[n].timedOut -> AfterSettle(AfterFailedAttempt(m, n))
       [] ~ slot[n].timedOut /\ slot[n].signalled -> AfterSettle(FinishInterrupted(m, n))
       [] ~ slot[n].timedOut /\ ~ slot[n].signalled ->
            AfterSettle(IF ok THEN MakeReady(m, n) ELSE FailAttempt(m, n))

(* The aborted task is joined; a hold may have landed before the drop.  A  *)
(* panic on the way out counts the same.                                   *)
BodyCancelled(n, held) ==
  /\ RunInFlight(n) /\ body[n].aborted
  /\ held => CanHold(n)
  /\ LET h == slot[n].held \/ held
         m == [TaskEnds(Here, n) EXCEPT !.slot[n].held = h,
                 !.due.held = IF h /\ CanOwe(n) THEN @ \cup {n} ELSE @]
     IN AfterSettle(FinishInterrupted(m, n))

(* The task of an abandoned node ends: nothing is left to do for it.       *)
AbandonedTaskEnds(n) ==
  /\ slot[n].st = "Abandoned" /\ body[n].phase # "none"
  /\ Become(TaskEnds(Here, n))

(* The host acknowledges a join's value transfer, whatever became of it.   *)
Acknowledged(n, ok) ==
  /\ slot[n].publishing
  /\ LET m == [Here EXCEPT !.slot[n].publishing = FALSE]
         k == <<n, slot[n].attempt>>
     IN AfterSettle(
          CASE slot[n].st # "Publishing" -> m
            [] slot[n].st = "Publishing" /\ ok -> [m EXCEPT !.slot[n].st = "Ready"]
            [] slot[n].st = "Publishing" /\ ~ ok ->
                 NodeFailed([m EXCEPT !.report.faults = @ \cup {k},
                                      !.due.faults = @ \cup {k}], n))

(* The serve future ends by itself.                                        *)
ServingEnds(n, ok) ==
  /\ slot[n].st = "Ready" /\ body[n].phase = "serve"
  /\ LET m == [TaskEnds(Here, n) EXCEPT !.slot[n].granted = FALSE]
         f == [m EXCEPT !.slot[n].st = "Finished"]
         p == ParkFault(m, n, slot[n].restarts + 1)
     IN AfterSettle(
          CASE ok -> IF Decl(n).terminal THEN Settle(f, "Terminal") ELSE f
            [] ~ ok -> IF slot[n].restarts < Decl(n).restarts /\ Admits(m)
                       THEN Backoff([p EXCEPT !.slot[n].restarts = @ + 1], n)
                       ELSE NodeFailed(p, n))

(* The serve future ends after the service was asked to stop.              *)
ServiceStops(n, ok) ==
  /\ slot[n].st = "Stopping" /\ body[n].phase = "serve"
  /\ LET m == [TaskEnds(Here, n) EXCEPT !.slot[n].timer = "none"] IN
     AfterSettle(IF ok THEN [m EXCEPT !.slot[n].st = "Stopped"]
                 ELSE CleanupFails([m EXCEPT !.slot[n].st = "ReleaseFailed"], n))

(* A release, compensation or recovery body returns.                       *)
CleanupReturns(n, ok) ==
  /\ slot[n].st \in {"Releasing", "Compensating"} /\ body[n].phase = "cleanup"
  /\ LET m == [TaskEnds(Here, n) EXCEPT !.due.held = @ \ {n}]
         k == <<n, slot[n].attempt>>
         done == [m EXCEPT !.slot[n].st = IF slot[n].st = "Releasing" THEN "Released"
                                         ELSE "Compensated"]
     IN AfterSettle(
          CASE ok /\ slot[n].recovering ->
                 [done EXCEPT !.report.ambiguous = @ \ {k}, !.due.ambiguous = @ \ {k}]
            [] ok /\ ~ slot[n].recovering -> done
            [] ~ ok -> CleanupFails([m EXCEPT !.slot[n].st = "ReleaseFailed"], n))

(* The release between two attempts returns: on to the next attempt unless *)
(* the scope stopped admitting meanwhile.                                  *)
RetryReleaseReturns(n, ok) ==
  /\ slot[n].st = "RetryRelease" /\ body[n].phase = "cleanup"
  /\ LET e == [TaskEnds(Here, n) EXCEPT !.slot[n].held = FALSE, !.due.held = @ \ {n}]
         m == IF ok THEN e ELSE CleanupFails(e, n)
     IN AfterSettle(
          IF Admits(m) THEN Backoff(m, n)
          ELSE FlushFaults([m EXCEPT !.slot[n].st = "Interrupted",
                                     !.slot[n].attempt = @ + 1], {n}))

-----------------------------------------------------------------------------
(* Timers.                                                                 *)

(* The body's deadline: a thread is only marked late, other bodies are     *)
(* aborted; nothing if the body is being cancelled already.                *)
WithinExpires(n) ==
  /\ slot[n].timer = "Within"
  /\ LET m == [Here EXCEPT !.slot[n].timer = "none"] IN
     Become(CASE slot[n].st # "Running" \/ slot[n].cancelling -> m
              [] slot[n].st = "Running" /\ ~ slot[n].cancelling ->
                   IF Decl(n).kind = "BlockingStep"
                   THEN [ParkFault(m, n, slot[n].attempt) EXCEPT !.slot[n].timedOut = TRUE]
                   ELSE [Abort(m, {n}) EXCEPT !.slot[n].cancelling = TRUE,
                                              !.slot[n].timingOut = TRUE])

GraceExpires(n) ==
  /\ slot[n].timer = "Grace"
  /\ slot[n].st = "Running" /\ slot[n].cancelling
  /\ Become([Abort(Here, {n}) EXCEPT !.slot[n].timer = "none"])

BackoffExpires(n) ==
  /\ slot[n].timer = "Backoff" /\ slot[n].st = "Backoff"
  /\ AfterSettle([Here EXCEPT !.slot[n].st = "Pending", !.slot[n].timer = "none"])

StopDeadline(n) ==
  /\ slot[n].timer = "StopDeadline" /\ slot[n].st = "Stopping"
  /\ AfterSettle(Abandon(Here, {n}))

(* The shutdown budget: everything still running is abandoned.             *)
BudgetExpires ==
  /\ scope.budget
  /\ LET S == In(Here, CleanupStates \cup {"Running", "RetryRelease"}) IN
     Become(TryCleanup([Abandon(Here, S) EXCEPT !.scope.budget = FALSE, !.scope.spent = TRUE]))

(* The re-check after the budget: the cleanups started since are abandoned. *)
ZeroExpires ==
  /\ scope.zero
  /\ LET S == In(Here, CleanupStates \cup {"RetryRelease"}) IN
     Become(TryCleanup([Abandon(Here, S) EXCEPT !.scope.zero = FALSE]))

(* The run is over and every task is gone.                                 *)
Terminated ==
  /\ scope.st = "Ended" /\ \A n \in Node : body[n].phase = "none"
  /\ UNCHANGED vars

Timers(n) == WithinExpires(n) \/ GraceExpires(n) \/ BackoffExpires(n) \/ StopDeadline(n)

Tasks(n) ==
  \/ BodyHeld(n) \/ AbandonedTaskEnds(n)
  \/ \E ok \in BOOLEAN :
       \/ BodyReturns(n, ok) \/ BodyCancelled(n, ok) \/ Acknowledged(n, ok)
       \/ ServingEnds(n, ok) \/ ServiceStops(n, ok)
       \/ CleanupReturns(n, ok) \/ RetryReleaseReturns(n, ok)

Next ==
  \/ Begin
  \/ \E cause \in {"Shutdown", "Cancel"} : Request(cause)
  \/ \E n \in Node : Tasks(n) \/ Timers(n)
  \/ BudgetExpires \/ ZeroExpires
  \/ Terminated

Spec == Init /\ [][Next]_vars
=============================================================================
