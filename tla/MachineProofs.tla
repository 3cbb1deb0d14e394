---------------------------- MODULE MachineProofs ----------------------------
(***************************************************************************)
(* Theorems about the engine, for every number of nodes and every set of   *)
(* valid plans: type correctness, locks and pools, joins before cleanup.   *)
(* An event is a quiet and calm change of the current state followed by    *)
(* one of three tails, and only the tail AfterSettle contains a pass over  *)
(* the queue, the one stage that takes grants and starts bodies.           *)
(***************************************************************************)
EXTENDS StageProofs

Safe(m) == Locks(m) /\ Joined(m)

HereSafe == Safe(Here)

(* A scope that was stopped stays so, and in it no grant is taken and      *)
(* nobody queues.                                                          *)
Onward(m) == (Up(m) => Up(Here)) /\ (Up(Here) \/ Quiet(Here, m))

Hushed == Onward(Here')

(* What every event does.                                                  *)
Preserved == TypeOK' /\ (HereSafe => HereSafe' /\ Hushed)

(* What the parts of an event do, from the current state to m.             *)
Keeps(m) == HereSafe => Safe(m) /\ Onward(m)

LEMMA HereNear ==
  ASSUME TypeOK
  PROVE  /\ Near(Here) /\ Typed(Here) /\ Here.slot = slot /\ Here.scope = scope
         /\ Here.ahead = ahead /\ Here.body = body /\ Here.report = report /\ Here.due = due
         /\ \A n \in Node : slot[n] \in Slot /\ slot[n].st \in StatesOf(n)
BY QuietRefl, CalmRefl DEF TypeOK, Near, Typed, Here, State

-----------------------------------------------------------------------------
(* The three tails of an event.                                            *)

(* What the locks speak of is in the slots, the queue and the plan.        *)
LEMMA SameLocks ==
  ASSUME NEW m, Locks(m), plan' = plan, slot' = m.slot, ahead' = m.ahead
  PROVE  Locks(Here)'
<1>1. Granted(Here)' = Granted(m) /\ Waiters(Here)' = Waiters(m)
  BY DEF Granted, Waiters, In, Here
<1>2. \A h : Decl(h)' = Decl(h)
  BY DEF Decl
<1>3. Exclusive(Here)'
  BY <1>1, <1>2 DEF Locks, Exclusive, Wants
<1>4. Ordered(Here)'
  BY <1>1 DEF Locks, Ordered, Here
<1>5. ASSUME NEW p \in Pool
      PROVE  Cardinality(Takers(Granted(Here), p))' <= plan'.limit[p]
  <2>1. Takers(Granted(Here), p)' = Takers(Granted(m), p)
    BY <1>1, <1>2 DEF Takers
  <2> QED BY <2>1 DEF Locks, Pools
<1> QED BY <1>3, <1>4, <1>5 DEF Locks, Pools

LEMMA BecomeKeeps ==
  ASSUME NEW m, Typed(m), Keeps(m), Become(m)
  PROVE  Preserved
<1>1. TypeOK'
  BY BecomeTyped
<1>2. Locks(m) => Locks(Here)'
  BY SameLocks DEF Become
<1>3. Joined(m) => Joined(Here)'
  BY DEF Become, Joined, Closed, InFlight, InTask, Here
<1>4. Onward(m) => Hushed
  BY DEF Become, Here, Hushed, Onward, Up, Quiet, QuietSlot
<1> QED BY <1>1, <1>2, <1>3, <1>4 DEF Preserved, Keeps, HereSafe, Safe

LEMMA CleanupKeeps ==
  ASSUME NEW m, Typed(m), Keeps(m), Become(TryCleanup(m))
  PROVE  Preserved
<1>1. Typed(TryCleanup(m)) /\ Quiet(m, TryCleanup(m))
  BY TryCleanupTyped, TryCleanupQuiet
<1>2. HereSafe => Safe(TryCleanup(m)) /\ (Up(TryCleanup(m)) => Up(m))
  BY <1>1, QuietLocks, TryCleanupJoined, TryCleanupUp DEF Keeps, Safe, Typed
<1>3. Keeps(TryCleanup(m))
  BY <1>1, <1>2, QuietTrans DEF Keeps, Onward
<1> QED BY <1>1, <1>3, BecomeKeeps

LEMMA AfterSettleKeeps ==
  ASSUME NEW m, Typed(m), Keeps(m), AfterSettle(m)
  PROVE  Preserved
<1>1. CASE Admits(m)
  <2> DEFINE q == Enqueue(m)
  <2>1. PICK G \in SUBSET In(q, {"Waiting"}) :
          GrantPass(q, G) /\ Become(TryCleanup(CheckSteady(Start(q, G))))
    BY <1>1 DEF AfterSettle
  <2>2. Typed(q) /\ (HereSafe => Safe(q) /\ Admits(q) /\ Up(Here))
    BY <1>1, EnqueueTyped, EnqueueLocks, EnqueueJoined DEF Keeps, Onward, Safe, Admits, Up
  <2> HIDE DEF q
  <2> DEFINE s == Start(q, G)
  <2>3. G \in SUBSET Node
    BY DEF In
  <2>4. Typed(s) /\ (HereSafe => Safe(s))
    BY <2>1, <2>2, <2>3, StartTyped, StartLocks, StartJoined DEF Safe
  <2>5. Become(TryCleanup(CheckSteady(s)))
    BY <2>1
  <2> HIDE DEF s
  <2>6. Typed(CheckSteady(s)) /\ (HereSafe => Safe(CheckSteady(s)))
    BY <2>4, CheckSteadyTyped, CheckSteadyQuiet, CheckSteadyCalm, QuietLocks, CalmJoined
       DEF Safe, Typed
  <2>7. Keeps(CheckSteady(s))
    BY <2>2, <2>6 DEF Keeps, Onward
  <2> QED BY <2>5, <2>6, <2>7, CleanupKeeps
<1>2. CASE ~ Admits(m)
  BY <1>2, CleanupKeeps DEF AfterSettle
<1> QED BY <1>1, <1>2

(* Every event is a quiet and calm change and a tail.                      *)
LEMMA EventKeeps ==
  ASSUME NEW m, Near(m), AfterSettle(m) \/ Become(TryCleanup(m)) \/ Become(m)
  PROVE  Preserved
<1>1. Typed(m) /\ (HereSafe => Safe(m))
  BY QuietLocks, CalmJoined DEF Near, HereSafe, Safe, Typed
<1>2. Onward(m)
  BY DEF Near, Onward, Calm
<1>3. Keeps(m)
  BY <1>1, <1>2 DEF Keeps
<1> QED BY <1>1, <1>3, BecomeKeeps, CleanupKeeps, AfterSettleKeeps

-----------------------------------------------------------------------------
(* The events, one by one.                                                 *)

(* The kind of a node with a task can be in the states of a task.          *)
LEMMA TaskStates ==
  ASSUME TypeOK, NEW n \in Node
  PROVE  /\ slot[n].st \in CleanupStates \cup {"Running", "Backoff", "RetryRelease"} =>
              {"Running", "Backoff", "Interrupted", "Abandoned"} \subseteq StatesOf(n)
         /\ slot[n].st \in CleanupStates \cup {"RetryRelease"} => "ReleaseFailed" \in StatesOf(n)
         /\ slot[n].st = "Releasing" => "Released" \in StatesOf(n)
         /\ slot[n].st = "Compensating" => "Compensated" \in StatesOf(n)
         /\ slot[n].st = "Stopping" => "Stopped" \in StatesOf(n)
<1>1. slot[n].st \in StatesOf(n) /\ plan \in Plans
  BY DEF TypeOK
<1>2. slot[n].st \in {"Releasing", "Compensating", "RetryRelease"} => CanHold(n)
  BY <1>1, StatesKind DEF CanHold
<1> QED BY <1>1, <1>2, StatesKind, KindStates DEF CleanupStates

LEMMA BeginKeeps ==
  ASSUME TypeOK, Begin
  PROVE  Preserved
<1> DEFINE m == [Here EXCEPT !.scope.st = "Admitting"]
<1>1. Near(m)
  <2>1. Typed(Here)
    BY HereNear DEF Near
  <2>2. /\ Typed(m) /\ m.slot = Here.slot /\ m.ahead = Here.ahead
        /\ m.body = Here.body /\ m.scope.st = "Admitting"
    BY <2>1 DEF Typed, State, Scope
  <2>3. Up(Here)
    BY HereNear DEF Begin, Up
  <2> HIDE DEF m
  <2> QED BY HereNear, <2>2, <2>3, NearApart DEF Closed
<1>2. AfterSettle(m)
  BY DEF Begin
<1> HIDE DEF m
<1> QED BY <1>1, <1>2, EventKeeps

LEMMA RequestKeeps ==
  ASSUME TypeOK, NEW cause \in {"Shutdown", "Cancel"}, Request(cause)
  PROVE  Preserved
<1> DEFINE m == [Here EXCEPT !.scope.cause = cause]
<1>1. CASE scope.st = "Planned" /\ Become(End(m))
  <2>1. /\ Typed(m) /\ m.slot = slot /\ m.ahead = ahead
        /\ m.body = body /\ m.scope.st = scope.st
    BY HereNear DEF Typed, State, Scope
  <2> HIDE DEF m
  <2>2. Near(m)
    BY <2>1, HereNear, NearApart DEF Closed, Up
  <2>3. Typed(End(m)) /\ Quiet(m, End(m)) /\ Calm(m, End(m))
    BY <1>1, <2>1, EndTyped, EndQuiet, EndCalm DEF Closed
  <2>4. Near(End(m))
    BY <2>2, <2>3, NearBy
  <2> QED BY <1>1, <2>4, EventKeeps
<1>2. CASE Become(TryCleanup(Settle(Here, cause)))
  BY <1>2, HereNear, NearSettle, EventKeeps
<1> QED BY <1>1, <1>2 DEF Request

LEMMA BodyHeldKeeps ==
  ASSUME TypeOK, NEW n \in Node, BodyHeld(n)
  PROVE  Preserved
<1> DEFINE s == [slot[n] EXCEPT !.held = TRUE]
           d == IF CanOwe(n) THEN due.held \cup {n} ELSE due.held
           c == [Here EXCEPT !.slot[n] = s]
           m == [c EXCEPT !.due.held = d]
<1>1. s \in Slot /\ s.st = slot[n].st /\ s.st \in StatesOf(n) /\ Tame(slot[n], s)
  <2>1. slot[n] \in Slot /\ slot[n].st \in StatesOf(n)
    BY HereNear
  <2> QED BY <2>1 DEF Slot, Tame, QuietSlot, CalmSlot
<1>2. d \in SUBSET Node
  BY DEF TypeOK, State, Here, Due
<1>3. Become(m)
  BY HereNear DEF BodyHeld, Here
<1> HIDE DEF s, d
<1>4. Near(c)
  BY <1>1, HereNear, NearSlot
<1> HIDE DEF c
<1>5. Near(m)
  <2>1. Typed(c)
    BY <1>4 DEF Near
  <2>2. /\ Typed(m) /\ m.slot = c.slot /\ m.ahead = c.ahead
        /\ m.body = c.body /\ m.scope.st = c.scope.st
    BY <2>1, <1>2 DEF Typed, State, Due
  <2> HIDE DEF m
  <2> QED BY <1>4, <2>2, NearApart DEF Closed, Up
<1> QED BY <1>3, <1>5, EventKeeps

LEMMA BodyReturnsKeeps ==
  ASSUME TypeOK, NEW n \in Node, NEW ok \in BOOLEAN, BodyReturns(n, ok)
  PROVE  Preserved
<1> DEFINE m == TaskEnds(Here, n)
<1>1. Near(m) /\ Loose(m, n)
  BY HereNear, NearStages, LooseStages
<1>2. {"Running", "Backoff", "Interrupted", "Abandoned"} \subseteq StatesOf(n)
  BY TaskStates DEF BodyReturns, RunInFlight
<1>3. \/ AfterSettle(AfterFailedAttempt(m, n)) \/ AfterSettle(FinishInterrupted(m, n))
      \/ AfterSettle(MakeReady(m, n)) \/ AfterSettle(FailAttempt(m, n))
  <2> SUFFICES ASSUME ~ AfterSettle(AfterFailedAttempt(m, n)),
                      ~ AfterSettle(FinishInterrupted(m, n))
               PROVE  AfterSettle(MakeReady(m, n)) \/ AfterSettle(FailAttempt(m, n))
    OBVIOUS
  <2>1. AfterSettle(IF ok THEN MakeReady(m, n) ELSE FailAttempt(m, n))
    BY DEF BodyReturns
  <2>2. CASE ok
    BY <2>1, <2>2
  <2>3. CASE ~ ok
    BY <2>1, <2>3
  <2> QED BY <2>2, <2>3
<1> HIDE DEF m
<1> QED BY <1>1, <1>2, <1>3, EventKeeps, NearRetry, NearInterrupted, NearReady

LEMMA BodyCancelledKeeps ==
  ASSUME TypeOK, NEW n \in Node, NEW held \in BOOLEAN, BodyCancelled(n, held)
  PROVE  Preserved
<1> DEFINE h == slot[n].held \/ held
           e == TaskEnds(Here, n)
           s == [e.slot[n] EXCEPT !.held = h]
           d == IF h /\ CanOwe(n) THEN e.due.held \cup {n} ELSE e.due.held
           c == [e EXCEPT !.slot[n] = s]
           m == [c EXCEPT !.due.held = d]
<1>1. Near(e) /\ Typed(e) /\ Loose(e, n)
  BY HereNear, NearStages, LooseStages DEF Near
<1>2. {"Running", "Backoff", "Interrupted", "Abandoned"} \subseteq StatesOf(n)
  BY TaskStates DEF BodyCancelled, RunInFlight
<1>3. AfterSettle(FinishInterrupted(m, n))
  BY DEF BodyCancelled
<1> HIDE DEF e
<1>4. h \in BOOLEAN
  OBVIOUS
<1>5. s \in Slot /\ s.st = e.slot[n].st /\ s.st \in StatesOf(n) /\ Tame(e.slot[n], s)
  <2> HIDE DEF h
  <2>1. e.slot[n] \in Slot /\ e.slot[n].st \in StatesOf(n)
    BY <1>1, SlotTyped
  <2> QED BY <2>1, <1>4 DEF Slot, Tame, QuietSlot, CalmSlot
<1>6. d \in SUBSET Node
  BY <1>1 DEF Typed, State, Due
<1> HIDE DEF s, d
<1>7. Near(c) /\ Loose(c, n)
  BY <1>1, <1>5, NearSlot, LooseSlot
<1> HIDE DEF c
<1>8. Near(m) /\ Loose(m, n)
  <2>1. Typed(c)
    BY <1>7 DEF Near
  <2>2. /\ Typed(m) /\ m.slot = c.slot /\ m.ahead = c.ahead
        /\ m.body = c.body /\ m.scope.st = c.scope.st
    BY <2>1, <1>6 DEF Typed, State, Due
  <2> HIDE DEF m
  <2> QED BY <1>7, <2>2, NearApart DEF Closed, Up, Loose
<1> HIDE DEF m
<1> QED BY <1>2, <1>3, <1>8, NearInterrupted, EventKeeps

LEMMA AbandonedTaskEndsKeeps ==
  ASSUME TypeOK, NEW n \in Node, AbandonedTaskEnds(n)
  PROVE  Preserved
BY HereNear, NearStages, EventKeeps DEF AbandonedTaskEnds

LEMMA AcknowledgedKeeps ==
  ASSUME TypeOK, NEW n \in Node, NEW ok \in BOOLEAN, Acknowledged(n, ok)
  PROVE  Preserved
<1> DEFINE s == [slot[n] EXCEPT !.publishing = FALSE]
           m == [Here EXCEPT !.slot[n] = s]
           k == {<<n, slot[n].attempt>>}
           r == [s EXCEPT !.st = "Ready"]
           f == [m EXCEPT !.report.faults = @ \cup k, !.due.faults = @ \cup k]
<1>1. slot[n] \in Slot /\ slot[n].st \in StatesOf(n) /\ slot[n].attempt \in Nat
  BY HereNear, Counters
<1>2. s \in Slot /\ s.st = slot[n].st /\ s.st \in StatesOf(n) /\ Tame(slot[n], s)
  BY <1>1 DEF Slot, Tame, QuietSlot, CalmSlot
<1>3. r \in Slot /\ r.st = "Ready" /\ r.st \in StatesOf(n) /\ Tame(slot[n], r)
  <2> HIDE DEF s
  <2> QED BY <1>2, CommonStates DEF Slot, NodeStates, Tame, QuietSlot, CalmSlot
<1>4. k \in SUBSET (Node \X Nat)
  BY <1>1
<1>5. \/ AfterSettle(m)
      \/ (slot[n].st = "Publishing" /\ AfterSettle([Here EXCEPT !.slot[n] = r]))
      \/ (slot[n].st = "Publishing" /\ AfterSettle(NodeFailed(f, n)))
  <2>1. [Here EXCEPT !.slot[n].publishing = FALSE] = m
    BY HereNear DEF Here
  <2>2. [m EXCEPT !.slot[n].st = "Ready"] = [Here EXCEPT !.slot[n] = r]
    <3> HIDE DEF s
    <3> QED BY HereNear DEF Typed, State
  <2>3. CASE slot[n].st # "Publishing"
    <3>1. AfterSettle(m)
      BY <2>1, <2>3 DEF Acknowledged
    <3> QED BY <3>1
  <2>4. CASE slot[n].st = "Publishing" /\ ok
    <3>1. AfterSettle([m EXCEPT !.slot[n].st = "Ready"])
      BY <2>1, <2>4 DEF Acknowledged
    <3> QED BY <2>2, <2>4, <3>1
  <2>5. CASE slot[n].st = "Publishing" /\ ~ ok
    <3>1. AfterSettle(NodeFailed(f, n))
      BY <2>1, <2>5 DEF Acknowledged
    <3> QED BY <2>5, <3>1
  <2> QED BY <2>3, <2>4, <2>5
<1> HIDE DEF s, r, k
<1>6. Near(m)
  BY <1>2, HereNear, NearSlot
<1>7. CASE slot[n].st = "Publishing"
  <2>1. Loose(Here, n)
    BY <1>7, HereNear DEF Loose, InTask
  <2>2. Near([Here EXCEPT !.slot[n] = r])
    BY <1>3, <2>1, HereNear, NearSlot
  <2>3. Loose(m, n)
    BY <1>2, <2>1, HereNear, LooseSlot
  <2> HIDE DEF m
  <2>4. Typed(m)
    BY <1>6 DEF Near
  <2>5. /\ Typed(f) /\ f.slot = m.slot /\ f.ahead = m.ahead
        /\ f.body = m.body /\ f.scope.st = m.scope.st
    BY <2>4, <1>4 DEF Typed, State, Report, Due
  <2> HIDE DEF f
  <2>6. Near(f) /\ Loose(f, n)
    BY <1>6, <2>3, <2>5, NearApart DEF Closed, Up, Loose
  <2>7. Near(NodeFailed(f, n))
    BY <2>6, NearFailed
  <2> QED BY <1>5, <1>6, <2>2, <2>7, EventKeeps
<1> HIDE DEF m, f
<1>8. CASE slot[n].st # "Publishing"
  BY <1>5, <1>6, <1>8, EventKeeps
<1> QED BY <1>7, <1>8

LEMMA CleanupReturnsKeeps ==
  ASSUME TypeOK, NEW n \in Node, NEW ok \in BOOLEAN, CleanupReturns(n, ok)
  PROVE  Preserved
<1> DEFINE e == TaskEnds(Here, n)
           m == [e EXCEPT !.due.held = @ \ {n}]
           k == {<<n, slot[n].attempt>>}
           x == IF slot[n].st = "Releasing" THEN "Released" ELSE "Compensated"
           s == [m.slot[n] EXCEPT !.st = x]
           t == [m.slot[n] EXCEPT !.st = "ReleaseFailed"]
           done == [m EXCEPT !.slot[n] = s]
           found == [done EXCEPT !.report.ambiguous = @ \ k, !.due.ambiguous = @ \ k]
           fails == [m EXCEPT !.slot[n] = t]
<1>1. slot[n].st \in {"Releasing", "Compensating"}
  BY DEF CleanupReturns
<1>2. "ReleaseFailed" \in StatesOf(n) /\ x \in StatesOf(n) /\ x \in NodeStates
  BY <1>1, TaskStates DEF CleanupStates, NodeStates
<1>3. Near(e) /\ Typed(e) /\ Loose(e, n)
  BY HereNear, NearStages, LooseStages DEF Near
<1>4. \/ AfterSettle(done) \/ AfterSettle(found) \/ AfterSettle(CleanupFails(fails, n))
  <2>1. [m EXCEPT !.slot[n].st = x] = done
    <3> HIDE DEF x, e
    <3> QED BY <1>3 DEF Typed, State
  <2>2. [m EXCEPT !.slot[n].st = "ReleaseFailed"] = fails
    <3> HIDE DEF e
    <3> QED BY <1>3 DEF Typed, State
  <2>3. CASE ok /\ slot[n].recovering
    <3>1. AfterSettle([[m EXCEPT !.slot[n].st = x]
                         EXCEPT !.report.ambiguous = @ \ k, !.due.ambiguous = @ \ k])
      BY <2>3 DEF CleanupReturns
    <3> QED BY <2>1, <3>1
  <2>4. CASE ok /\ ~ slot[n].recovering
    <3>1. AfterSettle([m EXCEPT !.slot[n].st = x])
      BY <2>4 DEF CleanupReturns
    <3> QED BY <2>1, <3>1
  <2>5. CASE ~ ok
    <3>1. AfterSettle(CleanupFails([m EXCEPT !.slot[n].st = "ReleaseFailed"], n))
      BY <2>5 DEF CleanupReturns
    <3> QED BY <2>2, <3>1
  <2>6. ok \/ ~ ok
    OBVIOUS
  <2> QED BY <2>3, <2>4, <2>5
<1> HIDE DEF e
<1>5. Near(m) /\ Loose(m, n)
  <2>1. Typed(e)
    BY <1>3 DEF Near
  <2>2. /\ Typed(m) /\ m.slot = e.slot /\ m.ahead = e.ahead
        /\ m.body = e.body /\ m.scope.st = e.scope.st
    BY <2>1 DEF Typed, State, Due
  <2> HIDE DEF m
  <2> QED BY <1>3, <2>2, NearApart DEF Closed, Up, Loose
<1> HIDE DEF m, x
<1>6. m.slot[n] \in Slot
  BY <1>5, SlotTyped DEF Near
<1>7. /\ s \in Slot /\ s.st \in StatesOf(n) /\ Tame(m.slot[n], s)
      /\ t \in Slot /\ t.st \in StatesOf(n) /\ Tame(m.slot[n], t)
  <2>1. x \notin {"Waiting", "Running"}
    BY DEF x
  <2> QED BY <1>2, <1>6, <2>1 DEF Slot, NodeStates, Tame, QuietSlot, CalmSlot
<1> HIDE DEF s, t, k
<1>8. Near(done) /\ Near(fails)
  BY <1>5, <1>7, NearSlot
<1> HIDE DEF done, fails
<1>9. Near(found)
  <2>1. Typed(done)
    BY <1>8 DEF Near
  <2>2. /\ Typed(found) /\ found.slot = done.slot /\ found.ahead = done.ahead
        /\ found.body = done.body /\ found.scope.st = done.scope.st
    BY <2>1 DEF Typed, State, Report, Due
  <2> HIDE DEF found
  <2> QED BY <1>8, <2>2, NearApart DEF Closed, Up
<1> HIDE DEF found
<1> QED BY <1>4, <1>8, <1>9, NearStages, EventKeeps

LEMMA ServiceStopsKeeps ==
  ASSUME TypeOK, NEW n \in Node, NEW ok \in BOOLEAN, ServiceStops(n, ok)
  PROVE  Preserved
<1> DEFINE e == TaskEnds(Here, n)
           s == [e.slot[n] EXCEPT !.timer = "none"]
           t == [s EXCEPT !.st = "Stopped"]
           u == [s EXCEPT !.st = "ReleaseFailed"]
           m == [e EXCEPT !.slot[n] = s]
<1>1. Near(e) /\ Typed(e) /\ Loose(e, n)
  BY HereNear, NearStages, LooseStages DEF Near
<1>2. \/ AfterSettle([e EXCEPT !.slot[n] = t])
      \/ AfterSettle(CleanupFails([e EXCEPT !.slot[n] = u], n))
  <2>1. [e EXCEPT !.slot[n].timer = "none"] = m
    <3> HIDE DEF e
    <3> QED BY <1>1 DEF Typed, State
  <2>2. /\ [m EXCEPT !.slot[n].st = "Stopped"] = [e EXCEPT !.slot[n] = t]
        /\ [m EXCEPT !.slot[n].st = "ReleaseFailed"] = [e EXCEPT !.slot[n] = u]
    <3> HIDE DEF e, s
    <3> QED BY <1>1 DEF Typed, State
  <2>3. CASE ok
    <3>1. AfterSettle([[e EXCEPT !.slot[n].timer = "none"] EXCEPT !.slot[n].st = "Stopped"])
      BY <2>3 DEF ServiceStops
    <3> QED BY <2>1, <2>2, <3>1
  <2>4. CASE ~ ok
    <3>1. AfterSettle(CleanupFails([[e EXCEPT !.slot[n].timer = "none"]
                                      EXCEPT !.slot[n].st = "ReleaseFailed"], n))
      BY <2>4 DEF ServiceStops
    <3> QED BY <2>1, <2>2, <3>1
  <2> QED BY <2>3, <2>4
<1>3. "Stopped" \in StatesOf(n) /\ "ReleaseFailed" \in StatesOf(n)
  BY TaskStates DEF ServiceStops, CleanupStates
<1> HIDE DEF e
<1>4. s \in Slot /\ Tame(e.slot[n], s)
  <2>1. e.slot[n] \in Slot
    BY <1>1, SlotTyped
  <2> QED BY <2>1 DEF Slot, Tame, QuietSlot, CalmSlot
<1> HIDE DEF s
<1>5. /\ t \in Slot /\ t.st \in StatesOf(n) /\ Tame(e.slot[n], t)
      /\ u \in Slot /\ u.st \in StatesOf(n) /\ Tame(e.slot[n], u)
  BY <1>3, <1>4 DEF Slot, NodeStates, Tame, QuietSlot, CalmSlot
<1> HIDE DEF t, u
<1> QED BY <1>1, <1>2, <1>5, NearSlot, NearStages, EventKeeps

LEMMA ServingEndsKeeps ==
  ASSUME TypeOK, NEW n \in Node, NEW ok \in BOOLEAN, ServingEnds(n, ok)
  PROVE  Preserved
<1> DEFINE e == TaskEnds(Here, n)
           s == [e.slot[n] EXCEPT !.granted = FALSE]
           t == [s EXCEPT !.st = "Finished"]
           m == [e EXCEPT !.slot[n] = s]
           f == [e EXCEPT !.slot[n] = t]
           p == ParkFault(m, n, slot[n].restarts + 1)
           r == [p.slot[n] EXCEPT !.restarts = @ + 1]
           q == [p EXCEPT !.slot[n] = r]
<1>1. Near(e) /\ Typed(e) /\ Loose(e, n) /\ slot[n].restarts + 1 \in Nat
  BY HereNear, NearStages, LooseStages, Counters DEF Near
<1>2. {"Backoff", "Finished"} \subseteq StatesOf(n)
  <2>1. IsService(n) /\ plan \in Plans
    BY DEF ServingEnds, TypeOK
  <2> QED BY <2>1, KindStates DEF IsService
<1>3. \/ AfterSettle(f) \/ AfterSettle(Settle(f, "Terminal"))
      \/ AfterSettle(Backoff([p EXCEPT !.slot[n].restarts = @ + 1], n))
      \/ AfterSettle(NodeFailed(p, n))
  <2>1. [e EXCEPT !.slot[n].granted = FALSE] = m
    <3> HIDE DEF e
    <3> QED BY <1>1 DEF Typed, State
  <2>2. [m EXCEPT !.slot[n].st = "Finished"] = f
    <3> HIDE DEF e, s
    <3> QED BY <1>1 DEF Typed, State
  <2>3. CASE ok
    <3>1. AfterSettle(IF Decl(n).terminal THEN Settle(f, "Terminal") ELSE f)
      BY <2>1, <2>2, <2>3 DEF ServingEnds
    <3>2. CASE Decl(n).terminal
      BY <3>1, <3>2
    <3>3. CASE ~ Decl(n).terminal
      BY <3>1, <3>3
    <3> QED BY <3>2, <3>3
  <2>4. CASE ~ ok
    <3>1. AfterSettle(IF slot[n].restarts < Decl(n).restarts /\ Admits(m)
                      THEN Backoff([p EXCEPT !.slot[n].restarts = @ + 1], n)
                      ELSE NodeFailed(p, n))
      BY <2>1, <2>4 DEF ServingEnds
    <3>2. CASE slot[n].restarts < Decl(n).restarts /\ Admits(m)
      BY <3>1, <3>2
    <3>3. CASE ~ (slot[n].restarts < Decl(n).restarts /\ Admits(m))
      BY <3>1, <3>3
    <3> QED BY <3>2, <3>3
  <2> QED BY <2>3, <2>4
<1> HIDE DEF e
<1>4. s \in Slot /\ s.st = e.slot[n].st /\ s.st \in StatesOf(n) /\ Tame(e.slot[n], s)
  <2>1. e.slot[n] \in Slot /\ e.slot[n].st \in StatesOf(n)
    BY <1>1, SlotTyped
  <2> QED BY <2>1 DEF Slot, Tame, QuietSlot, CalmSlot
<1>5. t \in Slot /\ t.st = "Finished" /\ Tame(e.slot[n], t)
  <2> HIDE DEF s
  <2> QED BY <1>4 DEF Slot, NodeStates, Tame, QuietSlot, CalmSlot
<1> HIDE DEF s, t
<1>6. Near(m) /\ Near(f) /\ Loose(m, n)
  BY <1>1, <1>2, <1>4, <1>5, NearSlot, LooseSlot
<1> HIDE DEF m, f
<1>7. Near(p) /\ Typed(p) /\ Loose(p, n)
  BY <1>1, <1>6, NearStages, LooseStages DEF Near
<1> HIDE DEF p
<1>8. r \in Slot /\ r.st = p.slot[n].st /\ r.st \in StatesOf(n) /\ Tame(p.slot[n], r)
  <2>1. p.slot[n] \in Slot /\ p.slot[n].st \in StatesOf(n)
    BY <1>7, SlotTyped
  <2> QED BY <2>1, Counters DEF Slot, Tame, QuietSlot, CalmSlot
<1>9. [p EXCEPT !.slot[n].restarts = @ + 1] = q
  BY <1>7 DEF Typed, State
<1> HIDE DEF r
<1>10. Near(q) /\ Loose(q, n)
  BY <1>7, <1>8, NearSlot, LooseSlot
<1> HIDE DEF q
<1>11. Near(Backoff(q, n)) /\ Near(Settle(f, "Terminal")) /\ Near(NodeFailed(p, n))
  BY <1>2, <1>6, <1>7, <1>10, NearRetry, NearSettle, NearFailed
<1> QED BY <1>3, <1>6, <1>9, <1>11, EventKeeps

LEMMA RetryReleaseReturnsKeeps ==
  ASSUME TypeOK, NEW n \in Node, NEW ok \in BOOLEAN, RetryReleaseReturns(n, ok)
  PROVE  Preserved
<1> DEFINE h == TaskEnds(Here, n)
           s == [h.slot[n] EXCEPT !.held = FALSE]
           c == [h EXCEPT !.slot[n] = s]
           e == [c EXCEPT !.due.held = @ \ {n}]
           m == IF ok THEN e ELSE CleanupFails(e, n)
           i == [m.slot[n] EXCEPT !.st = "Interrupted", !.attempt = @ + 1]
           j == [m EXCEPT !.slot[n] = i]
<1>1. Near(h) /\ Typed(h) /\ Loose(h, n)
  BY HereNear, NearStages, LooseStages DEF Near
<1>2. {"Backoff", "Interrupted"} \subseteq StatesOf(n)
  BY TaskStates DEF RetryReleaseReturns
<1>3. AfterSettle(IF Admits(m) THEN Backoff(m, n)
                  ELSE FlushFaults([m EXCEPT !.slot[n].st = "Interrupted",
                                             !.slot[n].attempt = @ + 1], {n}))
  <2> DEFINE f == [h EXCEPT !.slot[n].held = FALSE, !.due.held = @ \ {n}]
             l == IF ok THEN f ELSE CleanupFails(f, n)
  <2>1. f = e
    <3> HIDE DEF h
    <3> QED BY <1>1 DEF Typed, State
  <2>2. AfterSettle(IF Admits(l) THEN Backoff(l, n)
                    ELSE FlushFaults([l EXCEPT !.slot[n].st = "Interrupted",
                                               !.slot[n].attempt = @ + 1], {n}))
    BY DEF RetryReleaseReturns
  <2> HIDE DEF e, f, h
  <2>3. l = m
    BY <2>1
  <2> HIDE DEF l, m
  <2> QED BY <2>2, <2>3
<1> HIDE DEF h
<1>4. s \in Slot /\ s.st = h.slot[n].st /\ s.st \in StatesOf(n) /\ Tame(h.slot[n], s)
  <2>1. h.slot[n] \in Slot /\ h.slot[n].st \in StatesOf(n)
    BY <1>1, SlotTyped
  <2> QED BY <2>1 DEF Slot, Tame, QuietSlot, CalmSlot
<1> HIDE DEF s
<1>13. Near(c) /\ Loose(c, n)
  BY <1>1, <1>4, NearSlot, LooseSlot
<1> HIDE DEF c
<1>5. Near(e) /\ Loose(e, n)
  <2>1. Typed(c)
    BY <1>13 DEF Near
  <2>2. /\ Typed(e) /\ e.slot = c.slot /\ e.ahead = c.ahead
        /\ e.body = c.body /\ e.scope.st = c.scope.st
    BY <2>1 DEF Typed, State, Due
  <2> HIDE DEF e
  <2> QED BY <1>13, <2>2, NearApart DEF Closed, Up, Loose
<1> HIDE DEF e
<1>6. Near(m) /\ Typed(m) /\ Loose(m, n)
  <2>1. Typed(e)
    BY <1>5 DEF Near
  <2>2. Near(CleanupFails(e, n)) /\ Calm(e, CleanupFails(e, n))
    BY <1>5, <2>1, NearStages, CleanupFailsCalm
  <2>3. CleanupFails(e, n).slot = e.slot
    BY <2>1 DEF Typed, State, CleanupFails
  <2>4. Loose(CleanupFails(e, n), n)
    BY <1>5, <2>2, <2>3, LooseKept
  <2> QED BY <1>5, <2>2, <2>4 DEF Near
<1> HIDE DEF m
<1>7. i \in Slot /\ i.st = "Interrupted" /\ Tame(m.slot[n], i)
  <2>1. m.slot[n] \in Slot
    BY <1>6, SlotTyped
  <2> QED BY <2>1, Counters DEF Slot, NodeStates, Tame, QuietSlot, CalmSlot
<1>8. [m EXCEPT !.slot[n].st = "Interrupted", !.slot[n].attempt = @ + 1] = j
  BY <1>6 DEF Typed, State
<1> HIDE DEF i
<1>9. Near(j)
  BY <1>2, <1>6, <1>7, NearSlot
<1> HIDE DEF j
<1>10. Near(Backoff(m, n)) /\ Near(FlushFaults(j, {n}))
  BY <1>2, <1>6, <1>9, NearRetry, NearStages
<1>11. CASE Admits(m)
  BY <1>3, <1>10, <1>11, EventKeeps
<1>12. CASE ~ Admits(m)
  BY <1>3, <1>8, <1>10, <1>12, EventKeeps
<1> QED BY <1>11, <1>12

LEMMA WithinExpiresKeeps ==
  ASSUME TypeOK, NEW n \in Node, WithinExpires(n)
  PROVE  Preserved
<1> DEFINE s == [slot[n] EXCEPT !.timer = "none"]
           m == [Here EXCEPT !.slot[n] = s]
           p == ParkFault(m, n, slot[n].attempt)
           t == [p.slot[n] EXCEPT !.timedOut = TRUE]
           late == [p EXCEPT !.slot[n] = t]
           a == Abort(m, {n})
           u == [a.slot[n] EXCEPT !.cancelling = TRUE, !.timingOut = TRUE]
           cut == [a EXCEPT !.slot[n] = u]
<1>1. slot[n] \in Slot /\ slot[n].st \in StatesOf(n) /\ slot[n].attempt \in Nat
  BY HereNear, Counters
<1>2. s \in Slot /\ s.st = slot[n].st /\ s.st \in StatesOf(n) /\ Tame(slot[n], s)
  BY <1>1 DEF Slot, Tame, QuietSlot, CalmSlot
<1>3. \/ Become(m)
      \/ Become([p EXCEPT !.slot[n].timedOut = TRUE])
      \/ Become([a EXCEPT !.slot[n].cancelling = TRUE, !.slot[n].timingOut = TRUE])
  <2>1. [Here EXCEPT !.slot[n].timer = "none"] = m
    BY HereNear DEF Here
  <2>2. CASE slot[n].st # "Running" \/ slot[n].cancelling
    <3>1. Become(m)
      BY <2>1, <2>2 DEF WithinExpires
    <3> QED BY <3>1
  <2>3. CASE ~ (slot[n].st # "Running" \/ slot[n].cancelling)
    <3>1. Become(IF Decl(n).kind = "BlockingStep"
                 THEN [p EXCEPT !.slot[n].timedOut = TRUE]
                 ELSE [a EXCEPT !.slot[n].cancelling = TRUE, !.slot[n].timingOut = TRUE])
      BY <2>1, <2>3 DEF WithinExpires
    <3>2. CASE Decl(n).kind = "BlockingStep"
      BY <3>1, <3>2
    <3>3. CASE Decl(n).kind # "BlockingStep"
      BY <3>1, <3>3
    <3> QED BY <3>2, <3>3
  <2> QED BY <2>2, <2>3
<1> HIDE DEF s
<1>4. Near(m)
  BY <1>2, HereNear, NearSlot
<1> HIDE DEF m
<1>5. Near(p) /\ Near(a) /\ Typed(p) /\ Typed(a)
  BY <1>1, <1>4, NearStages DEF Near
<1> HIDE DEF p, a
<1>6. /\ [p EXCEPT !.slot[n].timedOut = TRUE] = late
      /\ [a EXCEPT !.slot[n].cancelling = TRUE, !.slot[n].timingOut = TRUE] = cut
  BY <1>5 DEF Typed, State
<1>7. /\ p.slot[n] \in Slot /\ p.slot[n].st \in StatesOf(n)
      /\ a.slot[n] \in Slot /\ a.slot[n].st \in StatesOf(n)
  BY <1>5, SlotTyped
<1>8. /\ t \in Slot /\ t.st = p.slot[n].st /\ t.st \in StatesOf(n) /\ Tame(p.slot[n], t)
      /\ u \in Slot /\ u.st = a.slot[n].st /\ u.st \in StatesOf(n) /\ Tame(a.slot[n], u)
  BY <1>7 DEF Slot, Tame, QuietSlot, CalmSlot
<1> HIDE DEF t, u
<1>9. Near(late) /\ Near(cut)
  BY <1>5, <1>8, NearSlot
<1> HIDE DEF late, cut
<1> QED BY <1>3, <1>4, <1>6, <1>9, EventKeeps

LEMMA GraceExpiresKeeps ==
  ASSUME TypeOK, NEW n \in Node, GraceExpires(n)
  PROVE  Preserved
<1> DEFINE a == Abort(Here, {n})
           s == [a.slot[n] EXCEPT !.timer = "none"]
           m == [a EXCEPT !.slot[n] = s]
<1>1. Near(a) /\ Typed(a)
  BY HereNear, NearStages DEF Near
<1>2. Become(m)
  <2>1. Become([a EXCEPT !.slot[n].timer = "none"])
    BY DEF GraceExpires
  <2> HIDE DEF a
  <2>2. [a EXCEPT !.slot[n].timer = "none"] = m
    BY <1>1 DEF Typed, State
  <2> QED BY <2>1, <2>2
<1> HIDE DEF a
<1>3. s \in Slot /\ s.st = a.slot[n].st /\ s.st \in StatesOf(n) /\ Tame(a.slot[n], s)
  <2>1. a.slot[n] \in Slot /\ a.slot[n].st \in StatesOf(n)
    BY <1>1, SlotTyped
  <2> QED BY <2>1 DEF Slot, Tame, QuietSlot, CalmSlot
<1> HIDE DEF s
<1>4. Near(m)
  BY <1>1, <1>3, NearSlot
<1> QED BY <1>2, <1>4, EventKeeps

LEMMA BackoffExpiresKeeps ==
  ASSUME TypeOK, NEW n \in Node, BackoffExpires(n)
  PROVE  Preserved
<1> DEFINE s == [slot[n] EXCEPT !.st = "Pending", !.timer = "none"]
           m == [Here EXCEPT !.slot[n] = s]
<1>1. slot[n] \in Slot
  BY HereNear
<1>2. s \in Slot /\ s.st \in StatesOf(n) /\ Tame(slot[n], s)
  BY <1>1, CommonStates DEF Slot, NodeStates, Tame, QuietSlot, CalmSlot
<1>3. AfterSettle(m)
  <2>1. [Here EXCEPT !.slot[n].st = "Pending", !.slot[n].timer = "none"] = m
    BY HereNear DEF Here
  <2> QED BY <2>1 DEF BackoffExpires
<1> HIDE DEF s
<1>4. Near(m)
  <2>1. Loose(Here, n)
    BY HereNear DEF BackoffExpires, Loose, InTask
  <2> QED BY <1>2, <2>1, HereNear, NearSlot
<1> QED BY <1>3, <1>4, EventKeeps

LEMMA AbandonHere ==
  ASSUME TypeOK,
         NEW S \in SUBSET In(Here, CleanupStates \cup {"Running", "RetryRelease"})
  PROVE  Near(Abandon(Here, S))
<1>1. S \in SUBSET Node /\ \A n \in S : "Abandoned" \in StatesOf(n)
  BY TaskStates, HereNear DEF In
<1> QED BY <1>1, HereNear, NearAbandon

LEMMA StopDeadlineKeeps ==
  ASSUME TypeOK, NEW n \in Node, StopDeadline(n)
  PROVE  Preserved
<1>1. {n} \in SUBSET In(Here, CleanupStates \cup {"Running", "RetryRelease"})
  BY HereNear DEF StopDeadline, In, CleanupStates
<1> QED BY <1>1, AbandonHere, EventKeeps DEF StopDeadline

LEMMA BudgetExpiresKeeps ==
  ASSUME TypeOK, BudgetExpires
  PROVE  Preserved
<1> DEFINE a == Abandon(Here, In(Here, CleanupStates \cup {"Running", "RetryRelease"}))
           m == [a EXCEPT !.scope.budget = FALSE, !.scope.spent = TRUE]
<1>1. Near(a)
  BY AbandonHere
<1>2. Become(TryCleanup(m))
  BY DEF BudgetExpires
<1> HIDE DEF a
<1>3. Near(m)
  <2>1. Typed(a)
    BY <1>1 DEF Near
  <2>2. /\ Typed(m) /\ m.slot = a.slot /\ m.ahead = a.ahead
        /\ m.body = a.body /\ m.scope.st = a.scope.st
    BY <2>1 DEF Typed, State, Scope
  <2> HIDE DEF m
  <2> QED BY <1>1, <2>2, NearApart DEF Closed, Up
<1> HIDE DEF m
<1> QED BY <1>2, <1>3, EventKeeps

LEMMA ZeroExpiresKeeps ==
  ASSUME TypeOK, ZeroExpires
  PROVE  Preserved
<1> DEFINE S == In(Here, CleanupStates \cup {"RetryRelease"})
           a == Abandon(Here, S)
           m == [a EXCEPT !.scope.zero = FALSE]
<1>1. S \in SUBSET In(Here, CleanupStates \cup {"Running", "RetryRelease"})
  BY DEF In
<1>2. Near(a)
  BY <1>1, AbandonHere
<1>3. Become(TryCleanup(m))
  BY DEF ZeroExpires
<1> HIDE DEF a
<1>4. Near(m)
  <2>1. Typed(a)
    BY <1>2 DEF Near
  <2>2. /\ Typed(m) /\ m.slot = a.slot /\ m.ahead = a.ahead
        /\ m.body = a.body /\ m.scope.st = a.scope.st
    BY <2>1 DEF Typed, State, Scope
  <2> HIDE DEF m
  <2> QED BY <1>2, <2>2, NearApart DEF Closed, Up
<1> HIDE DEF m
<1> QED BY <1>3, <1>4, EventKeeps

-----------------------------------------------------------------------------
(* The theorems.                                                           *)

LEMMA InitTyped == Init => TypeOK
<1> SUFFICES ASSUME Init PROVE TypeOK
  OBVIOUS
<1>1. slot \in [Node -> Slot]
  BY DEF Init, Slot, NodeStates
<1>2. \A n \in Node : slot[n].st \in StatesOf(n)
  BY CommonStates DEF Init
<1>3. scope \in Scope /\ ahead \in [Node -> SUBSET Node] /\ body \in [Node -> Body]
  BY DEF Init, Scope, Body
<1>4. report \in Report /\ due \in Due
  BY DEF Init, Report, Due
<1>5. plan \in Plans /\ \A n \in Node : body[n].phase = "none"
  BY DEF Init
<1> QED BY <1>1, <1>2, <1>3, <1>4, <1>5 DEF TypeOK, Here, State

LEMMA InitSafe == Init => HereSafe
<1> SUFFICES ASSUME Init PROVE HereSafe
  OBVIOUS
<1>1. Locks(Here)
  <2>1. Granted(Here) = {} /\ Waiters(Here) = {}
    BY DEF Init, Granted, Waiters, In, Here
  <2>2. ASSUME NEW p \in Pool
        PROVE  Cardinality(Takers(Granted(Here), p)) <= plan.limit[p]
    <3>1. Takers(Granted(Here), p) = {}
      BY <2>1 DEF Takers
    <3>2. plan.limit[p] \in Nat
      BY PlansAssumption DEF Init, PlanType
    <3> QED BY <3>1, <3>2, FS_EmptySet
  <2> QED BY <2>1, <2>2 DEF Locks, Exclusive, Ordered, Pools
<1>2. Joined(Here)
  BY DEF Init, Joined, InFlight, Here
<1> QED BY <1>1, <1>2 DEF HereSafe, Safe

LEMMA StepKeeps == TypeOK /\ [Next]_vars => Preserved
<1> SUFFICES ASSUME TypeOK, [Next]_vars PROVE Preserved
  OBVIOUS
<1>1. CASE Begin
  BY <1>1, BeginKeeps
<1>2. ASSUME NEW cause \in {"Shutdown", "Cancel"}, Request(cause) PROVE Preserved
  BY <1>2, RequestKeeps
<1>3. ASSUME NEW n \in Node, Tasks(n) PROVE Preserved
  BY <1>3, BodyHeldKeeps, AbandonedTaskEndsKeeps, BodyReturnsKeeps, BodyCancelledKeeps,
     AcknowledgedKeeps, ServingEndsKeeps, ServiceStopsKeeps, CleanupReturnsKeeps,
     RetryReleaseReturnsKeeps
     DEF Tasks
<1>4. ASSUME NEW n \in Node, Timers(n) PROVE Preserved
  BY <1>4, WithinExpiresKeeps, GraceExpiresKeeps, BackoffExpiresKeeps, StopDeadlineKeeps
     DEF Timers
<1>5. CASE BudgetExpires
  BY <1>5, BudgetExpiresKeeps
<1>6. CASE ZeroExpires
  BY <1>6, ZeroExpiresKeeps
<1>7. CASE UNCHANGED vars
  <2>1. TypeOK'
    BY <1>7 DEF vars, TypeOK, Here, State, StatesOf, IsService, Decl
  <2>2. Locks(Here) => Locks(Here)'
    BY <1>7, SameLocks DEF vars, Here
  <2>3. Joined(Here) => Joined(Here)'
    BY <1>7 DEF vars, Joined, Closed, InFlight, InTask, Here
  <2>4. Hushed
    BY <1>7 DEF vars, Hushed, Onward, Quiet, QuietSlot, Up, Here
  <2> QED BY <2>1, <2>2, <2>3, <2>4 DEF Preserved, HereSafe, Safe
<1>8. CASE Terminated
  BY <1>7, <1>8 DEF Terminated
<1> QED BY <1>1, <1>2, <1>3, <1>4, <1>5, <1>6, <1>7, <1>8 DEF Next

(* For every number of nodes and every set of valid plans, the bookkeeping *)
(* keeps its types, no node ever enters a state of another kind, and only  *)
(* services are served: no handler of the engine can break the table's     *)
(* idea of what a kind does.                                               *)
THEOREM TypeCorrect == Spec => []TypeOK
<1>1. Init => TypeOK
  BY InitTyped
<1>2. TypeOK /\ [Next]_vars => TypeOK'
  BY StepKeeps DEF Preserved
<1> QED BY <1>1, <1>2, PTL DEF Spec

(* The inductive invariant of the next two theorems: types, the order of   *)
(* the queue, and tasks only in the states that admit them.                *)
LEMMA Safety == Spec => [](TypeOK /\ HereSafe)
<1>1. Init => TypeOK /\ HereSafe
  BY InitTyped, InitSafe
<1>2. TypeOK /\ HereSafe /\ [Next]_vars => (TypeOK /\ HereSafe)'
  BY StepKeeps DEF Preserved
<1> QED BY <1>1, <1>2, PTL DEF Spec

(* For every number of nodes and every set of valid plans, an exclusive    *)
(* holder is alone on its resource (T1): the atomic grant pass of admit    *)
(* never lets two conflicting nodes through, and no other handler takes a  *)
(* grant.                                                                  *)
THEOREM LocksHeld == Spec => []LockSafety
<1>1. TypeOK /\ HereSafe => LockSafety
  BY DEF HereSafe, Safe, Locks, Exclusive, LockSafety
<1> QED BY <1>1, Safety, PTL

(* For every number of nodes and every set of valid plans, no pool has     *)
(* more holders than slots (T1).  A pass may serve several waiters at      *)
(* once; each is measured against the holders and those served before it,  *)
(* so it is the order of the queue that bounds them together.              *)
THEOREM PoolsHeld == Spec => []PoolSafety
<1>1. TypeOK /\ HereSafe => PoolSafety
  BY DEF HereSafe, Safe, Locks, Pools, Takers, PoolSafety
<1> QED BY <1>1, Safety, PTL

(* For every number of nodes and every set of valid plans, whoever holds   *)
(* grants does so beside all the others: no event of the engine, and no    *)
(* pass of admit over waiters that compete, ever over-subscribes.          *)
THEOREM GrantsHeld == Spec => []GrantsAreExclusive
<1>1. LockSafety /\ PoolSafety => GrantsAreExclusive
  BY DEF GrantsAreExclusive
<1> QED BY <1>1, LocksHeld, PoolsHeld, PTL

(* For every number of nodes and every set of valid plans, no obligation   *)
(* starts before every body was joined or abandoned and every value        *)
(* transfer acknowledged (P-17): only the pass over the queue starts       *)
(* bodies, it runs while the scope admits, and no handler but try_cleanup  *)
(* opens the release graph.                                                *)
THEOREM JoinsComeFirst == Spec => []JoinsBeforeCleanup
<1>1. TypeOK /\ HereSafe => JoinsBeforeCleanup
  BY DEF HereSafe, Safe, Joined, Closed, InFlight, InTask, Here, JoinsBeforeCleanup
<1> QED BY <1>1, Safety, PTL
=============================================================================
