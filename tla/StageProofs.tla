----------------------------- MODULE StageProofs -----------------------------
(***************************************************************************)
(* What every stage an action of Machine is composed of preserves, for     *)
(* every number of nodes and every set of valid plans: the types, the      *)
(* grants and the queue, and what runs.  A quiet stage takes no grant,     *)
(* queues nobody, and keeps the order of those it leaves in the queue; a   *)
(* calm one starts no body.  The pass over the queue is neither, and has   *)
(* lemmas of its own.                                                      *)
(***************************************************************************)
EXTENDS MachineProperties, FiniteSetTheorems, TLAPS

Typed(m) ==
  /\ plan \in Plans
  /\ m \in State
  /\ \A n \in Node : m.slot[n].st \in StatesOf(n)
  /\ \A n \in Node : m.body[n].phase = "serve" => IsService(n)

-----------------------------------------------------------------------------
(* The plan, and the states of each kind.                                  *)

LEMMA PlanTyped ==
  ASSUME plan \in Plans
  PROVE  /\ plan.bounded \in BOOLEAN
         /\ \A n \in Node : Decl(n) \in NodeDecl
BY PlansAssumption DEF PlanType, Decl

LEMMA CommonStates ==
  ASSUME NEW n \in Node
  PROVE  {"Pending", "Waiting", "Ready", "Failed", "Skipped"} \subseteq StatesOf(n)
BY DEF StatesOf, Unstarted

LEMMA KindStates ==
  ASSUME plan \in Plans, NEW n \in Node
  PROVE  /\ Decl(n).kind # "Join" =>
              {"Running", "Backoff", "Interrupted", "Abandoned"} \subseteq StatesOf(n)
         /\ Decl(n).kind = "Join" => "Publishing" \in StatesOf(n)
         /\ CanHold(n) => {"RetryRelease", "ReleaseFailed"} \subseteq StatesOf(n)
         /\ Decl(n).kind = "Resource" => {"Releasing", "Released"} \subseteq StatesOf(n)
         /\ Decl(n).kind = "Effect" =>
              {"Ambiguous", "Compensating", "Compensated"} \subseteq StatesOf(n)
         /\ IsService(n) => {"Finished", "Stopping", "Stopped", "ReleaseFailed"} \subseteq StatesOf(n)
<1>1. Decl(n).kind \in Kinds
  BY PlanTyped DEF NodeDecl
<1> QED BY <1>1 DEF StatesOf, Kinds, CanHold, IsService

LEMMA StatesKind ==
  ASSUME plan \in Plans, NEW n \in Node, NEW x \in StatesOf(n)
  PROVE  /\ x \in {"Running", "Backoff", "Interrupted", "Abandoned", "RetryRelease", "Ambiguous",
                   "Releasing", "Compensating", "Stopping"} => Decl(n).kind # "Join"
         /\ x = "Publishing" => Decl(n).kind = "Join"
         /\ x \in {"Releasing"} => Decl(n).kind = "Resource"
         /\ x \in {"Compensating", "Ambiguous"} => Decl(n).kind = "Effect"
         /\ x \in {"RetryRelease"} => CanHold(n)
         /\ x \in {"Stopping"} => IsService(n)
         /\ x \in NodeStates
<1>1. Decl(n).kind \in Kinds
  BY PlanTyped DEF NodeDecl
<1> QED BY <1>1 DEF StatesOf, Kinds, CanHold, IsService, Unstarted, NodeStates

LEMMA Counters ==
  ASSUME NEW s \in Slot
  PROVE  /\ s.attempt \in Nat /\ s.attempt + 1 \in Nat
         /\ s.restarts \in Nat /\ s.restarts + 1 \in Nat
BY DEF Slot

-----------------------------------------------------------------------------
(* Slots change together or one at a time.                                 *)

LEMMA AllSlots ==
  ASSUME NEW m, Typed(m), NEW f \in [Node -> Slot], \A n \in Node : f[n].st \in StatesOf(n)
  PROVE  Typed([m EXCEPT !.slot = f])
BY DEF Typed, State

LEMMA OneSlot ==
  ASSUME NEW m, Typed(m), NEW n \in Node, NEW s \in Slot, s.st \in StatesOf(n)
  PROVE  Typed([m EXCEPT !.slot[n] = s])
BY DEF Typed, State

LEMMA SlotTyped ==
  ASSUME NEW m, Typed(m), NEW n \in Node
  PROVE  m.slot[n] \in Slot /\ m.slot[n].st \in StatesOf(n)
BY DEF Typed, State

-----------------------------------------------------------------------------
(* Tasks and records.                                                      *)

LEMMA SpawnTyped ==
  ASSUME NEW m, Typed(m), NEW S \in SUBSET Node, NEW phase \in {"run", "serve", "cleanup"},
         phase = "serve" => \A n \in S : IsService(n)
  PROVE  Typed(Spawn(m, S, phase))
BY DEF Typed, State, Spawn, Body, Due

LEMMA AbortTyped ==
  ASSUME NEW m, Typed(m), NEW S \in SUBSET Node
  PROVE  Typed(Abort(m, S))
BY DEF Typed, State, Abort, Body

LEMMA TaskEndsTyped ==
  ASSUME NEW m, Typed(m), NEW n \in Node
  PROVE  Typed(TaskEnds(m, n))
BY DEF Typed, State, TaskEnds, Body

LEMMA FlushFaultsTyped ==
  ASSUME NEW m, Typed(m), NEW S \in SUBSET Node
  PROVE  Typed(FlushFaults(m, S))
<1> DEFINE flushed(n) == [m.slot[n] EXCEPT !.parked = {}, !.ambiguity = {}]
           slots == [n \in Node |-> IF n \in S THEN flushed(n) ELSE m.slot[n]]
           fs == UNION {{<<n, k>> : k \in m.slot[n].parked} : n \in S}
           as == UNION {{<<n, k>> : k \in m.slot[n].ambiguity} : n \in S}
<1>1. ASSUME NEW n \in Node
      PROVE  /\ flushed(n) \in Slot /\ flushed(n).st \in StatesOf(n)
             /\ m.slot[n] \in Slot /\ m.slot[n].st \in StatesOf(n)
  <2>1. m.slot[n] \in Slot /\ m.slot[n].st \in StatesOf(n)
    BY SlotTyped
  <2> QED BY <2>1 DEF Slot
<1>2. ASSUME NEW n \in Node
      PROVE  m.slot[n].parked \in SUBSET Nat /\ m.slot[n].ambiguity \in SUBSET Nat
  <2> HIDE DEF flushed
  <2> QED BY <1>1 DEF Slot
<1>3. fs \in SUBSET (Node \X Nat) /\ as \in SUBSET (Node \X Nat)
  BY <1>2
<1>4. slots \in [Node -> Slot] /\ \A n \in Node : slots[n].st \in StatesOf(n)
  <2> HIDE DEF flushed
  <2> QED BY <1>1
<1> SUFFICES Typed([m EXCEPT !.slot = slots, !.report.faults = @ \cup fs,
                             !.report.ambiguous = @ \cup as])
  BY DEF FlushFaults
<1> HIDE DEF slots, fs, as
<1> QED BY <1>3, <1>4 DEF Typed, State, Report

LEMMA ParkFaultTyped ==
  ASSUME NEW m, Typed(m), NEW n \in Node, NEW k \in Nat
  PROVE  Typed(ParkFault(m, n, k))
<1> DEFINE s == [m.slot[n] EXCEPT !.parked = @ \cup {k}]
           f == {<<n, k>>}
<1>1. s \in Slot /\ s.st \in StatesOf(n)
  BY SlotTyped DEF Slot
<1>2. f \in SUBSET (Node \X Nat)
  OBVIOUS
<1> SUFFICES Typed([m EXCEPT !.slot[n] = s, !.due.faults = @ \cup f])
  BY DEF ParkFault
<1> HIDE DEF s, f
<1> QED BY <1>1, <1>2 DEF Typed, State, Due

LEMMA AbsorbTyped ==
  ASSUME NEW m, Typed(m), NEW S \in SUBSET Node
  PROVE  Typed(Absorb(m, S))
<1> DEFINE clear(n) == [m.slot[n] EXCEPT !.parked = {}]
           slots == [n \in Node |-> IF n \in S THEN clear(n) ELSE m.slot[n]]
<1>1. ASSUME NEW n \in Node
      PROVE  /\ clear(n) \in Slot /\ clear(n).st \in StatesOf(n)
             /\ m.slot[n] \in Slot /\ m.slot[n].st \in StatesOf(n)
  BY SlotTyped DEF Slot
<1>2. slots \in [Node -> Slot] /\ \A n \in Node : slots[n].st \in StatesOf(n)
  <2> HIDE DEF clear
  <2> QED BY <1>1
<1> SUFFICES Typed([m EXCEPT !.slot = slots, !.due.faults = {f \in @ : f[1] \notin S}])
  BY DEF Absorb
<1> HIDE DEF slots
<1> QED BY <1>2 DEF Typed, State, Due

LEMMA CleanupFailsTyped ==
  ASSUME NEW m, Typed(m), NEW n \in Node
  PROVE  Typed(CleanupFails(m, n))
BY DEF Typed, State, CleanupFails, Report

-----------------------------------------------------------------------------
(* Admission.                                                              *)

LEMMA EnqueueTyped ==
  ASSUME NEW m, Typed(m)
  PROVE  Typed(Enqueue(m))
<1> DEFINE lost   == {n \in In(m, {"Waiting"}) : ~ NeedsReady(m, n)}
           joined == {n \in In(m, {"Pending"}) : NeedsReady(m, n)}
           queued == In(m, {"Waiting"}) \ lost
           moved(n) == [m.slot[n] EXCEPT !.st = IF n \in lost THEN "Pending"
                                                ELSE IF n \in joined THEN "Waiting" ELSE @]
           slots  == [n \in Node |-> moved(n)]
           aheads == [n \in Node |->
                        IF n \in queued THEN m.ahead[n] \cap queued
                        ELSE IF n \in joined THEN queued \cup {u \in joined : Preferred(u, n)}
                        ELSE {}]
<1>1. queued \subseteq Node /\ joined \subseteq Node
  BY DEF In
<1>2. ASSUME NEW n \in Node
      PROVE  moved(n) \in Slot /\ moved(n).st \in StatesOf(n)
  <2>1. m.slot[n] \in Slot /\ m.slot[n].st \in StatesOf(n)
    BY SlotTyped
  <2> HIDE DEF lost, joined
  <2> QED BY <2>1, CommonStates DEF Slot, NodeStates
<1>3. slots \in [Node -> Slot] /\ \A n \in Node : slots[n].st \in StatesOf(n)
  <2> HIDE DEF moved
  <2> QED BY <1>2
<1>4. aheads \in [Node -> SUBSET Node]
  <2> HIDE DEF queued, joined
  <2> QED BY <1>1
<1> SUFFICES Typed([m EXCEPT !.scope.st = "Admitting", !.slot = slots, !.ahead = aheads])
  BY DEF Enqueue
<1> HIDE DEF slots, aheads
<1> QED BY <1>3, <1>4 DEF Typed, State, Scope

LEMMA StartedSlotTyped ==
  ASSUME NEW m, Typed(m), NEW n \in Node
  PROVE  StartedSlot(m, n) \in Slot /\ StartedSlot(m, n).st \in StatesOf(n)
<1> DEFINE s == [m.slot[n] EXCEPT !.granted = TRUE, !.held = FALSE, !.cancelling = FALSE,
                             !.signalled = FALSE, !.timingOut = FALSE, !.timedOut = FALSE]
<1>1. m.slot[n] \in Slot /\ plan \in Plans
  BY SlotTyped DEF Typed
<1>2. s \in Slot
  BY <1>1 DEF Slot
<1>3. Decl(n) \in NodeDecl
  BY <1>1, PlanTyped
<1> HIDE DEF s
<1>4. CASE IsService(n) /\ s.initialized
  <2>1. StartedSlot(m, n) = [s EXCEPT !.st = "Ready"]
    BY <1>4 DEF StartedSlot, IsService, s
  <2> QED BY <2>1, <1>2, CommonStates DEF Slot, NodeStates
<1>5. CASE Decl(n).kind = "Join"
  <2>1. StartedSlot(m, n) = [s EXCEPT !.st = "Publishing", !.attempt = @ + 1, !.granted = FALSE,
                                      !.publishing = TRUE]
    BY <1>5 DEF StartedSlot, IsService, s
  <2>2. "Publishing" \in StatesOf(n)
    BY <1>1, <1>5, KindStates
  <2>3. [s EXCEPT !.st = "Publishing", !.attempt = @ + 1, !.granted = FALSE,
                  !.publishing = TRUE] \in Slot
    BY <1>2, Counters DEF Slot, NodeStates
  <2>4. StartedSlot(m, n).st = "Publishing"
    BY <2>1, <1>2 DEF Slot
  <2> QED BY <2>1, <2>2, <2>3, <2>4
<1>6. CASE ~ (IsService(n) /\ s.initialized) /\ Decl(n).kind # "Join"
  <2>1. StartedSlot(m, n) = [s EXCEPT !.st = "Running", !.attempt = @ + 1,
                                      !.timer = IF Decl(n).within THEN "Within" ELSE @]
    BY <1>6 DEF StartedSlot, s
  <2>2. "Running" \in StatesOf(n)
    BY <1>1, <1>6, KindStates
  <2>3. [s EXCEPT !.st = "Running", !.attempt = @ + 1,
                  !.timer = IF Decl(n).within THEN "Within" ELSE @] \in Slot
    BY <1>2, Counters DEF Slot, NodeStates
  <2>4. StartedSlot(m, n).st = "Running"
    BY <2>1, <1>2 DEF Slot
  <2> QED BY <2>1, <2>2, <2>3, <2>4
<1> QED BY <1>4, <1>5, <1>6

LEMMA StartTyped ==
  ASSUME NEW m, Typed(m), NEW G \in SUBSET Node
  PROVE  Typed(Start(m, G))
<1> DEFINE recovered == {n \in G : IsService(n) /\ m.slot[n].initialized}
           spawned   == {n \in G \ recovered : Decl(n).kind # "Join"}
           slots == [n \in Node |-> IF n \in G THEN StartedSlot(m, n) ELSE m.slot[n]]
           aheads == [n \in Node |-> IF n \in G THEN {} ELSE m.ahead[n] \ G]
           started == [m EXCEPT !.slot = slots, !.ahead = aheads]
<1>1. slots \in [Node -> Slot] /\ \A n \in Node : slots[n].st \in StatesOf(n)
  BY StartedSlotTyped, SlotTyped
<1>2. aheads \in [Node -> SUBSET Node]
  BY DEF Typed, State
<1>3. Typed(started)
  <2> HIDE DEF slots, aheads
  <2> QED BY <1>1, <1>2 DEF Typed, State
<1>4. recovered \in SUBSET Node /\ spawned \in SUBSET Node
  OBVIOUS
<1>5. Start(m, G) = Spawn(Spawn(Absorb(started, recovered), recovered, "serve"), spawned, "run")
  BY DEF Start
<1>6. \A n \in recovered : IsService(n)
  OBVIOUS
<1> HIDE DEF started, recovered, spawned
<1>7. Typed(Absorb(started, recovered))
  BY <1>3, <1>4, AbsorbTyped
<1>8. Typed(Spawn(Absorb(started, recovered), recovered, "serve"))
  BY <1>4, <1>7, <1>6, SpawnTyped
<1>9. Typed(Spawn(Spawn(Absorb(started, recovered), recovered, "serve"), spawned, "run"))
  BY <1>4, <1>8, SpawnTyped
<1> QED BY <1>5, <1>9

-----------------------------------------------------------------------------
(* Settling.                                                               *)

LEMMA InterruptedSlotTyped ==
  ASSUME NEW m, Typed(m), NEW n \in Node
  PROVE  InterruptedSlot(m, n) \in Slot /\ InterruptedSlot(m, n).st = m.slot[n].st
<1>1. m.slot[n] \in Slot
  BY SlotTyped
<1> QED BY <1>1 DEF InterruptedSlot, Slot

LEMMA SettledSlotTyped ==
  ASSUME NEW m, Typed(m), NEW n \in Node
  PROVE  SettledSlot(m, n) \in Slot /\ SettledSlot(m, n).st \in StatesOf(n)
<1> DEFINE s == m.slot[n]
<1>1. s \in Slot /\ s.st \in StatesOf(n) /\ plan \in Plans
  BY SlotTyped DEF Typed
<1>2. s.st = "Backoff" => "Interrupted" \in StatesOf(n)
  BY <1>1, StatesKind, KindStates
<1>3. /\ [s EXCEPT !.st = "Skipped"] \in Slot
      /\ [s EXCEPT !.st = "Skipped"].st = "Skipped"
      /\ [s EXCEPT !.st = "Interrupted", !.timer = "none",
                   !.attempt = IF IsService(n) /\ s.initialized THEN @ ELSE @ + 1] \in Slot
      /\ [s EXCEPT !.st = "Interrupted", !.timer = "none",
                   !.attempt = IF IsService(n) /\ s.initialized THEN @ ELSE @ + 1].st = "Interrupted"
  <2> HIDE DEF s
  <2> QED BY <1>1, Counters DEF Slot, NodeStates
<1>4. InterruptedSlot(m, n) \in Slot /\ InterruptedSlot(m, n).st \in StatesOf(n)
  BY <1>1, InterruptedSlotTyped
<1>5. "Skipped" \in StatesOf(n)
  BY CommonStates
<1> QED BY <1>1, <1>2, <1>3, <1>4, <1>5 DEF SettledSlot

LEMMA SettleTyped ==
  ASSUME NEW m, Typed(m), NEW cause \in {"Fault", "Cancel", "Shutdown", "Finite", "Terminal"}
  PROVE  Typed(Settle(m, cause))
<1> DEFINE f == Abort(FlushFaults(m, CutShort(m)), Dropped(m))
           slots == [n \in Node |-> SettledSlot(f, n)]
<1>1. CutShort(m) \in SUBSET Node /\ Dropped(m) \in SUBSET Node
  BY DEF CutShort, Dropped, In
<1>2. Typed(f)
  BY <1>1, FlushFaultsTyped, AbortTyped
<1>3. plan.bounded \in BOOLEAN
  BY PlanTyped DEF Typed
<1>4. Settle(m, cause) =
        IF ~ Admits(m) THEN m
        ELSE [f EXCEPT !.scope.st = "Settling", !.scope.cause = cause,
                       !.scope.budget = plan.bounded, !.slot = slots,
                       !.ahead = [n \in Node |-> {}]]
  BY DEF Settle
<1> HIDE DEF f
<1>5. slots \in [Node -> Slot] /\ \A n \in Node : slots[n].st \in StatesOf(n)
  BY <1>2, SettledSlotTyped
<1> HIDE DEF slots
<1>6. Typed([f EXCEPT !.scope.st = "Settling", !.scope.cause = cause,
                      !.scope.budget = plan.bounded, !.slot = slots,
                      !.ahead = [n \in Node |-> {}]])
  BY <1>2, <1>3, <1>5 DEF Typed, State, Scope
<1> QED BY <1>4, <1>6

LEMMA CheckSteadyTyped ==
  ASSUME NEW m, Typed(m)
  PROVE  Typed(CheckSteady(m))
<1> DEFINE steady == [m EXCEPT !.scope.st = "Steady"]
<1>1. Typed(steady)
  BY DEF Typed, State, Scope
<1>2. CheckSteady(m) \in {m, steady, Settle(steady, "Finite")}
  BY DEF CheckSteady
<1> HIDE DEF steady
<1>3. Typed(Settle(steady, "Finite"))
  BY <1>1, SettleTyped
<1> QED BY <1>1, <1>2, <1>3

-----------------------------------------------------------------------------
(* Cleanup.                                                                *)

LEMMA ObligationSlotTyped ==
  ASSUME NEW m, Typed(m), NEW n \in Node, Owes(m, n)
  PROVE  ObligationSlot(m, n) \in Slot /\ ObligationSlot(m, n).st \in StatesOf(n)
<1> DEFINE s == m.slot[n]
<1>1. s \in Slot /\ plan \in Plans
  BY SlotTyped DEF Typed
<1>2. Decl(n).kind \in {"Resource", "Effect"} \/ IsService(n)
  BY DEF Owes, CanOwe, CanHold, RecoversAmbiguity
<1>3. CASE Decl(n).kind = "Resource"
  <2>1. ObligationSlot(m, n) = [s EXCEPT !.st = "Releasing"]
    BY <1>3 DEF ObligationSlot, IsService
  <2>2. [s EXCEPT !.st = "Releasing"] \in Slot /\ [s EXCEPT !.st = "Releasing"].st = "Releasing"
    BY <1>1 DEF Slot, NodeStates
  <2> QED BY <2>1, <2>2, <1>1, <1>3, KindStates
<1>4. CASE Decl(n).kind = "Effect"
  <2> DEFINE t == [s EXCEPT !.st = "Compensating", !.recovering = s.st = "Ambiguous"]
  <2>1. ObligationSlot(m, n) = t
    BY <1>4 DEF ObligationSlot, IsService
  <2>2. t \in Slot /\ t.st = "Compensating"
    BY <1>1 DEF Slot, NodeStates
  <2> HIDE DEF t
  <2> QED BY <2>1, <2>2, <1>1, <1>4, KindStates
<1>5. CASE IsService(n)
  <2> DEFINE t == [s EXCEPT !.st = "Stopping",
                     !.timer = IF Decl(n).stopWithin \/ plan.bounded THEN "StopDeadline" ELSE @]
  <2>1. ObligationSlot(m, n) = t
    BY <1>5 DEF ObligationSlot, IsService
  <2>2. t \in Slot /\ t.st = "Stopping"
    BY <1>1 DEF Slot, NodeStates
  <2> HIDE DEF t
  <2> QED BY <2>1, <2>2, <1>1, <1>5, KindStates
<1> QED BY <1>2, <1>3, <1>4, <1>5

LEMMA StartObligationsTyped ==
  ASSUME NEW m, Typed(m), NEW S \in SUBSET Node, \A n \in S : Owes(m, n)
  PROVE  Typed(StartObligations(m, S))
<1> DEFINE slots == [n \in Node |-> IF n \in S THEN ObligationSlot(m, n) ELSE m.slot[n]]
           begun == [m EXCEPT !.slot = slots]
           bodies == {n \in S : ~ IsService(n)}
<1>1. slots \in [Node -> Slot] /\ \A n \in Node : slots[n].st \in StatesOf(n)
  BY ObligationSlotTyped, SlotTyped
<1>2. Typed(begun)
  <2> HIDE DEF slots
  <2> QED BY <1>1, AllSlots
<1>3. bodies \in SUBSET Node
  OBVIOUS
<1>4. StartObligations(m, S) = Spawn(begun, bodies, "cleanup")
  BY DEF StartObligations
<1> HIDE DEF begun, bodies
<1> QED BY <1>2, <1>3, <1>4, SpawnTyped

LEMMA AdvanceCleanupTyped ==
  ASSUME NEW m, Typed(m)
  PROVE  Typed(AdvanceCleanup(m))
<1> DEFINE S == {n \in Node : Owes(m, n) /\ GateOpen(m, n)}
           a == StartObligations(m, S)
<1>1. Typed(a)
  BY StartObligationsTyped
<1>2. AdvanceCleanup(m) \in {a, [a EXCEPT !.scope.zero = TRUE]}
  BY DEF AdvanceCleanup
<1> HIDE DEF a
<1>3. Typed([a EXCEPT !.scope.zero = TRUE])
  BY <1>1 DEF Typed, State, Scope
<1> QED BY <1>1, <1>2, <1>3

LEMMA EndTyped ==
  ASSUME NEW m, Typed(m)
  PROVE  Typed(End(m))
<1>1. Outcome(m) \in {"none", "Ok", "Failed", "Cancelled"}
  BY DEF Outcome
<1> QED BY <1>1 DEF End, Typed, State, Scope, Report

LEMMA TryCleanupTyped ==
  ASSUME NEW m, Typed(m)
  PROVE  Typed(TryCleanup(m))
<1> DEFINE open == m.scope.st = "Settling" /\ \A n \in Node : ~ InFlight(m, n)
           c == IF open THEN [m EXCEPT !.scope.st = "Cleanup"] ELSE m
           a == IF c.scope.st = "Cleanup" THEN AdvanceCleanup(c) ELSE c
<1>1. Typed([m EXCEPT !.scope.st = "Cleanup"])
  BY DEF Typed, State, Scope
<1>2. Typed(c)
  BY <1>1
<1>3. TryCleanup(m) \in {a, End(a)}
  BY DEF TryCleanup
<1> HIDE DEF c
<1>4. Typed(a)
  BY <1>2, AdvanceCleanupTyped
<1> HIDE DEF a
<1> QED BY <1>3, <1>4, EndTyped

LEMMA BecomeTyped ==
  ASSUME NEW m, Typed(m), Become(m)
  PROVE  TypeOK'
<1>1. Here' = m
  BY DEF Become, Here, Typed, State
<1> QED BY <1>1 DEF Become, TypeOK, Typed, Here, StatesOf, IsService, Decl, Unstarted

LEMMA AfterSettleTyped ==
  ASSUME NEW m, Typed(m), AfterSettle(m)
  PROVE  TypeOK'
<1>1. CASE Admits(m)
  <2> DEFINE q == Enqueue(m)
  <2>1. PICK G \in SUBSET In(q, {"Waiting"}) : Become(TryCleanup(CheckSteady(Start(q, G))))
    BY <1>1 DEF AfterSettle
  <2>2. Typed(q)
    BY EnqueueTyped
  <2> HIDE DEF q
  <2>3. G \in SUBSET Node
    BY DEF In
  <2>4. Typed(TryCleanup(CheckSteady(Start(q, G))))
    BY <2>2, <2>3, StartTyped, CheckSteadyTyped, TryCleanupTyped
  <2> QED BY <2>1, <2>4, BecomeTyped
<1>2. CASE ~ Admits(m)
  BY <1>2, TryCleanupTyped, BecomeTyped DEF AfterSettle
<1> QED BY <1>1, <1>2

-----------------------------------------------------------------------------
(* Failure.                                                                *)

LEMMA AbandonTyped ==
  ASSUME NEW m, Typed(m), NEW S \in SUBSET Node,
         \A n \in S : "Abandoned" \in StatesOf(n)
  PROVE  Typed(Abandon(m, S))
<1> DEFINE f == FlushFaults(Abort(m, {n \in S : Decl(n).kind # "BlockingStep"}), S)
           gone(n) == [f.slot[n] EXCEPT !.st = "Abandoned", !.timer = "none",
                           !.granted = FALSE, !.cancelling = FALSE, !.timedOut = FALSE]
           slots == [n \in Node |-> IF n \in S THEN gone(n) ELSE f.slot[n]]
           fails == {n \in S : m.slot[n].st = "Compensating" /\ m.slot[n].recovering}
<1>1. Typed(f)
  BY AbortTyped, FlushFaultsTyped
<1>2. Abandon(m, S) = [f EXCEPT !.slot = slots,
                                !.report.incomplete = @ \cup S,
                                !.report.cleanupFailures = @ \cup fails,
                                !.due.held = @ \ S]
  BY DEF Abandon
<1> HIDE DEF f
<1>3. ASSUME NEW n \in S
      PROVE  gone(n) \in Slot /\ gone(n).st = "Abandoned"
  <2>1. f.slot[n] \in Slot
    BY <1>1, SlotTyped
  <2> QED BY <2>1 DEF Slot, NodeStates
<1>4. slots \in [Node -> Slot] /\ \A n \in Node : slots[n].st \in StatesOf(n)
  <2> HIDE DEF gone
  <2> QED BY <1>1, <1>3, SlotTyped
<1>5. fails \in SUBSET Node
  OBVIOUS
<1> HIDE DEF slots, fails
<1>6. Typed([f EXCEPT !.slot = slots,
                      !.report.incomplete = @ \cup S,
                      !.report.cleanupFailures = @ \cup fails,
                      !.due.held = @ \ S])
  BY <1>1, <1>4, <1>5 DEF Typed, State, Report, Due
<1> QED BY <1>2, <1>6

LEMMA SkipDependentsTyped ==
  ASSUME NEW m, Typed(m), NEW n \in Node
  PROVE  Typed(SkipDependents(m, n))
<1> DEFINE S == SkippedBy(m, n)
           f == FlushFaults(m, S)
           skipped(d) == [f.slot[d] EXCEPT !.st = "Skipped"]
           slots == [d \in Node |-> IF d \in S THEN skipped(d) ELSE f.slot[d]]
           aheads == [d \in Node |-> IF d \in S THEN {} ELSE f.ahead[d] \ S]
<1>1. S \in SUBSET Node
  BY DEF SkippedBy
<1>2. SkipDependents(m, n) = [f EXCEPT !.slot = slots, !.ahead = aheads]
  BY DEF SkipDependents
<1> HIDE DEF S
<1>3. Typed(f)
  BY <1>1, FlushFaultsTyped
<1> HIDE DEF f
<1>4. ASSUME NEW d \in Node
      PROVE  /\ skipped(d) \in Slot /\ skipped(d).st \in StatesOf(d)
             /\ f.slot[d] \in Slot /\ f.slot[d].st \in StatesOf(d)
  <2>1. f.slot[d] \in Slot /\ f.slot[d].st \in StatesOf(d)
    BY <1>3, SlotTyped
  <2> QED BY <2>1, CommonStates DEF Slot, NodeStates
<1>5. slots \in [Node -> Slot] /\ \A d \in Node : slots[d].st \in StatesOf(d)
  <2> HIDE DEF skipped
  <2> QED BY <1>4
<1>6. aheads \in [Node -> SUBSET Node]
  BY <1>3 DEF Typed, State
<1> HIDE DEF slots, aheads
<1> QED BY <1>2, <1>3, <1>5, <1>6 DEF Typed, State

LEMMA ApplyPolicyTyped ==
  ASSUME NEW m, Typed(m), NEW n \in Node
  PROVE  Typed(ApplyPolicy(m, n))
<1> DEFINE f == FlushFaults(m, {n})
<1>1. Typed(f)
  BY FlushFaultsTyped
<1>2. ApplyPolicy(m, n) \in {Settle(f, "Fault"), SkipDependents(f, n)}
  BY DEF ApplyPolicy
<1> HIDE DEF f
<1> QED BY <1>1, <1>2, SettleTyped, SkipDependentsTyped

LEMMA NodeFailedTyped ==
  ASSUME NEW m, Typed(m), NEW n \in Node
  PROVE  Typed(NodeFailed(m, n))
<1> DEFINE s == [m.slot[n] EXCEPT !.st = "Failed"]
<1>1. m.slot[n] \in Slot
  BY SlotTyped
<1>2. s \in Slot /\ s.st \in StatesOf(n)
  BY <1>1, CommonStates DEF Slot, NodeStates
<1>3. NodeFailed(m, n) = ApplyPolicy([m EXCEPT !.slot[n] = s], n)
  BY DEF NodeFailed, Typed, State
<1> HIDE DEF s
<1> QED BY <1>2, <1>3, OneSlot, ApplyPolicyTyped

LEMMA BackoffTyped ==
  ASSUME NEW m, Typed(m), NEW n \in Node, "Backoff" \in StatesOf(n)
  PROVE  Typed(Backoff(m, n))
<1> DEFINE s == [m.slot[n] EXCEPT !.st = "Pending"]
           t == [m.slot[n] EXCEPT !.st = "Backoff", !.timer = "Backoff"]
<1>1. m.slot[n] \in Slot
  BY SlotTyped
<1>2. s \in Slot /\ s.st \in StatesOf(n) /\ t \in Slot /\ t.st \in StatesOf(n)
  BY <1>1, CommonStates DEF Slot, NodeStates
<1>3. Backoff(m, n) \in {[m EXCEPT !.slot[n] = s], [m EXCEPT !.slot[n] = t]}
  BY DEF Backoff, Typed, State
<1> HIDE DEF s, t
<1> QED BY <1>2, <1>3, OneSlot

LEMMA AfterFailedAttemptTyped ==
  ASSUME NEW m, Typed(m), NEW n \in Node, "Backoff" \in StatesOf(n)
  PROVE  Typed(AfterFailedAttempt(m, n))
<1> DEFINE s == [m.slot[n] EXCEPT !.granted = FALSE, !.timer = "none",
                   !.cancelling = FALSE, !.timingOut = FALSE, !.timedOut = FALSE]
           f == [m EXCEPT !.slot[n] = s]
           t == [f.slot[n] EXCEPT !.st = "RetryRelease"]
<1>1. m.slot[n] \in Slot /\ m.slot[n].st \in StatesOf(n)
  BY SlotTyped
<1>2. s \in Slot /\ s.st \in StatesOf(n)
  BY <1>1 DEF Slot
<1>3. Typed(f)
  <2> HIDE DEF s
  <2> QED BY <1>2, OneSlot
<1>4. \/ AfterFailedAttempt(m, n) = NodeFailed(f, n)
      \/ AfterFailedAttempt(m, n) = Backoff(f, n)
      \/ /\ CanOwe(n)
         /\ AfterFailedAttempt(m, n) = Spawn([f EXCEPT !.slot[n] = t], {n}, "cleanup")
  BY DEF AfterFailedAttempt, Typed, State
<1> HIDE DEF f
<1>5. CASE CanOwe(n)
  <2>1. t \in Slot /\ t.st = "RetryRelease"
    <3>1. f.slot[n] \in Slot
      BY <1>3, SlotTyped
    <3> QED BY <3>1 DEF Slot, NodeStates
  <2>2. "RetryRelease" \in StatesOf(n)
    BY <1>3, <1>5, KindStates DEF CanOwe, Typed
  <2> HIDE DEF t
  <2>3. Typed([f EXCEPT !.slot[n] = t])
    BY <1>3, <2>1, <2>2, OneSlot
  <2>4. Typed(Spawn([f EXCEPT !.slot[n] = t], {n}, "cleanup"))
    BY <2>3, SpawnTyped
  <2> QED BY <1>3, <1>4, <2>4, NodeFailedTyped, BackoffTyped
<1> QED BY <1>3, <1>4, <1>5, NodeFailedTyped, BackoffTyped

LEMMA FailAttemptTyped ==
  ASSUME NEW m, Typed(m), NEW n \in Node, "Backoff" \in StatesOf(n)
  PROVE  Typed(FailAttempt(m, n))
<1>1. m.slot[n].attempt \in Nat
  BY SlotTyped, Counters
<1> QED BY <1>1, ParkFaultTyped, AfterFailedAttemptTyped DEF FailAttempt

LEMMA BecomeAmbiguousTyped ==
  ASSUME NEW m, Typed(m), NEW n \in Node, "Ambiguous" \in StatesOf(n)
  PROVE  Typed(BecomeAmbiguous(m, n))
<1> DEFINE k == m.slot[n].attempt
           s == [m.slot[n] EXCEPT !.st = "Ambiguous", !.ambiguity = {k}]
           a == {<<n, k>>}
<1>1. m.slot[n] \in Slot /\ k \in Nat
  BY SlotTyped, Counters
<1> SUFFICES Typed([m EXCEPT !.slot[n] = s, !.due.ambiguous = @ \cup a])
  BY DEF BecomeAmbiguous, Typed, State
<1>3. s \in Slot /\ s.st = "Ambiguous"
  <2> HIDE DEF k
  <2> QED BY <1>1 DEF Slot, NodeStates
<1>4. a \in SUBSET (Node \X Nat)
  <2> HIDE DEF k
  <2> QED BY <1>1
<1>5. s.st \in StatesOf(n)
  BY <1>3
<1> HIDE DEF s, a
<1> QED BY <1>3, <1>4, <1>5 DEF Typed, State, Due

-----------------------------------------------------------------------------
(* Quiet stages.                                                           *)

QuietSlot(s, t) ==
  /\ t.granted => s.granted
  /\ t.st = "Waiting" => s.st = "Waiting"

Quiet(m, x) ==
  /\ \A n \in Node : QuietSlot(m.slot[n], x.slot[n])
  /\ \A u, w \in Node :
       x.slot[u].st = "Waiting" /\ x.slot[w].st = "Waiting" =>
         (u \in x.ahead[w] <=> u \in m.ahead[w])

LEMMA QuietRefl == ASSUME NEW m PROVE Quiet(m, m)
BY DEF Quiet, QuietSlot

LEMMA QuietTrans ==
  ASSUME NEW m, NEW x, NEW y, Quiet(m, x), Quiet(x, y)
  PROVE  Quiet(m, y)
BY DEF Quiet, QuietSlot

LEMMA SlotsQuiet ==
  ASSUME NEW m, Typed(m), NEW f \in [Node -> Slot],
         \A n \in Node : QuietSlot(m.slot[n], f[n])
  PROVE  Quiet(m, [m EXCEPT !.slot = f])
BY DEF Typed, State, Quiet, QuietSlot

LEMMA SlotQuiet ==
  ASSUME NEW m, Typed(m), NEW n \in Node, NEW s \in Slot, QuietSlot(m.slot[n], s)
  PROVE  Quiet(m, [m EXCEPT !.slot[n] = s])
BY DEF Typed, State, Quiet, QuietSlot

LEMMA SameQuiet ==
  ASSUME NEW m, NEW x, x.slot = m.slot, x.ahead = m.ahead
  PROVE  Quiet(m, x)
BY DEF Quiet, QuietSlot

-----------------------------------------------------------------------------
(* The quiet stages.                                                       *)

LEMMA SpawnQuiet == ASSUME NEW m, Typed(m), NEW S, NEW phase PROVE Quiet(m, Spawn(m, S, phase))
<1>1. Spawn(m, S, phase).slot = m.slot /\ Spawn(m, S, phase).ahead = m.ahead
  BY DEF Typed, State, Spawn
<1> QED BY <1>1, SameQuiet

LEMMA AbortQuiet == ASSUME NEW m, Typed(m), NEW S PROVE Quiet(m, Abort(m, S))
<1>1. Abort(m, S).slot = m.slot /\ Abort(m, S).ahead = m.ahead
  BY DEF Typed, State, Abort
<1> QED BY <1>1, SameQuiet

LEMMA TaskEndsQuiet == ASSUME NEW m, Typed(m), NEW n PROVE Quiet(m, TaskEnds(m, n))
<1>1. TaskEnds(m, n).slot = m.slot /\ TaskEnds(m, n).ahead = m.ahead
  BY DEF Typed, State, TaskEnds
<1> QED BY <1>1, SameQuiet

LEMMA CleanupFailsQuiet == ASSUME NEW m, Typed(m), NEW n PROVE Quiet(m, CleanupFails(m, n))
<1>1. CleanupFails(m, n).slot = m.slot /\ CleanupFails(m, n).ahead = m.ahead
  BY DEF Typed, State, CleanupFails
<1> QED BY <1>1, SameQuiet

LEMMA EndQuiet == ASSUME NEW m, Typed(m) PROVE Quiet(m, End(m))
<1>1. End(m).slot = m.slot /\ End(m).ahead = m.ahead
  BY DEF Typed, State, End
<1> QED BY <1>1, SameQuiet

LEMMA FlushFaultsQuiet ==
  ASSUME NEW m, Typed(m), NEW S \in SUBSET Node
  PROVE  Quiet(m, FlushFaults(m, S))
<1>1. FlushFaults(m, S).ahead = m.ahead
  BY DEF Typed, State, FlushFaults
<1>2. ASSUME NEW n \in Node
      PROVE  /\ FlushFaults(m, S).slot[n].st = m.slot[n].st
             /\ FlushFaults(m, S).slot[n].granted = m.slot[n].granted
  <2>1. m.slot[n] \in Slot
    BY SlotTyped
  <2>2. FlushFaults(m, S).slot[n] =
          IF n \in S THEN [m.slot[n] EXCEPT !.parked = {}, !.ambiguity = {}] ELSE m.slot[n]
    BY DEF Typed, State, FlushFaults
  <2> QED BY <2>1, <2>2 DEF Slot
<1> QED BY <1>1, <1>2 DEF Quiet, QuietSlot

LEMMA ParkFaultQuiet ==
  ASSUME NEW m, Typed(m), NEW n \in Node, NEW k
  PROVE  Quiet(m, ParkFault(m, n, k))
<1>1. ParkFault(m, n, k).ahead = m.ahead
  BY DEF Typed, State, ParkFault
<1>2. ASSUME NEW d \in Node
      PROVE  /\ ParkFault(m, n, k).slot[d].st = m.slot[d].st
             /\ ParkFault(m, n, k).slot[d].granted = m.slot[d].granted
  <2>1. m.slot[d] \in Slot
    BY SlotTyped
  <2>2. ParkFault(m, n, k).slot[d] =
          IF d = n THEN [m.slot[n] EXCEPT !.parked = @ \cup {k}] ELSE m.slot[d]
    BY DEF Typed, State, ParkFault
  <2> QED BY <2>1, <2>2 DEF Slot
<1> QED BY <1>1, <1>2 DEF Quiet, QuietSlot

LEMMA AbsorbQuiet ==
  ASSUME NEW m, Typed(m), NEW S \in SUBSET Node
  PROVE  Quiet(m, Absorb(m, S))
<1>1. Absorb(m, S).ahead = m.ahead
  BY DEF Typed, State, Absorb
<1>2. ASSUME NEW n \in Node
      PROVE  /\ Absorb(m, S).slot[n].st = m.slot[n].st
             /\ Absorb(m, S).slot[n].granted = m.slot[n].granted
  <2>1. m.slot[n] \in Slot
    BY SlotTyped
  <2>2. Absorb(m, S).slot[n] =
          IF n \in S THEN [m.slot[n] EXCEPT !.parked = {}] ELSE m.slot[n]
    BY DEF Typed, State, Absorb
  <2> QED BY <2>1, <2>2 DEF Slot
<1> QED BY <1>1, <1>2 DEF Quiet, QuietSlot

LEMMA SettledSlotQuiet ==
  ASSUME NEW m, Typed(m), NEW n \in Node
  PROVE  QuietSlot(m.slot[n], SettledSlot(m, n)) /\ SettledSlot(m, n).st # "Waiting"
<1> DEFINE s == m.slot[n]
           i == [s EXCEPT !.cancelling = TRUE]
           skipped == [s EXCEPT !.st = "Skipped"]
           cut == [s EXCEPT !.st = "Interrupted", !.timer = "none",
                     !.attempt = IF IsService(n) /\ s.initialized THEN @ ELSE @ + 1]
           told == InterruptedSlot(m, n)
<1>1. s \in Slot
  BY SlotTyped
<1>2. skipped.st = "Skipped" /\ skipped.granted = s.granted
  BY <1>1 DEF Slot
<1>3. cut.st = "Interrupted" /\ cut.granted = s.granted
  BY <1>1 DEF Slot
<1>4. told.st = s.st /\ told.granted = s.granted
  BY <1>1 DEF InterruptedSlot, Slot
<1>5. \/ SettledSlot(m, n) = skipped
      \/ SettledSlot(m, n) = cut
      \/ SettledSlot(m, n) = told /\ s.st = "Running"
      \/ SettledSlot(m, n) = s /\ s.st \notin Unstarted
  BY DEF SettledSlot
<1> HIDE DEF s, skipped, cut, told
<1> QED BY <1>2, <1>3, <1>4, <1>5 DEF QuietSlot, Unstarted, s

LEMMA SettleQuiet ==
  ASSUME NEW m, Typed(m), NEW cause
  PROVE  Quiet(m, Settle(m, cause))
<1> DEFINE f == Abort(FlushFaults(m, CutShort(m)), Dropped(m))
           x == [f EXCEPT !.scope.st = "Settling", !.scope.cause = cause,
                       !.scope.budget = plan.bounded,
                       !.slot = [n \in Node |-> SettledSlot(f, n)],
                       !.ahead = [n \in Node |-> {}]]
<1>1. CutShort(m) \in SUBSET Node /\ Dropped(m) \in SUBSET Node
  BY DEF CutShort, Dropped, In
<1>2. Typed(FlushFaults(m, CutShort(m))) /\ Typed(f)
  BY <1>1, FlushFaultsTyped, AbortTyped
<1>3. Quiet(m, f)
  <2>1. Quiet(m, FlushFaults(m, CutShort(m)))
    BY <1>1, FlushFaultsQuiet
  <2>2. Quiet(FlushFaults(m, CutShort(m)), f)
    BY <1>2, AbortQuiet
  <2> HIDE DEF f
  <2> QED BY <2>1, <2>2, QuietTrans
<1>4. Settle(m, cause) = IF ~ Admits(m) THEN m ELSE x
  BY DEF Settle
<1> HIDE DEF f
<1>5. \A n \in Node : x.slot[n] = SettledSlot(f, n)
  BY <1>2 DEF Typed, State
<1> HIDE DEF x
<1>6. Quiet(f, x)
  BY <1>2, <1>5, SettledSlotQuiet DEF Quiet
<1> QED BY <1>3, <1>4, <1>6, QuietRefl, QuietTrans

LEMMA CheckSteadyQuiet ==
  ASSUME NEW m, Typed(m)
  PROVE  Quiet(m, CheckSteady(m))
<1> DEFINE steady == [m EXCEPT !.scope.st = "Steady"]
<1>1. Typed(steady)
  BY DEF Typed, State, Scope
<1>2. Quiet(m, steady)
  BY SameQuiet DEF Typed, State
<1>3. CheckSteady(m) \in {m, steady, Settle(steady, "Finite")}
  BY DEF CheckSteady
<1> HIDE DEF steady
<1> QED BY <1>1, <1>2, <1>3, SettleQuiet, QuietRefl, QuietTrans

LEMMA StartObligationsQuiet ==
  ASSUME NEW m, Typed(m), NEW S \in SUBSET Node, \A n \in S : Owes(m, n)
  PROVE  Quiet(m, StartObligations(m, S))
<1> DEFINE slots == [n \in Node |-> IF n \in S THEN ObligationSlot(m, n) ELSE m.slot[n]]
           begun == [m EXCEPT !.slot = slots]
           bodies == {n \in S : ~ IsService(n)}
<1>1. slots \in [Node -> Slot] /\ \A n \in Node : slots[n].st \in StatesOf(n)
  BY ObligationSlotTyped, SlotTyped
<1>2. ASSUME NEW n \in Node
      PROVE  QuietSlot(m.slot[n], slots[n])
  <2>1. m.slot[n] \in Slot
    BY SlotTyped
  <2>2. CASE n \in S
    <3>1. slots[n] = ObligationSlot(m, n)
      BY <2>2
    <3>2. Decl(n).kind \in {"Resource", "Effect"} \/ IsService(n)
      BY <2>2 DEF Owes, CanOwe, CanHold, RecoversAmbiguity
    <3>3. ObligationSlot(m, n).granted = m.slot[n].granted /\ ObligationSlot(m, n).st # "Waiting"
      BY <2>1, <3>2 DEF ObligationSlot, Slot, IsService
    <3> QED BY <3>1, <3>3 DEF QuietSlot
  <2>3. CASE n \notin S
    BY <2>3 DEF QuietSlot
  <2> QED BY <2>2, <2>3
<1>3. bodies \in SUBSET Node
  OBVIOUS
<1>4. StartObligations(m, S) = Spawn(begun, bodies, "cleanup")
  BY DEF StartObligations
<1> HIDE DEF slots, bodies
<1>5. Typed(begun) /\ Quiet(m, begun)
  BY <1>1, <1>2, AllSlots, SlotsQuiet
<1> HIDE DEF begun
<1>6. Quiet(begun, Spawn(begun, bodies, "cleanup"))
  BY <1>5, SpawnQuiet
<1> QED BY <1>4, <1>5, <1>6, QuietTrans

LEMMA TryCleanupQuiet ==
  ASSUME NEW m, Typed(m)
  PROVE  Quiet(m, TryCleanup(m))
<1> DEFINE open == m.scope.st = "Settling" /\ \A n \in Node : ~ InFlight(m, n)
           c == IF open THEN [m EXCEPT !.scope.st = "Cleanup"] ELSE m
           b == StartObligations(c, {n \in Node : Owes(c, n) /\ GateOpen(c, n)})
           z == [b EXCEPT !.scope.zero = TRUE]
           a == IF c.scope.st = "Cleanup" THEN AdvanceCleanup(c) ELSE c
<1>1. Typed([m EXCEPT !.scope.st = "Cleanup"])
  BY DEF Typed, State, Scope
<1>2. Typed(c)
  BY <1>1
<1>3. c.slot = m.slot /\ c.ahead = m.ahead
  BY DEF Typed, State
<1>4. TryCleanup(m) \in {a, End(a)}
  BY DEF TryCleanup
<1> HIDE DEF c
<1>5. Typed(a) /\ Typed(b)
  BY <1>2, AdvanceCleanupTyped, StartObligationsTyped
<1>6. Quiet(c, b)
  BY <1>2, StartObligationsQuiet
<1>7. a = c \/ a = b \/ a = z
  BY DEF AdvanceCleanup
<1> HIDE DEF a, b
<1>8. Quiet(b, z)
  BY <1>5, SameQuiet DEF Typed, State
<1>9. Quiet(a, End(a))
  BY <1>5, EndQuiet
<1>10. Quiet(m, c)
  BY <1>3, SameQuiet
<1> HIDE DEF z
<1>11. Quiet(m, b) /\ Quiet(m, z)
  BY <1>6, <1>8, <1>10, QuietTrans
<1>12. Quiet(m, a)
  BY <1>7, <1>10, <1>11
<1> QED BY <1>4, <1>9, <1>12, QuietTrans

LEMMA AbandonQuiet ==
  ASSUME NEW m, Typed(m), NEW S \in SUBSET Node
  PROVE  Quiet(m, Abandon(m, S))
<1> DEFINE a == Abort(m, {n \in S : Decl(n).kind # "BlockingStep"})
           f == FlushFaults(a, S)
           gone(n) == [f.slot[n] EXCEPT !.st = "Abandoned", !.timer = "none",
                           !.granted = FALSE, !.cancelling = FALSE, !.timedOut = FALSE]
           x == Abandon(m, S)
<1>1. Typed(a) /\ Typed(f)
  BY AbortTyped, FlushFaultsTyped
<1>2. Quiet(m, a) /\ Quiet(a, f)
  BY <1>1, AbortQuiet, FlushFaultsQuiet
<1>3. /\ x.ahead = f.ahead
      /\ \A n \in Node : x.slot[n] = IF n \in S THEN gone(n) ELSE f.slot[n]
  <2> HIDE DEF a
  <2> QED BY <1>1 DEF Abandon, Typed, State, a
<1> HIDE DEF a, f, x
<1>4. ASSUME NEW n \in Node
      PROVE  QuietSlot(f.slot[n], x.slot[n])
  <2>1. f.slot[n] \in Slot
    BY <1>1, SlotTyped
  <2>2. gone(n).st = "Abandoned" /\ gone(n).granted = FALSE
    BY <2>1 DEF Slot
  <2> HIDE DEF gone
  <2> QED BY <1>3, <2>2 DEF QuietSlot
<1>5. Quiet(f, x)
  BY <1>3, <1>4 DEF Quiet
<1>6. Quiet(m, x)
  BY <1>2, <1>5, QuietTrans
<1> QED BY <1>6 DEF x

LEMMA SkipDependentsQuiet ==
  ASSUME NEW m, Typed(m), NEW n \in Node
  PROVE  Quiet(m, SkipDependents(m, n))
<1> DEFINE S == SkippedBy(m, n)
           f == FlushFaults(m, S)
           skipped(d) == [f.slot[d] EXCEPT !.st = "Skipped"]
           x == SkipDependents(m, n)
<1>1. S \in SUBSET Node
  BY DEF SkippedBy
<1>2. Typed(f) /\ Quiet(m, f)
  BY <1>1, FlushFaultsTyped, FlushFaultsQuiet
<1>3. \A d \in Node :
        /\ x.ahead[d] = IF d \in S THEN {} ELSE f.ahead[d] \ S
        /\ x.slot[d] = IF d \in S THEN skipped(d) ELSE f.slot[d]
  <2> HIDE DEF S
  <2> QED BY <1>2 DEF SkipDependents, Typed, State, S
<1> HIDE DEF f, x, S
<1>4. ASSUME NEW d \in Node
      PROVE  QuietSlot(f.slot[d], x.slot[d]) /\ (x.slot[d].st = "Waiting" => d \notin S)
  <2>1. f.slot[d] \in Slot
    BY <1>2, SlotTyped
  <2>2. skipped(d).st = "Skipped" /\ skipped(d).granted = f.slot[d].granted
    BY <2>1 DEF Slot
  <2> HIDE DEF skipped
  <2> QED BY <1>3, <2>2 DEF QuietSlot
<1>5. Quiet(f, x)
  BY <1>3, <1>4 DEF Quiet
<1>6. Quiet(m, x)
  BY <1>2, <1>5, QuietTrans
<1> QED BY <1>6 DEF x

LEMMA ApplyPolicyQuiet ==
  ASSUME NEW m, Typed(m), NEW n \in Node
  PROVE  Quiet(m, ApplyPolicy(m, n))
<1> DEFINE f == FlushFaults(m, {n})
<1>1. Typed(f) /\ Quiet(m, f)
  BY FlushFaultsTyped, FlushFaultsQuiet
<1>2. ApplyPolicy(m, n) \in {Settle(f, "Fault"), SkipDependents(f, n)}
  BY DEF ApplyPolicy
<1> HIDE DEF f
<1> QED BY <1>1, <1>2, SettleQuiet, SkipDependentsQuiet, QuietTrans

LEMMA NodeFailedQuiet ==
  ASSUME NEW m, Typed(m), NEW n \in Node
  PROVE  Quiet(m, NodeFailed(m, n))
<1> DEFINE s == [m.slot[n] EXCEPT !.st = "Failed"]
           f == [m EXCEPT !.slot[n] = s]
<1>1. m.slot[n] \in Slot
  BY SlotTyped
<1>2. s \in Slot /\ s.st \in StatesOf(n) /\ QuietSlot(m.slot[n], s)
  BY <1>1, CommonStates DEF Slot, NodeStates, QuietSlot
<1>3. NodeFailed(m, n) = ApplyPolicy(f, n)
  BY DEF NodeFailed, Typed, State
<1> HIDE DEF s
<1>4. Typed(f) /\ Quiet(m, f)
  BY <1>2, OneSlot, SlotQuiet
<1> HIDE DEF f
<1> QED BY <1>3, <1>4, ApplyPolicyQuiet, QuietTrans

LEMMA BackoffQuiet ==
  ASSUME NEW m, Typed(m), NEW n \in Node
  PROVE  Quiet(m, Backoff(m, n))
<1> DEFINE s == [m.slot[n] EXCEPT !.st = "Pending"]
           t == [m.slot[n] EXCEPT !.st = "Backoff", !.timer = "Backoff"]
<1>1. m.slot[n] \in Slot
  BY SlotTyped
<1>2. s \in Slot /\ t \in Slot /\ QuietSlot(m.slot[n], s) /\ QuietSlot(m.slot[n], t)
  BY <1>1 DEF Slot, NodeStates, QuietSlot
<1>3. Backoff(m, n) \in {[m EXCEPT !.slot[n] = s], [m EXCEPT !.slot[n] = t]}
  BY DEF Backoff, Typed, State
<1> HIDE DEF s, t
<1> QED BY <1>2, <1>3, SlotQuiet

LEMMA AfterFailedAttemptQuiet ==
  ASSUME NEW m, Typed(m), NEW n \in Node, "Backoff" \in StatesOf(n)
  PROVE  Quiet(m, AfterFailedAttempt(m, n))
<1> DEFINE s == [m.slot[n] EXCEPT !.granted = FALSE, !.timer = "none",
                   !.cancelling = FALSE, !.timingOut = FALSE, !.timedOut = FALSE]
           f == [m EXCEPT !.slot[n] = s]
           t == [f.slot[n] EXCEPT !.st = "RetryRelease"]
           g == [f EXCEPT !.slot[n] = t]
<1>1. m.slot[n] \in Slot /\ m.slot[n].st \in StatesOf(n)
  BY SlotTyped
<1>2. s \in Slot /\ s.st \in StatesOf(n) /\ QuietSlot(m.slot[n], s)
  BY <1>1 DEF Slot, QuietSlot
<1>3. Typed(f) /\ Quiet(m, f)
  <2> HIDE DEF s
  <2> QED BY <1>2, OneSlot, SlotQuiet
<1>4. \/ AfterFailedAttempt(m, n) = NodeFailed(f, n)
      \/ AfterFailedAttempt(m, n) = Backoff(f, n)
      \/ CanOwe(n) /\ AfterFailedAttempt(m, n) = Spawn(g, {n}, "cleanup")
  BY DEF AfterFailedAttempt, Typed, State
<1> HIDE DEF f
<1>5. t \in Slot /\ t.st = "RetryRelease" /\ QuietSlot(f.slot[n], t)
  <2>1. f.slot[n] \in Slot
    BY <1>3, SlotTyped
  <2> QED BY <2>1 DEF Slot, NodeStates, QuietSlot
<1>6. CanOwe(n) => "RetryRelease" \in StatesOf(n)
  BY <1>3, KindStates DEF CanOwe, Typed
<1> HIDE DEF t
<1>7. CanOwe(n) => Typed(g) /\ Quiet(f, g)
  BY <1>3, <1>5, <1>6, OneSlot, SlotQuiet
<1> HIDE DEF g
<1>8. Quiet(m, NodeFailed(f, n)) /\ Quiet(m, Backoff(f, n))
  BY <1>3, NodeFailedQuiet, BackoffQuiet, QuietTrans
<1>9. CanOwe(n) => Quiet(m, Spawn(g, {n}, "cleanup"))
  BY <1>3, <1>7, SpawnQuiet, QuietTrans
<1> QED BY <1>4, <1>8, <1>9

LEMMA FailAttemptQuiet ==
  ASSUME NEW m, Typed(m), NEW n \in Node, "Backoff" \in StatesOf(n)
  PROVE  Quiet(m, FailAttempt(m, n))
<1> DEFINE p == ParkFault(m, n, m.slot[n].attempt)
<1>1. m.slot[n].attempt \in Nat
  BY SlotTyped, Counters
<1>2. Typed(p) /\ Quiet(m, p)
  BY <1>1, ParkFaultTyped, ParkFaultQuiet
<1>3. FailAttempt(m, n) = AfterFailedAttempt(p, n)
  BY DEF FailAttempt
<1> HIDE DEF p
<1> QED BY <1>2, <1>3, AfterFailedAttemptQuiet, QuietTrans

LEMMA BecomeAmbiguousQuiet ==
  ASSUME NEW m, Typed(m), NEW n \in Node
  PROVE  Quiet(m, BecomeAmbiguous(m, n))
<1> DEFINE x == BecomeAmbiguous(m, n)
           k == m.slot[n].attempt
           s == [m.slot[n] EXCEPT !.st = "Ambiguous", !.ambiguity = {k}]
<1>1. m.slot[n] \in Slot
  BY SlotTyped
<1>2. s.st = "Ambiguous" /\ s.granted = m.slot[n].granted
  <2> HIDE DEF k
  <2> QED BY <1>1 DEF Slot
<1>3. /\ x.ahead = m.ahead
      /\ \A d \in Node : x.slot[d] = IF d = n THEN s ELSE m.slot[d]
  BY DEF BecomeAmbiguous, Typed, State
<1> HIDE DEF s
<1> QED BY <1>2, <1>3 DEF Quiet, QuietSlot

-----------------------------------------------------------------------------
(***************************************************************************)
(* What the stages do to the tasks the scope must wait for.  A calm stage  *)
(* starts no body, brings nothing into flight, leaves a node that has a    *)
(* body in a state that admits it, and does not open the release graph.    *)
(* All stages are calm but the pass over the queue, which only happens     *)
(* while the scope admits, and TryCleanup, which looks first.              *)
(***************************************************************************)

InTask(s) == s.st \in {"Running", "Abandoned"}

(* The scope is not up: it was never begun, or its joins are over.         *)
Closed(m) == m.scope.st \in {"Planned", "Cleanup", "Ended"}

(* Nothing has stopped the scope yet.                                      *)
Up(m) == m.scope.st \in {"Planned", "Admitting", "Steady"}

(* The strengthening of JoinsBeforeCleanup: a body's node is in its states,*)
(* and where the scope is closed nothing is in flight.                     *)
Joined(m) ==
  /\ \A n \in Node : m.body[n].phase = "run" => InTask(m.slot[n])
  /\ Closed(m) => \A n \in Node : ~ InFlight(m, n)

CalmSlot(s, t) ==
  /\ t.st = "Running" => s.st = "Running"
  /\ t.publishing => s.publishing

Calm(m, x) ==
  /\ \A n \in Node : CalmSlot(m.slot[n], x.slot[n])
  /\ \A n \in Node : x.body[n].phase = "run" =>
       m.body[n].phase = "run" /\ (InTask(m.slot[n]) => InTask(x.slot[n]))
  /\ Closed(x) => Closed(m)
  /\ Up(x) => Up(m)

(* The state of n may change: its body is over.                            *)
Loose(m, n) == m.body[n].phase = "run" => ~ InTask(m.slot[n])

LEMMA CalmJoined ==
  ASSUME NEW m, NEW x, Joined(m), Calm(m, x)
  PROVE  Joined(x)
BY DEF Joined, Calm, CalmSlot, InFlight

LEMMA CalmRefl == ASSUME NEW m PROVE Calm(m, m)
BY DEF Calm, CalmSlot

LEMMA CalmTrans ==
  ASSUME NEW m, NEW x, NEW y, Calm(m, x), Calm(x, y)
  PROVE  Calm(m, y)
BY DEF Calm, CalmSlot

LEMMA SlotCalm ==
  ASSUME NEW m, Typed(m), NEW n \in Node, NEW s, CalmSlot(m.slot[n], s),
         (InTask(m.slot[n]) => InTask(s)) \/ Loose(m, n)
  PROVE  Calm(m, [m EXCEPT !.slot[n] = s])
<1> DEFINE x == [m EXCEPT !.slot[n] = s]
<1>1. /\ x.body = m.body /\ x.scope = m.scope
      /\ \A d \in Node : x.slot[d] = IF d = n THEN s ELSE m.slot[d]
  BY DEF Typed, State
<1> HIDE DEF x
<1>2. Calm(m, x)
  BY <1>1 DEF Calm, CalmSlot, Closed, Up, Loose
<1> QED BY <1>2 DEF x

(* Only parts that say nothing about states and tasks change.              *)
LEMMA SameCalm ==
  ASSUME NEW m, NEW x, x.scope.st = m.scope.st,
         \A n \in Node : /\ x.slot[n].st = m.slot[n].st
                         /\ x.slot[n].publishing = m.slot[n].publishing
                         /\ x.body[n].phase = "run" => m.body[n].phase = "run"
  PROVE  Calm(m, x)
BY DEF Calm, CalmSlot, InTask, Closed, Up

-----------------------------------------------------------------------------
(* The calm stages.                                                        *)

LEMMA SpawnCalm ==
  ASSUME NEW m, Typed(m), NEW S, NEW phase, phase # "run"
  PROVE  Calm(m, Spawn(m, S, phase))
<1> DEFINE x == Spawn(m, S, phase)
<1>1. /\ x.slot = m.slot /\ x.scope = m.scope
      /\ \A n \in Node : x.body[n] = IF n \in S THEN [phase |-> phase, aborted |-> FALSE]
                                     ELSE m.body[n]
  BY DEF Typed, State, Spawn
<1> HIDE DEF x
<1>2. Calm(m, x)
  BY <1>1, SameCalm
<1> QED BY <1>2 DEF x

LEMMA AbortCalm ==
  ASSUME NEW m, Typed(m), NEW S
  PROVE  Calm(m, Abort(m, S))
<1> DEFINE x == Abort(m, S)
<1>1. /\ x.slot = m.slot /\ x.scope = m.scope
      /\ \A n \in Node : x.body[n] = IF n \in S THEN [m.body[n] EXCEPT !.aborted = TRUE]
                                     ELSE m.body[n]
  BY DEF Typed, State, Abort
<1>2. \A n \in Node : m.body[n] \in Body
  BY DEF Typed, State
<1> HIDE DEF x
<1>3. \A n \in Node : x.body[n].phase = m.body[n].phase
  BY <1>1, <1>2 DEF Body
<1>4. Calm(m, x)
  BY <1>1, <1>3, SameCalm
<1> QED BY <1>4 DEF x

LEMMA TaskEndsCalm ==
  ASSUME NEW m, Typed(m), NEW n \in Node
  PROVE  Calm(m, TaskEnds(m, n)) /\ Loose(TaskEnds(m, n), n)
<1> DEFINE x == TaskEnds(m, n)
<1>1. /\ x.slot = m.slot /\ x.scope = m.scope
      /\ \A d \in Node : x.body[d] = IF d = n THEN [phase |-> "none", aborted |-> FALSE]
                                     ELSE m.body[d]
  BY DEF Typed, State, TaskEnds
<1> HIDE DEF x
<1>2. Calm(m, x) /\ Loose(x, n)
  BY <1>1, SameCalm DEF Loose
<1> QED BY <1>2 DEF x

LEMMA CleanupFailsCalm ==
  ASSUME NEW m, Typed(m), NEW n
  PROVE  Calm(m, CleanupFails(m, n))
<1> DEFINE x == CleanupFails(m, n)
<1>1. x.slot = m.slot /\ x.scope = m.scope /\ x.body = m.body
  BY DEF Typed, State, CleanupFails
<1> HIDE DEF x
<1>2. Calm(m, x)
  BY <1>1, SameCalm
<1> QED BY <1>2 DEF x

LEMMA EndCalm ==
  ASSUME NEW m, Typed(m), Closed(m)
  PROVE  Calm(m, End(m))
<1> DEFINE x == End(m)
<1>1. x.slot = m.slot /\ x.body = m.body /\ ~ Up(x)
  BY DEF Typed, State, Scope, End, Up
<1> HIDE DEF x
<1>2. Calm(m, x)
  BY <1>1 DEF Calm, CalmSlot
<1> QED BY <1>2 DEF x

LEMMA FlushFaultsCalm ==
  ASSUME NEW m, Typed(m), NEW S \in SUBSET Node
  PROVE  Calm(m, FlushFaults(m, S))
<1> DEFINE x == FlushFaults(m, S)
           t(n) == [m.slot[n] EXCEPT !.parked = {}, !.ambiguity = {}]
<1>1. /\ x.scope = m.scope /\ x.body = m.body
      /\ \A n \in Node : x.slot[n] = IF n \in S THEN t(n) ELSE m.slot[n]
  BY DEF Typed, State, FlushFaults
<1>2. ASSUME NEW n \in Node
      PROVE  t(n).st = m.slot[n].st /\ t(n).publishing = m.slot[n].publishing
  <2>1. m.slot[n] \in Slot
    BY SlotTyped
  <2> QED BY <2>1 DEF Slot
<1> HIDE DEF x, t
<1>3. Calm(m, x)
  BY <1>1, <1>2, SameCalm
<1> QED BY <1>3 DEF x

LEMMA ParkFaultCalm ==
  ASSUME NEW m, Typed(m), NEW n \in Node, NEW k
  PROVE  /\ Calm(m, ParkFault(m, n, k))
         /\ ParkFault(m, n, k).body = m.body
         /\ ParkFault(m, n, k).slot[n].st = m.slot[n].st
<1> DEFINE x == ParkFault(m, n, k)
           t == [m.slot[n] EXCEPT !.parked = @ \cup {k}]
<1>1. /\ x.scope = m.scope /\ x.body = m.body
      /\ \A d \in Node : x.slot[d] = IF d = n THEN t ELSE m.slot[d]
  BY DEF Typed, State, ParkFault
<1>2. t.st = m.slot[n].st /\ t.publishing = m.slot[n].publishing
  <2>1. m.slot[n] \in Slot
    BY SlotTyped
  <2> QED BY <2>1 DEF Slot
<1> HIDE DEF x, t
<1>3. Calm(m, x)
  BY <1>1, <1>2, SameCalm
<1> QED BY <1>1, <1>2, <1>3 DEF x

LEMMA AbsorbCalm ==
  ASSUME NEW m, Typed(m), NEW S \in SUBSET Node
  PROVE  /\ Calm(m, Absorb(m, S))
         /\ Absorb(m, S).body = m.body
         /\ \A n \in Node : Absorb(m, S).slot[n].st = m.slot[n].st
<1> DEFINE x == Absorb(m, S)
           t(n) == [m.slot[n] EXCEPT !.parked = {}]
<1>1. /\ x.scope = m.scope /\ x.body = m.body
      /\ \A n \in Node : x.slot[n] = IF n \in S THEN t(n) ELSE m.slot[n]
  BY DEF Typed, State, Absorb
<1>2. ASSUME NEW n \in Node
      PROVE  t(n).st = m.slot[n].st /\ t(n).publishing = m.slot[n].publishing
  <2>1. m.slot[n] \in Slot
    BY SlotTyped
  <2> QED BY <2>1 DEF Slot
<1> HIDE DEF x, t
<1>3. Calm(m, x)
  BY <1>1, <1>2, SameCalm
<1> QED BY <1>1, <1>2, <1>3 DEF x

LEMMA SettleCalm ==
  ASSUME NEW m, Typed(m), NEW cause
  PROVE  Calm(m, Settle(m, cause))
<1> DEFINE f == Abort(FlushFaults(m, CutShort(m)), Dropped(m))
           x == [f EXCEPT !.scope.st = "Settling", !.scope.cause = cause,
                       !.scope.budget = plan.bounded,
                       !.slot = [n \in Node |-> SettledSlot(f, n)],
                       !.ahead = [n \in Node |-> {}]]
<1>1. CutShort(m) \in SUBSET Node /\ Dropped(m) \in SUBSET Node
  BY DEF CutShort, Dropped, In
<1>2. Typed(FlushFaults(m, CutShort(m))) /\ Typed(f)
  BY <1>1, FlushFaultsTyped, AbortTyped
<1>3. Calm(m, f)
  <2>1. Calm(m, FlushFaults(m, CutShort(m)))
    BY <1>1, FlushFaultsCalm
  <2>2. Calm(FlushFaults(m, CutShort(m)), f)
    BY <1>2, AbortCalm
  <2> HIDE DEF f
  <2> QED BY <2>1, <2>2, CalmTrans
<1>4. Settle(m, cause) = IF ~ Admits(m) THEN m ELSE x
  BY DEF Settle
<1> HIDE DEF f
<1>5. /\ x.body = f.body /\ x.scope.st = "Settling"
      /\ \A n \in Node : x.slot[n] = SettledSlot(f, n)
  BY <1>2 DEF Typed, State, Scope
<1> HIDE DEF x
<1>6. ASSUME NEW n \in Node
      PROVE  /\ CalmSlot(f.slot[n], SettledSlot(f, n))
             /\ InTask(f.slot[n]) => InTask(SettledSlot(f, n))
  <2> DEFINE s == f.slot[n]
             skipped == [s EXCEPT !.st = "Skipped"]
             cut == [s EXCEPT !.st = "Interrupted", !.timer = "none",
                       !.attempt = IF IsService(n) /\ s.initialized THEN @ ELSE @ + 1]
             told == InterruptedSlot(f, n)
  <2>1. s \in Slot
    BY <1>2, SlotTyped
  <2>2. skipped.st = "Skipped" /\ skipped.publishing = s.publishing
    BY <2>1 DEF Slot
  <2>3. cut.st = "Interrupted" /\ cut.publishing = s.publishing
    BY <2>1 DEF Slot
  <2>4. told.st = s.st /\ told.publishing = s.publishing
    BY <2>1 DEF InterruptedSlot, Slot
  <2>5. \/ SettledSlot(f, n) = skipped /\ s.st \in Unstarted \cup {"Publishing"}
        \/ SettledSlot(f, n) = cut /\ s.st = "Backoff"
        \/ SettledSlot(f, n) = told /\ s.st = "Running"
        \/ SettledSlot(f, n) = s
    BY DEF SettledSlot
  <2> HIDE DEF s, skipped, cut, told
  <2> QED BY <2>2, <2>3, <2>4, <2>5 DEF CalmSlot, InTask, Unstarted, s
<1>7. Calm(f, x)
  BY <1>5, <1>6 DEF Calm, Closed, Up
<1> QED BY <1>3, <1>4, <1>7, CalmRefl, CalmTrans

LEMMA CheckSteadyCalm ==
  ASSUME NEW m, Typed(m)
  PROVE  Calm(m, CheckSteady(m))
<1> DEFINE steady == [m EXCEPT !.scope.st = "Steady"]
<1>1. Typed(steady)
  BY DEF Typed, State, Scope
<1>2. m.scope.st = "Admitting" => Calm(m, steady)
  BY DEF Typed, State, Scope, Calm, CalmSlot, Closed, Up
<1>3. \/ CheckSteady(m) = m
      \/ /\ m.scope.st = "Admitting"
         /\ CheckSteady(m) \in {steady, Settle(steady, "Finite")}
  BY DEF CheckSteady
<1> HIDE DEF steady
<1> QED BY <1>1, <1>2, <1>3, SettleCalm, CalmRefl, CalmTrans

LEMMA StartObligationsCalm ==
  ASSUME NEW m, Typed(m), NEW S \in SUBSET Node, \A n \in S : Owes(m, n)
  PROVE  Calm(m, StartObligations(m, S))
<1> DEFINE slots == [n \in Node |-> IF n \in S THEN ObligationSlot(m, n) ELSE m.slot[n]]
           begun == [m EXCEPT !.slot = slots]
           bodies == {n \in S : ~ IsService(n)}
<1>1. slots \in [Node -> Slot] /\ \A n \in Node : slots[n].st \in StatesOf(n)
  BY ObligationSlotTyped, SlotTyped
<1>2. ASSUME NEW n \in Node
      PROVE  CalmSlot(m.slot[n], slots[n]) /\ (InTask(m.slot[n]) => InTask(slots[n]))
  <2>1. m.slot[n] \in Slot
    BY SlotTyped
  <2>2. CASE n \in S
    <3>1. slots[n] = ObligationSlot(m, n)
      BY <2>2
    <3>2. Decl(n).kind \in {"Resource", "Effect"} \/ IsService(n)
      BY <2>2 DEF Owes, CanOwe, CanHold, RecoversAmbiguity
    <3>3. /\ ObligationSlot(m, n).publishing = m.slot[n].publishing
          /\ ObligationSlot(m, n).st # "Running"
      BY <2>1, <3>2 DEF ObligationSlot, Slot, IsService
    <3>4. ~ InTask(m.slot[n])
      BY <2>2 DEF Owes, InTask
    <3> QED BY <3>1, <3>3, <3>4 DEF CalmSlot
  <2>3. CASE n \notin S
    BY <2>3 DEF CalmSlot
  <2> QED BY <2>2, <2>3
<1>3. StartObligations(m, S) = Spawn(begun, bodies, "cleanup")
  BY DEF StartObligations
<1>4. /\ begun.body = m.body /\ begun.scope = m.scope
      /\ \A n \in Node : begun.slot[n] = slots[n]
  BY DEF Typed, State
<1> HIDE DEF slots, bodies
<1>5. Typed(begun)
  BY <1>1, AllSlots
<1> HIDE DEF begun
<1>6. Calm(m, begun)
  BY <1>2, <1>4 DEF Calm, Closed, Up
<1>7. Calm(begun, Spawn(begun, bodies, "cleanup"))
  BY <1>5, SpawnCalm
<1> QED BY <1>3, <1>6, <1>7, CalmTrans

LEMMA AbandonCalm ==
  ASSUME NEW m, Typed(m), NEW S \in SUBSET Node
  PROVE  Calm(m, Abandon(m, S))
<1> DEFINE a == Abort(m, {n \in S : Decl(n).kind # "BlockingStep"})
           f == FlushFaults(a, S)
           gone(n) == [f.slot[n] EXCEPT !.st = "Abandoned", !.timer = "none",
                           !.granted = FALSE, !.cancelling = FALSE, !.timedOut = FALSE]
           x == Abandon(m, S)
<1>1. Typed(a) /\ Typed(f)
  BY AbortTyped, FlushFaultsTyped
<1>2. Calm(m, a) /\ Calm(a, f)
  BY <1>1, AbortCalm, FlushFaultsCalm
<1>3. /\ x.body = f.body /\ x.scope = f.scope
      /\ \A n \in Node : x.slot[n] = IF n \in S THEN gone(n) ELSE f.slot[n]
  <2> HIDE DEF a
  <2> QED BY <1>1 DEF Abandon, Typed, State, a
<1> HIDE DEF a, f, x
<1>4. ASSUME NEW n \in Node
      PROVE  CalmSlot(f.slot[n], x.slot[n]) /\ (InTask(f.slot[n]) => InTask(x.slot[n]))
  <2>1. f.slot[n] \in Slot
    BY <1>1, SlotTyped
  <2>2. gone(n).st = "Abandoned" /\ gone(n).publishing = f.slot[n].publishing
    BY <2>1 DEF Slot
  <2> HIDE DEF gone
  <2> QED BY <1>3, <2>2 DEF CalmSlot, InTask
<1>5. Calm(f, x)
  BY <1>3, <1>4 DEF Calm, Closed, Up
<1>6. Calm(m, x)
  BY <1>2, <1>5, CalmTrans
<1> QED BY <1>6 DEF x

(* The members of SkippedBy have not started.  The function hit is one of  *)
(* the fixpoints of Reach, which are the sets that contain a dependent of  *)
(* n, or of a member, exactly if it has not started; the least of them     *)
(* shows that there is one.                                                *)
Reach(m, n, X) ==
  {d \in Node : m.slot[d].st \in Unstarted /\ \E x \in Decl(d).needs : x = n \/ x \in X}

LEMMA ReachFixed ==
  ASSUME NEW m, NEW n
  PROVE  \E L \in SUBSET Node : Reach(m, n, L) = L
<1> DEFINE L == {d \in Node : \A X \in SUBSET Node : Reach(m, n, X) \subseteq X => d \in X}
<1>1. ASSUME NEW X, NEW Y, X \subseteq Y PROVE Reach(m, n, X) \subseteq Reach(m, n, Y)
  BY <1>1 DEF Reach
<1>2. \A X : Reach(m, n, X) \in SUBSET Node
  BY DEF Reach
<1>3. Reach(m, n, L) \subseteq L
  <2> SUFFICES ASSUME NEW X \in SUBSET Node, Reach(m, n, X) \subseteq X
               PROVE  Reach(m, n, L) \subseteq X
    BY <1>2
  <2>1. L \subseteq X
    OBVIOUS
  <2> HIDE DEF L
  <2> QED BY <1>1, <2>1
<1>4. L \subseteq Reach(m, n, L)
  <2> DEFINE R == Reach(m, n, L)
  <2>1. Reach(m, n, R) \subseteq R
    BY <1>1, <1>3
  <2>2. R \in SUBSET Node
    BY <1>2
  <2> HIDE DEF R
  <2>3. L \subseteq R
    BY <2>1, <2>2
  <2> QED BY <2>3 DEF R
<1>5. L \in SUBSET Node
  OBVIOUS
<1> HIDE DEF L
<1> QED BY <1>3, <1>4, <1>5

LEMMA SkippedReach ==
  ASSUME NEW m, Typed(m), NEW n \in Node
  PROVE  SkippedBy(m, n) \in SUBSET Node /\ Reach(m, n, SkippedBy(m, n)) = SkippedBy(m, n)
<1> DEFINE Hits(f) == [e \in Node |-> /\ m.slot[e].st \in Unstarted
                                     /\ \E x \in Decl(e).needs : x = n \/ f[x]]
           hit == CHOOSE f : f = Hits(f)
<1>1. PICK L \in SUBSET Node : Reach(m, n, L) = L
  BY ReachFixed
<1>2. \A e \in Node : Decl(e).needs \subseteq Node
  BY PlanTyped DEF Typed, NodeDecl
<1> DEFINE g == [e \in Node |-> e \in L]
<1>3. g = Hits(g)
  <2>1. ASSUME NEW e \in Node
        PROVE  e \in L <=> m.slot[e].st \in Unstarted /\ \E x \in Decl(e).needs : x = n \/ g[x]
    <3>1. e \in L <=> m.slot[e].st \in Unstarted /\ \E x \in Decl(e).needs : x = n \/ x \in L
      BY <1>1 DEF Reach
    <3>2. \A x \in Decl(e).needs : g[x] <=> x \in L
      BY <1>2
    <3> QED BY <3>1, <3>2
  <2> QED BY <2>1
<1>4. hit = Hits(hit)
  <2> HIDE DEF g, Hits
  <2> QED BY <1>3
<1>5. SkippedBy(m, n) = {d \in Node : hit[d]}
  BY DEF SkippedBy
<1> HIDE DEF hit
<1>6. ASSUME NEW d \in Node
      PROVE  hit[d] <=> m.slot[d].st \in Unstarted /\ \E x \in Decl(d).needs : x = n \/ hit[x]
  BY <1>4
<1> HIDE DEF Hits
<1>7. ASSUME NEW d \in Node
      PROVE  d \in Reach(m, n, SkippedBy(m, n)) <=> hit[d]
  <2>1. \A x \in Decl(d).needs : x \in SkippedBy(m, n) <=> hit[x]
    BY <1>2, <1>5
  <2> QED BY <1>6, <2>1 DEF Reach
<1>8. Reach(m, n, SkippedBy(m, n)) \subseteq Node
  BY DEF Reach
<1> QED BY <1>5, <1>7, <1>8

LEMMA HitUnstarted ==
  ASSUME NEW m, Typed(m), NEW n \in Node, NEW d \in SkippedBy(m, n)
  PROVE  d \in Node /\ m.slot[d].st \in Unstarted
BY SkippedReach DEF Reach

LEMMA SkipDependentsCalm ==
  ASSUME NEW m, Typed(m), NEW n \in Node
  PROVE  Calm(m, SkipDependents(m, n))
<1> DEFINE S == SkippedBy(m, n)
           f == FlushFaults(m, S)
           skipped(d) == [f.slot[d] EXCEPT !.st = "Skipped"]
           x == SkipDependents(m, n)
<1>1. S \in SUBSET Node
  BY DEF SkippedBy
<1>2. Typed(f) /\ Calm(m, f)
  BY <1>1, FlushFaultsTyped, FlushFaultsCalm
<1>3. /\ x.body = f.body /\ x.scope = f.scope
      /\ \A d \in Node : x.slot[d] = IF d \in S THEN skipped(d) ELSE f.slot[d]
  <2> HIDE DEF S
  <2> QED BY <1>2 DEF SkipDependents, Typed, State, S
<1>4. ASSUME NEW d \in S PROVE f.slot[d].st \in Unstarted
  <2>1. m.slot[d].st \in Unstarted
    BY HitUnstarted
  <2>2. f.slot[d].st = m.slot[d].st
    <3>1. f.slot[d] = [m.slot[d] EXCEPT !.parked = {}, !.ambiguity = {}]
      <4> HIDE DEF S
      <4> QED BY <1>1 DEF FlushFaults, Typed, State
    <3>2. m.slot[d] \in Slot
      BY <1>1, SlotTyped
    <3> HIDE DEF f
    <3> QED BY <3>1, <3>2 DEF Slot
  <2> QED BY <2>1, <2>2
<1> HIDE DEF f, x, S
<1>5. ASSUME NEW d \in Node
      PROVE  CalmSlot(f.slot[d], x.slot[d]) /\ (InTask(f.slot[d]) => InTask(x.slot[d]))
  <2>1. f.slot[d] \in Slot
    BY <1>2, SlotTyped
  <2>2. skipped(d).st = "Skipped" /\ skipped(d).publishing = f.slot[d].publishing
    BY <2>1 DEF Slot
  <2> HIDE DEF skipped
  <2> QED BY <1>3, <1>4, <2>2 DEF CalmSlot, InTask, Unstarted
<1>6. Calm(f, x)
  BY <1>3, <1>5 DEF Calm, Closed, Up
<1>7. Calm(m, x)
  BY <1>2, <1>6, CalmTrans
<1> QED BY <1>7 DEF x

LEMMA ApplyPolicyCalm ==
  ASSUME NEW m, Typed(m), NEW n \in Node
  PROVE  Calm(m, ApplyPolicy(m, n))
<1> DEFINE f == FlushFaults(m, {n})
<1>1. Typed(f) /\ Calm(m, f)
  BY FlushFaultsTyped, FlushFaultsCalm
<1>2. ApplyPolicy(m, n) \in {Settle(f, "Fault"), SkipDependents(f, n)}
  BY DEF ApplyPolicy
<1> HIDE DEF f
<1> QED BY <1>1, <1>2, SettleCalm, SkipDependentsCalm, CalmTrans

(* Stages that leave the state of n and start no body leave it loose.      *)
LEMMA LooseKept ==
  ASSUME NEW m, NEW x, NEW n \in Node, Loose(m, n), Calm(m, x),
         x.slot[n].st = m.slot[n].st
  PROVE  Loose(x, n)
BY DEF Loose, Calm, InTask

LEMMA NodeFailedCalm ==
  ASSUME NEW m, Typed(m), NEW n \in Node, Loose(m, n)
  PROVE  Calm(m, NodeFailed(m, n))
<1> DEFINE s == [m.slot[n] EXCEPT !.st = "Failed"]
           f == [m EXCEPT !.slot[n] = s]
<1>1. m.slot[n] \in Slot
  BY SlotTyped
<1>2. s \in Slot /\ s.st \in StatesOf(n) /\ CalmSlot(m.slot[n], s)
  BY <1>1, CommonStates DEF Slot, NodeStates, CalmSlot
<1>3. NodeFailed(m, n) = ApplyPolicy(f, n)
  BY DEF NodeFailed, Typed, State
<1> HIDE DEF s
<1>4. Typed(f) /\ Calm(m, f)
  BY <1>2, OneSlot, SlotCalm
<1> HIDE DEF f
<1> QED BY <1>3, <1>4, ApplyPolicyCalm, CalmTrans

LEMMA BackoffCalm ==
  ASSUME NEW m, Typed(m), NEW n \in Node, Loose(m, n)
  PROVE  Calm(m, Backoff(m, n))
<1> DEFINE s == [m.slot[n] EXCEPT !.st = "Pending"]
           t == [m.slot[n] EXCEPT !.st = "Backoff", !.timer = "Backoff"]
<1>1. m.slot[n] \in Slot
  BY SlotTyped
<1>2. CalmSlot(m.slot[n], s) /\ CalmSlot(m.slot[n], t)
  BY <1>1 DEF Slot, CalmSlot
<1>3. Backoff(m, n) \in {[m EXCEPT !.slot[n] = s], [m EXCEPT !.slot[n] = t]}
  BY DEF Backoff, Typed, State
<1> HIDE DEF s, t
<1> QED BY <1>2, <1>3, SlotCalm

LEMMA AfterFailedAttemptCalm ==
  ASSUME NEW m, Typed(m), NEW n \in Node, "Backoff" \in StatesOf(n), Loose(m, n)
  PROVE  Calm(m, AfterFailedAttempt(m, n))
<1> DEFINE s == [m.slot[n] EXCEPT !.granted = FALSE, !.timer = "none",
                   !.cancelling = FALSE, !.timingOut = FALSE, !.timedOut = FALSE]
           f == [m EXCEPT !.slot[n] = s]
           t == [f.slot[n] EXCEPT !.st = "RetryRelease"]
           g == [f EXCEPT !.slot[n] = t]
<1>1. m.slot[n] \in Slot /\ m.slot[n].st \in StatesOf(n)
  BY SlotTyped
<1>2. s \in Slot /\ s.st = m.slot[n].st /\ CalmSlot(m.slot[n], s)
  BY <1>1 DEF Slot, CalmSlot
<1>3. Typed(f) /\ Calm(m, f) /\ Loose(f, n)
  <2> HIDE DEF s
  <2>1. Typed(f) /\ Calm(m, f) /\ f.slot[n] = s
    BY <1>1, <1>2, OneSlot, SlotCalm DEF Typed, State
  <2> HIDE DEF f
  <2> QED BY <1>2, <2>1, LooseKept
<1>4. \/ AfterFailedAttempt(m, n) = NodeFailed(f, n)
      \/ AfterFailedAttempt(m, n) = Backoff(f, n)
      \/ CanOwe(n) /\ AfterFailedAttempt(m, n) = Spawn(g, {n}, "cleanup")
  BY DEF AfterFailedAttempt, Typed, State
<1> HIDE DEF f
<1>5. t \in Slot /\ t.st = "RetryRelease" /\ CalmSlot(f.slot[n], t)
  <2>1. f.slot[n] \in Slot
    BY <1>3, SlotTyped
  <2> QED BY <2>1 DEF Slot, NodeStates, CalmSlot
<1>6. CanOwe(n) => "RetryRelease" \in StatesOf(n)
  BY <1>3, KindStates DEF CanOwe, Typed
<1> HIDE DEF t
<1>7. CanOwe(n) => Typed(g) /\ Calm(f, g)
  BY <1>3, <1>5, <1>6, OneSlot, SlotCalm
<1> HIDE DEF g
<1>8. Calm(m, NodeFailed(f, n)) /\ Calm(m, Backoff(f, n))
  BY <1>3, NodeFailedCalm, BackoffCalm, CalmTrans
<1>9. CanOwe(n) => Calm(m, Spawn(g, {n}, "cleanup"))
  BY <1>3, <1>7, SpawnCalm, CalmTrans
<1> QED BY <1>4, <1>8, <1>9

LEMMA FailAttemptCalm ==
  ASSUME NEW m, Typed(m), NEW n \in Node, "Backoff" \in StatesOf(n), Loose(m, n)
  PROVE  Calm(m, FailAttempt(m, n))
<1> DEFINE p == ParkFault(m, n, m.slot[n].attempt)
<1>1. m.slot[n].attempt \in Nat
  BY SlotTyped, Counters
<1>2. Typed(p) /\ Calm(m, p) /\ Loose(p, n)
  BY <1>1, ParkFaultTyped, ParkFaultCalm, LooseKept
<1>3. FailAttempt(m, n) = AfterFailedAttempt(p, n)
  BY DEF FailAttempt
<1> HIDE DEF p
<1> QED BY <1>2, <1>3, AfterFailedAttemptCalm, CalmTrans

LEMMA BecomeAmbiguousCalm ==
  ASSUME NEW m, Typed(m), NEW n \in Node, Loose(m, n)
  PROVE  Calm(m, BecomeAmbiguous(m, n)) /\ Loose(BecomeAmbiguous(m, n), n)
<1> DEFINE x == BecomeAmbiguous(m, n)
           k == m.slot[n].attempt
           s == [m.slot[n] EXCEPT !.st = "Ambiguous", !.ambiguity = {k}]
<1>1. m.slot[n] \in Slot
  BY SlotTyped
<1>2. s.st = "Ambiguous" /\ s.publishing = m.slot[n].publishing
  <2> HIDE DEF k
  <2> QED BY <1>1 DEF Slot
<1>3. /\ x.body = m.body /\ x.scope = m.scope
      /\ \A d \in Node : x.slot[d] = IF d = n THEN s ELSE m.slot[d]
  BY DEF BecomeAmbiguous, Typed, State
<1> HIDE DEF s, x
<1>4. Calm(m, x)
  BY <1>2, <1>3 DEF Calm, CalmSlot, Loose, Closed, Up
<1>5. Loose(x, n)
  BY <1>2, <1>3 DEF Loose, InTask
<1> QED BY <1>4, <1>5 DEF x

-----------------------------------------------------------------------------
(* The pass over the queue and the release graph.                          *)

LEMMA EnqueueJoined ==
  ASSUME NEW m, Typed(m), Joined(m), Admits(m)
  PROVE  Joined(Enqueue(m)) /\ Admits(Enqueue(m))
<1> DEFINE lost   == {n \in In(m, {"Waiting"}) : ~ NeedsReady(m, n)}
           joined == {n \in In(m, {"Pending"}) : NeedsReady(m, n)}
           x      == Enqueue(m)
<1>1. /\ x.body = m.body /\ x.scope.st = "Admitting"
      /\ \A n \in Node : x.slot[n].st = IF n \in lost THEN "Pending"
                                        ELSE IF n \in joined THEN "Waiting" ELSE m.slot[n].st
  BY DEF Enqueue, Typed, State, Slot, Scope
<1>2. \A n \in Node : n \in lost \cup joined => m.slot[n].st \in Unstarted
  BY DEF In, Unstarted
<1> HIDE DEF x, lost, joined
<1>3. Joined(x) /\ Admits(x)
  BY <1>1, <1>2 DEF Joined, Closed, Admits, InTask, Unstarted
<1> QED BY <1>3 DEF x

(* The pass starts bodies, each in a node that is then Running.            *)
LEMMA StartJoined ==
  ASSUME NEW m, Typed(m), Joined(m), Admits(m), NEW G \in SUBSET In(m, {"Waiting"})
  PROVE  Joined(Start(m, G))
<1> DEFINE recovered == {n \in G : IsService(n) /\ m.slot[n].initialized}
           spawned   == {n \in G \ recovered : Decl(n).kind # "Join"}
           slots == [n \in Node |-> IF n \in G THEN StartedSlot(m, n) ELSE m.slot[n]]
           s == [m EXCEPT !.slot = slots,
                          !.ahead = [n \in Node |-> IF n \in G THEN {} ELSE m.ahead[n] \ G]]
           a == Absorb(s, recovered)
           x == Start(m, G)
<1>1. x = Spawn(Spawn(a, recovered, "serve"), spawned, "run")
  BY DEF Start
<1>2. G \in SUBSET Node /\ recovered \in SUBSET Node
  BY DEF In
<1>3. ASSUME NEW n \in spawned PROVE StartedSlot(m, n).st = "Running"
  <2>1. m.slot[n] \in Slot /\ Decl(n).kind # "Join" /\ ~ (IsService(n) /\ m.slot[n].initialized)
    BY <1>2, SlotTyped
  <2> QED BY <2>1 DEF StartedSlot, Slot
<1>4. Typed(s) /\ s.slot = slots /\ s.body = m.body /\ s.scope = m.scope
  <2>1. \A n \in Node : StartedSlot(m, n) \in Slot /\ StartedSlot(m, n).st \in StatesOf(n)
    BY StartedSlotTyped
  <2>2. slots \in [Node -> Slot] /\ \A n \in Node : slots[n].st \in StatesOf(n)
    BY <2>1, SlotTyped
  <2> HIDE DEF slots
  <2> QED BY <2>2 DEF Typed, State
<1> HIDE DEF s
<1>5. a.body = m.body /\ a.scope = m.scope /\ \A n \in Node : a.slot[n].st = slots[n].st
  <2>1. a.scope = s.scope
    BY <1>4 DEF Absorb, Typed, State
  <2> QED BY <1>2, <1>4, <2>1, AbsorbCalm
<1>6. /\ x.slot = a.slot /\ x.scope = a.scope
      /\ \A n \in Node : x.body[n].phase = IF n \in spawned THEN "run"
                                           ELSE IF n \in recovered THEN "serve"
                                           ELSE a.body[n].phase
  <2> HIDE DEF recovered, spawned
  <2>1. Typed(a)
    BY <1>2, <1>4, AbsorbTyped
  <2> HIDE DEF a
  <2> QED BY <1>1, <2>1 DEF Spawn, Typed, State
<1> HIDE DEF x, a
<1>7. \A n \in Node : n \notin G => slots[n].st = m.slot[n].st
  OBVIOUS
<1>8. \A n \in Node : n \in spawned => slots[n].st = "Running"
  BY <1>3
<1>9. \A n \in G : ~ InTask(m.slot[n])
  BY DEF In, InTask
<1> HIDE DEF slots, spawned, recovered
<1>10. ASSUME NEW n \in Node, x.body[n].phase = "run" PROVE InTask(x.slot[n])
  <2>1. CASE n \in spawned
    BY <1>5, <1>6, <1>8, <2>1 DEF InTask
  <2>2. CASE n \notin spawned
    <3>1. m.body[n].phase = "run"
      BY <1>5, <1>6, <1>10, <2>2
    <3>2. InTask(m.slot[n]) /\ n \notin G
      BY <1>9, <3>1 DEF Joined
    <3> QED BY <1>5, <1>6, <1>7, <3>2 DEF InTask
  <2> QED BY <2>1, <2>2
<1>11. ~ Closed(x)
  BY <1>5, <1>6 DEF Closed, Admits
<1>12. Joined(x)
  BY <1>10, <1>11 DEF Joined
<1> QED BY <1>12 DEF x

(* The release graph opens when nothing is in flight.                      *)
LEMMA TryCleanupCases ==
  ASSUME NEW m, Typed(m)
  PROVE  \E c, a :
           /\ \/ c = m
              \/ c = [m EXCEPT !.scope.st = "Cleanup"] /\ \A n \in Node : ~ InFlight(m, n)
           /\ Typed(c) /\ Typed(a) /\ Calm(c, a)
           /\ \/ TryCleanup(m) = a
              \/ a.scope.st = "Cleanup" /\ Calm(a, End(a)) /\ TryCleanup(m) = End(a)
<1> DEFINE open == m.scope.st = "Settling" /\ \A n \in Node : ~ InFlight(m, n)
           c == IF open THEN [m EXCEPT !.scope.st = "Cleanup"] ELSE m
           b == StartObligations(c, {n \in Node : Owes(c, n) /\ GateOpen(c, n)})
           z == [b EXCEPT !.scope.zero = TRUE]
           a == IF c.scope.st = "Cleanup" THEN AdvanceCleanup(c) ELSE c
<1>1. Typed([m EXCEPT !.scope.st = "Cleanup"])
  BY DEF Typed, State, Scope
<1>2. Typed(c)
  BY <1>1
<1>3. c = m \/ (c = [m EXCEPT !.scope.st = "Cleanup"] /\ \A n \in Node : ~ InFlight(m, n))
  OBVIOUS
<1>4. TryCleanup(m) = a \/ (a.scope.st = "Cleanup" /\ TryCleanup(m) = End(a))
  <2>1. TryCleanup(m) = IF a.scope.st = "Cleanup" /\ \A n \in Node : ~ BlocksRelease(a, n)
                        THEN End(a) ELSE a
    BY DEF TryCleanup
  <2> HIDE DEF a
  <2> QED BY <2>1
<1> HIDE DEF c
<1>5. Typed(a) /\ Typed(b)
  BY <1>2, AdvanceCleanupTyped, StartObligationsTyped
<1>6. Calm(c, b)
  BY <1>2, StartObligationsCalm
<1>7. a = c \/ a = b \/ a = z
  BY DEF AdvanceCleanup
<1> HIDE DEF a, b
<1>8. Calm(b, z)
  <2>1. z.slot = b.slot /\ z.body = b.body /\ z.scope.st = b.scope.st
    BY <1>5 DEF Typed, State, Scope
  <2> HIDE DEF z
  <2> QED BY <2>1, SameCalm
<1> HIDE DEF z
<1>9. Calm(c, a)
  BY <1>6, <1>7, <1>8, CalmRefl, CalmTrans
<1>10. a.scope.st = "Cleanup" => Calm(a, End(a))
  BY <1>5, EndCalm DEF Closed
<1> QED BY <1>2, <1>3, <1>4, <1>5, <1>9, <1>10

LEMMA TryCleanupUp ==
  ASSUME NEW m, Typed(m), Up(TryCleanup(m))
  PROVE  Up(m)
<1>1. PICK c, a :
        /\ c = m \/ c = [m EXCEPT !.scope.st = "Cleanup"]
        /\ Calm(c, a)
        /\ TryCleanup(m) = a \/ (Calm(a, End(a)) /\ TryCleanup(m) = End(a))
  BY TryCleanupCases
<1>2. Up(c)
  BY <1>1 DEF Calm
<1>3. Up(c) => Up(m)
  BY <1>1 DEF Up, Typed, State, Scope
<1> QED BY <1>2, <1>3

LEMMA TryCleanupJoined ==
  ASSUME NEW m, Typed(m), Joined(m)
  PROVE  Joined(TryCleanup(m))
<1>1. PICK c, a :
        /\ \/ c = m
           \/ c = [m EXCEPT !.scope.st = "Cleanup"] /\ \A n \in Node : ~ InFlight(m, n)
        /\ Calm(c, a)
        /\ TryCleanup(m) = a \/ (Calm(a, End(a)) /\ TryCleanup(m) = End(a))
  BY TryCleanupCases
<1>2. Joined(c)
  <2>1. CASE c = [m EXCEPT !.scope.st = "Cleanup"] /\ \A n \in Node : ~ InFlight(m, n)
    <3>1. c.slot = m.slot /\ c.body = m.body
      BY <2>1 DEF Typed, State
    <3> QED BY <2>1, <3>1 DEF Joined, InFlight
  <2>2. CASE c = m
    BY <2>2
  <2> QED BY <1>1, <2>1, <2>2
<1>3. Joined(a)
  BY <1>1, <1>2, CalmJoined
<1> QED BY <1>1, <1>3, CalmJoined

-----------------------------------------------------------------------------
(* What an event makes of the current state before its tail is typed and   *)
(* reached by quiet and calm stages only.                                  *)

Near(m) == Typed(m) /\ Quiet(Here, m) /\ Calm(Here, m)

Tame(s, t) == QuietSlot(s, t) /\ CalmSlot(s, t)

LEMMA NearBy ==
  ASSUME NEW m, Near(m), NEW x, Typed(x), Quiet(m, x), Calm(m, x)
  PROVE  Near(x)
BY QuietTrans, CalmTrans DEF Near

LEMMA NearSlot ==
  ASSUME NEW m, Near(m), NEW n \in Node, NEW s \in Slot, s.st \in StatesOf(n),
         Tame(m.slot[n], s), s.st = m.slot[n].st \/ Loose(m, n)
  PROVE  Near([m EXCEPT !.slot[n] = s])
<1> DEFINE x == [m EXCEPT !.slot[n] = s]
<1>1. Typed(x) /\ Quiet(m, x)
  BY OneSlot, SlotQuiet DEF Near, Tame
<1>2. Calm(m, x)
  BY SlotCalm DEF Near, Tame, InTask
<1> HIDE DEF x
<1>3. Near(x)
  BY <1>1, <1>2, NearBy
<1> QED BY <1>3 DEF x

LEMMA NearApart ==
  ASSUME NEW m, Near(m), NEW x, Typed(x), x.slot = m.slot, x.ahead = m.ahead, x.body = m.body,
         Closed(x) => Closed(m), Up(x) => Up(m)
  PROVE  Near(x)
<1>1. Calm(m, x)
  BY DEF Calm, CalmSlot
<1> QED BY <1>1, SameQuiet, NearBy

LEMMA LooseSlot ==
  ASSUME NEW m, Typed(m), NEW n \in Node, Loose(m, n), NEW s,
         s.st = m.slot[n].st \/ ~ InTask(s)
  PROVE  Loose([m EXCEPT !.slot[n] = s], n)
BY DEF Loose, InTask, Typed, State

LEMMA NearAbandon ==
  ASSUME NEW m, Near(m), NEW S \in SUBSET Node, \A n \in S : "Abandoned" \in StatesOf(n)
  PROVE  Near(Abandon(m, S))
<1>1. Typed(Abandon(m, S)) /\ Quiet(m, Abandon(m, S)) /\ Calm(m, Abandon(m, S))
  BY AbandonTyped, AbandonQuiet, AbandonCalm DEF Near
<1> QED BY <1>1, NearBy

LEMMA NearSettle ==
  ASSUME NEW m, Near(m), NEW cause \in {"Fault", "Cancel", "Shutdown", "Finite", "Terminal"}
  PROVE  Near(Settle(m, cause))
<1>1. Typed(Settle(m, cause)) /\ Quiet(m, Settle(m, cause)) /\ Calm(m, Settle(m, cause))
  BY SettleTyped, SettleQuiet, SettleCalm DEF Near
<1> QED BY <1>1, NearBy

LEMMA NearStages ==
  ASSUME NEW m, Near(m), NEW n \in Node
  PROVE  /\ Near(TaskEnds(m, n)) /\ Near(Abort(m, {n})) /\ Near(FlushFaults(m, {n}))
         /\ Near(Absorb(m, {n})) /\ Near(CleanupFails(m, n)) /\ Near(ApplyPolicy(m, n))
         /\ \A k \in Nat : Near(ParkFault(m, n, k))
<1>1. Typed(m)
  BY DEF Near
<1>2. Near(TaskEnds(m, n)) /\ Near(Abort(m, {n}))
  BY <1>1, NearBy, TaskEndsTyped, TaskEndsQuiet, TaskEndsCalm, AbortTyped, AbortQuiet, AbortCalm
<1>3. Near(FlushFaults(m, {n})) /\ Near(Absorb(m, {n}))
  BY <1>1, NearBy, FlushFaultsTyped, FlushFaultsQuiet, FlushFaultsCalm, AbsorbTyped,
     AbsorbQuiet, AbsorbCalm
<1>4. Near(CleanupFails(m, n)) /\ Near(ApplyPolicy(m, n))
  BY <1>1, NearBy, CleanupFailsTyped, CleanupFailsQuiet, CleanupFailsCalm, ApplyPolicyTyped,
     ApplyPolicyQuiet, ApplyPolicyCalm
<1>5. ASSUME NEW k \in Nat PROVE Near(ParkFault(m, n, k))
  BY <1>1, NearBy, ParkFaultTyped, ParkFaultQuiet, ParkFaultCalm
<1> QED BY <1>2, <1>3, <1>4, <1>5

(* The body of n is over, and stays over while the state of n is left.     *)
LEMMA LooseStages ==
  ASSUME NEW m, Near(m), NEW n \in Node
  PROVE  /\ Loose(TaskEnds(m, n), n)
         /\ Loose(m, n) => /\ Loose(Absorb(m, {n}), n)
                           /\ \A k \in Nat : Loose(ParkFault(m, n, k), n)
<1>1. Typed(m)
  BY DEF Near
<1>2. Loose(TaskEnds(m, n), n)
  BY <1>1, TaskEndsCalm
<1>3. Loose(m, n) => Loose(Absorb(m, {n}), n)
  BY <1>1, AbsorbCalm, LooseKept
<1>4. ASSUME Loose(m, n), NEW k \in Nat PROVE Loose(ParkFault(m, n, k), n)
  BY <1>1, <1>4, ParkFaultCalm, LooseKept
<1> QED BY <1>2, <1>3, <1>4

LEMMA NearFailed ==
  ASSUME NEW m, Near(m), NEW n \in Node, Loose(m, n)
  PROVE  Near(NodeFailed(m, n))
BY NearBy, NodeFailedTyped, NodeFailedQuiet, NodeFailedCalm DEF Near

LEMMA NearRetry ==
  ASSUME NEW m, Near(m), NEW n \in Node, Loose(m, n), "Backoff" \in StatesOf(n)
  PROVE  Near(Backoff(m, n)) /\ Near(AfterFailedAttempt(m, n)) /\ Near(FailAttempt(m, n))
<1>1. Typed(m)
  BY DEF Near
<1>2. Near(Backoff(m, n))
  BY <1>1, NearBy, BackoffTyped, BackoffQuiet, BackoffCalm
<1>3. Near(AfterFailedAttempt(m, n))
  BY <1>1, NearBy, AfterFailedAttemptTyped, AfterFailedAttemptQuiet, AfterFailedAttemptCalm
<1>4. Near(FailAttempt(m, n))
  BY <1>1, NearBy, FailAttemptTyped, FailAttemptQuiet, FailAttemptCalm
<1> QED BY <1>2, <1>3, <1>4

LEMMA NearInterrupted ==
  ASSUME NEW m, Near(m), NEW n \in Node, Loose(m, n),
         {"Backoff", "Interrupted"} \subseteq StatesOf(n)
  PROVE  Near(FinishInterrupted(m, n))
<1> DEFINE s == m.slot[n]
           t == [s EXCEPT !.timer = "none", !.cancelling = FALSE,
                   !.timingOut = FALSE, !.signalled = s.timingOut /\ s.signalled]
           j == [m EXCEPT !.slot[n] = t]
           u == [t EXCEPT !.granted = FALSE]
           g == [m EXCEPT !.slot[n] = u]
           i == [u EXCEPT !.st = "Interrupted"]
           unknown == Decl(n).kind = "Effect" /\ ~ s.held
           a == ParkFault(BecomeAmbiguous(g, n), n, s.attempt)
<1>1. s \in Slot /\ s.st \in StatesOf(n)
  BY SlotTyped DEF Near
<1>2. t \in Slot /\ t.st = s.st /\ t.granted = s.granted /\ t.publishing = s.publishing
  <2> HIDE DEF s
  <2> QED BY <1>1 DEF Slot
<1>3. u \in Slot /\ u.st = s.st /\ u.granted = FALSE /\ u.publishing = s.publishing
  <2> HIDE DEF t
  <2>1. u \in Slot /\ u.st = t.st /\ u.granted = FALSE /\ u.publishing = t.publishing
    BY <1>2 DEF Slot
  <2> QED BY <1>2, <2>1
<1>4. i \in Slot /\ i.st = "Interrupted" /\ i.granted = FALSE /\ i.publishing = s.publishing
  <2> HIDE DEF u
  <2>1. i \in Slot /\ i.st = "Interrupted" /\ i.granted = FALSE /\ i.publishing = u.publishing
    BY <1>3 DEF Slot, NodeStates
  <2> QED BY <1>3, <2>1
<1>5. \/ unknown /\ FinishInterrupted(m, n) \in
            {Backoff(a, n), ApplyPolicy(a, n), FlushFaults(BecomeAmbiguous(g, n), {n})}
      \/ FinishInterrupted(m, n) \in
            {FailAttempt(j, n), FlushFaults([m EXCEPT !.slot[n] = i], {n})}
  <2>1. [m EXCEPT !.slot[n] = [@ EXCEPT !.timer = "none", !.cancelling = FALSE,
              !.timingOut = FALSE, !.signalled = s.timingOut /\ s.signalled]] = j
    BY DEF Near, Typed, State
  <2>2. [j EXCEPT !.slot[n].granted = FALSE] = g
    <3> HIDE DEF t
    <3> QED BY DEF Near, Typed, State
  <2>3. [g EXCEPT !.slot[n].st = "Interrupted"] = [m EXCEPT !.slot[n] = i]
    <3> HIDE DEF u
    <3> QED BY DEF Near, Typed, State
  <2> QED BY <2>1, <2>2, <2>3 DEF FinishInterrupted
<1> HIDE DEF t, u, i
<1>6. Near(j) /\ Near(g) /\ Near([m EXCEPT !.slot[n] = i])
  <2>1. Tame(s, t) /\ Tame(s, u) /\ Tame(s, i)
    BY <1>2, <1>3, <1>4 DEF Tame, QuietSlot, CalmSlot
  <2> QED BY <1>1, <1>2, <1>3, <1>4, <2>1, NearSlot
<1>7. Loose(j, n) /\ Loose(g, n)
  BY <1>2, <1>3, LooseSlot DEF Near
<1> HIDE DEF j, g
<1>8. Near(FailAttempt(j, n)) /\ Near(FlushFaults([m EXCEPT !.slot[n] = i], {n}))
  BY <1>6, <1>7, NearStages, NearRetry
<1>9. CASE unknown
  <2>1. "Ambiguous" \in StatesOf(n)
    BY <1>9, KindStates DEF Near, Typed
  <2>2. Near(BecomeAmbiguous(g, n)) /\ Loose(BecomeAmbiguous(g, n), n)
    BY <1>6, <1>7, <2>1, NearBy, BecomeAmbiguousTyped, BecomeAmbiguousQuiet,
       BecomeAmbiguousCalm
       DEF Near
  <2>3. s.attempt \in Nat
    BY <1>1, Counters
  <2>4. Near(a) /\ Loose(a, n)
    BY <2>2, <2>3, NearStages, LooseStages
  <2> HIDE DEF a
  <2>5. Near(Backoff(a, n)) /\ Near(ApplyPolicy(a, n))
    BY <2>4, NearStages, NearRetry
  <2>6. Near(FlushFaults(BecomeAmbiguous(g, n), {n}))
    BY <2>2, NearStages
  <2> QED BY <1>5, <1>8, <2>5, <2>6
<1> QED BY <1>5, <1>8, <1>9

LEMMA NearReady ==
  ASSUME NEW m, Near(m), NEW n \in Node, Loose(m, n)
  PROVE  Near(MakeReady(m, n))
<1> DEFINE a == Absorb(m, {n})
           keeps == IsService(n) /\ m.slot[n].granted
           serves == IsService(n)
           s == [a.slot[n] EXCEPT !.st = "Ready", !.timer = "none", !.cancelling = FALSE,
                             !.timingOut = FALSE, !.ambiguity = {},
                             !.initialized = serves,
                             !.granted = keeps]
           c == [a EXCEPT !.slot[n] = s]
           r == [c EXCEPT !.due.ambiguous = {x \in @ : x[1] # n}]
<1>1. Near(a) /\ Loose(a, n)
  BY NearStages, LooseStages
<1>2. MakeReady(m, n) = IF IsService(n) THEN Spawn(r, {n}, "serve") ELSE r
  BY DEF MakeReady
<1>3. keeps \in BOOLEAN /\ serves \in BOOLEAN /\ (keeps => m.slot[n].granted)
  BY DEF IsService
<1> HIDE DEF a, keeps, serves
<1>4. a.slot[n] \in Slot /\ a.slot[n].granted = m.slot[n].granted
  <2>1. Typed(m)
    BY DEF Near
  <2>2. m.slot[n] \in Slot
    BY <2>1, SlotTyped
  <2>3. a.slot[n] = [m.slot[n] EXCEPT !.parked = {}]
    BY <2>1 DEF a, Absorb, Typed, State
  <2> QED BY <2>2, <2>3 DEF Slot
<1>5. s \in Slot /\ s.st = "Ready" /\ s.granted = keeps /\ s.publishing = a.slot[n].publishing
  <2> DEFINE b == [a.slot[n] EXCEPT !.st = "Ready", !.timer = "none", !.cancelling = FALSE]
             d == [b EXCEPT !.timingOut = FALSE, !.ambiguity = {}]
  <2>1. b \in Slot /\ b.st = "Ready" /\ b.publishing = a.slot[n].publishing
    BY <1>4 DEF Slot, NodeStates
  <2>2. s = [d EXCEPT !.initialized = serves, !.granted = keeps]
    OBVIOUS
  <2> HIDE DEF b, s
  <2>3. d \in Slot /\ d.st = "Ready" /\ d.publishing = b.publishing
    BY <2>1 DEF Slot
  <2> HIDE DEF d
  <2>4. s \in Slot /\ s.st = d.st /\ s.granted = keeps /\ s.publishing = d.publishing
    BY <2>2, <2>3, <1>3 DEF Slot
  <2> QED BY <2>1, <2>3, <2>4
<1>6. s.st \in StatesOf(n)
  BY <1>5, CommonStates
<1>7. Tame(a.slot[n], s)
  BY <1>3, <1>4, <1>5 DEF Tame, QuietSlot, CalmSlot
<1> HIDE DEF s
<1>8. Near(c)
  BY <1>1, <1>5, <1>6, <1>7, NearSlot
<1> HIDE DEF c
<1>9. Typed(r) /\ Quiet(c, r) /\ Calm(c, r)
  <2>1. Typed(c)
    BY <1>8 DEF Near
  <2>2. Typed(r)
    BY <2>1 DEF Typed, State, Due
  <2>3. r.slot = c.slot /\ r.ahead = c.ahead /\ r.body = c.body /\ r.scope = c.scope
    BY <2>1 DEF Typed, State
  <2>4. Calm(c, r)
    BY <2>3 DEF Calm, CalmSlot, Closed, Up
  <2> QED BY <2>2, <2>3, <2>4, SameQuiet
<1> HIDE DEF r
<1>10. Near(r)
  BY <1>8, <1>9, NearBy
<1>11. IsService(n) => Near(Spawn(r, {n}, "serve"))
  <2> SUFFICES ASSUME IsService(n) PROVE Near(Spawn(r, {n}, "serve"))
    OBVIOUS
  <2>1. /\ Typed(Spawn(r, {n}, "serve")) /\ Quiet(r, Spawn(r, {n}, "serve"))
        /\ Calm(r, Spawn(r, {n}, "serve"))
    BY <1>9, SpawnTyped, SpawnQuiet, SpawnCalm
  <2> QED BY <1>10, <2>1, NearBy
<1> QED BY <1>2, <1>10, <1>11

-----------------------------------------------------------------------------
(***************************************************************************)
(* Grants and the queue: what a pass of admit keeps.  The pass serves the  *)
(* waiters one after the other, each against the holders and those served  *)
(* before it, so the invariant says, besides that holders do not conflict  *)
(* and no pool has too many, that the queue is a strict order of all the   *)
(* waiters.                                                                *)
(***************************************************************************)

Exclusive(m) ==
  \A h, g \in Granted(m) : h # g => Decl(h).exclusive \cap Wants(g) = {}

Takers(H, p) == {h \in H : p \in Decl(h).pool}

Pools(m) == \A p \in Pool : Cardinality(Takers(Granted(m), p)) <= plan.limit[p]

Waiters(m) == In(m, {"Waiting"})

(* Of two waiters one is ahead of the other, nobody is ahead of itself,    *)
(* and who is ahead of one that is ahead is ahead.                         *)
Ordered(m) ==
  /\ \A u, w \in Waiters(m) : u # w => u \in m.ahead[w] \/ w \in m.ahead[u]
  /\ \A u \in Waiters(m) : u \notin m.ahead[u]
  /\ \A u, v, w \in Waiters(m) : u \in m.ahead[v] /\ v \in m.ahead[w] => u \in m.ahead[w]

Locks(m) == Exclusive(m) /\ Pools(m) /\ Ordered(m)

-----------------------------------------------------------------------------
LEMMA TakersFinite ==
  ASSUME NEW H \in SUBSET Node, NEW p
  PROVE  IsFiniteSet(Takers(H, p)) /\ Cardinality(Takers(H, p)) \in Nat
<1>1. IsFiniteSet(Node)
  BY NAssumption, FS_Interval DEF Node
<1>2. Takers(H, p) \in SUBSET Node
  BY DEF Takers
<1> HIDE DEF Node
<1> QED BY <1>1, <1>2, FS_Subset, FS_CardinalityType

(* Fewer of the nodes that take a slot, fewer slots taken.                 *)
LEMMA MoreTakers ==
  ASSUME NEW H \in SUBSET Node, NEW G \in SUBSET Node, NEW p,
         Takers(G, p) \subseteq Takers(H, p)
  PROVE  Cardinality(Takers(G, p)) <= Cardinality(Takers(H, p))
BY TakersFinite, FS_Subset

(* Among some waiters there is a last one.                                 *)
LEMMA LastWaiter ==
  ASSUME NEW m, Ordered(m), NEW T \in SUBSET Waiters(m), T # {}
  PROVE  \E w \in T : \A u \in T \ {w} : u \in m.ahead[w]
<1> DEFINE R == StrictSubsetOrdering(T)
           behind(w) == T \ m.ahead[w]
           B == {behind(w) : w \in T}
<1>1. T \in SUBSET Node /\ IsFiniteSet(T)
  <2>1. IsFiniteSet(Node)
    BY NAssumption, FS_Interval DEF Node
  <2>2. T \in SUBSET Node
    BY DEF Waiters, In
  <2> HIDE DEF Node
  <2> QED BY <2>1, <2>2, FS_Subset
<1>2. IsWellFoundedOn(R, SUBSET T)
  BY <1>1, FS_StrictSubsetOrderingWellFounded, FS_FiniteSubsetsOfFinite
<1>3. B \subseteq SUBSET T /\ B # {}
  OBVIOUS
<1> HIDE DEF R, B
<1>4. PICK b \in B : \A c \in B : <<c, b>> \notin R
  BY <1>2, <1>3, WFMin
<1>5. PICK w \in T : b = behind(w)
  BY DEF B
<1>6. ASSUME NEW u \in T \ {w}, u \notin m.ahead[w] PROVE FALSE
  <2>1. w \in m.ahead[u]
    BY <1>6 DEF Ordered
  <2>2. behind(u) \subseteq behind(w)
    BY <2>1 DEF Ordered
  <2>3. w \in behind(w) /\ w \notin behind(u)
    BY <2>1 DEF Ordered
  <2>4. behind(u) \in B /\ behind(u) \in SUBSET T /\ behind(w) \in SUBSET T
    BY DEF B
  <2> HIDE DEF behind
  <2>5. <<behind(u), behind(w)>> \in R
    BY <2>2, <2>3, <2>4 DEF R, StrictSubsetOrdering
  <2> QED BY <1>4, <1>5, <2>4, <2>5
<1> QED BY <1>6

LEMMA QuietLocks ==
  ASSUME NEW m, NEW x, plan \in Plans, Locks(m), Quiet(m, x)
  PROVE  Locks(x)
<1>1. Exclusive(x)
  BY DEF Locks, Exclusive, Quiet, QuietSlot, Granted
<1>2. Ordered(x)
  BY DEF Locks, Ordered, Waiters, In, Quiet, QuietSlot
<1>3. ASSUME NEW p \in Pool PROVE Cardinality(Takers(Granted(x), p)) <= plan.limit[p]
  <2>1. Granted(x) \in SUBSET Granted(m) /\ Granted(m) \in SUBSET Node
    BY DEF Granted, Quiet, QuietSlot
  <2>2. Granted(x) \in SUBSET Node /\ plan.limit[p] \in Nat
    BY <2>1, PlansAssumption DEF PlanType
  <2>3. Cardinality(Takers(Granted(m), p)) <= plan.limit[p]
    BY DEF Locks, Pools
  <2>4. Takers(Granted(x), p) \subseteq Takers(Granted(m), p)
    BY <2>1 DEF Takers
  <2>5. Cardinality(Takers(Granted(x), p)) <= Cardinality(Takers(Granted(m), p))
    BY <2>1, <2>2, <2>4, MoreTakers
  <2> QED BY <2>2, <2>3, <2>5, TakersFinite, <2>1
<1> QED BY <1>1, <1>2, <1>3 DEF Locks, Pools

(* Preference is a strict total order, so those that join the queue        *)
(* together are ordered.                                                   *)
LEMMA PreferenceOrders ==
  ASSUME plan \in Plans, NEW u \in Node, NEW v \in Node, NEW w \in Node
  PROVE  /\ u # w => Preferred(u, w) \/ Preferred(w, u)
         /\ ~ Preferred(u, u)
         /\ Preferred(u, v) /\ Preferred(v, w) => Preferred(u, w)
<1>1. Decl(u).rank \in Nat /\ Decl(v).rank \in Nat /\ Decl(w).rank \in Nat
  BY PlanTyped DEF NodeDecl
<1>2. u \in Nat /\ v \in Nat /\ w \in Nat
  BY NAssumption DEF Node
<1> QED BY <1>1, <1>2 DEF Preferred

LEMMA EnqueueLocks ==
  ASSUME NEW m, Typed(m), Locks(m)
  PROVE  Locks(Enqueue(m))
<1> DEFINE lost   == {n \in In(m, {"Waiting"}) : ~ NeedsReady(m, n)}
           joined == {n \in In(m, {"Pending"}) : NeedsReady(m, n)}
           queued == In(m, {"Waiting"}) \ lost
           x      == Enqueue(m)
<1>1. \A n \in Node :
        /\ x.slot[n].granted = m.slot[n].granted
        /\ x.slot[n].st = IF n \in lost THEN "Pending"
                          ELSE IF n \in joined THEN "Waiting" ELSE m.slot[n].st
        /\ x.ahead[n] = IF n \in queued THEN m.ahead[n] \cap queued
                        ELSE IF n \in joined THEN queued \cup {u \in joined : Preferred(u, n)}
                        ELSE {}
  BY DEF Enqueue, Typed, State, Slot
<1>2. queued \subseteq Waiters(m) /\ queued \cap joined = {} /\ Ordered(m)
  BY DEF In, Waiters, Locks
<1>3. Waiters(x) \subseteq queued \cup joined /\ Waiters(x) \subseteq Node
  BY <1>1 DEF In, Waiters
<1>4. queued \subseteq Node /\ joined \subseteq Node
  BY DEF In
<1> HIDE DEF x, queued, joined, lost
<1>5. Granted(x) = Granted(m)
  BY <1>1 DEF Granted
<1>6. \A w \in queued : x.ahead[w] = m.ahead[w] \cap queued
  BY <1>1, <1>4
<1>7. ASSUME NEW u \in Waiters(x), NEW w \in Waiters(x), u # w
      PROVE  u \in x.ahead[w] \/ w \in x.ahead[u]
  <2>1. CASE u \in queued /\ w \in queued
    BY <1>2, <1>7, <1>6, <2>1 DEF Ordered
  <2>2. CASE u \in queued /\ w \in joined
    BY <1>1, <1>2, <1>4, <2>2
  <2>3. CASE u \in joined /\ w \in queued
    BY <1>1, <1>2, <1>4, <2>3
  <2>4. CASE u \in joined /\ w \in joined
    BY <1>1, <1>2, <1>4, <1>7, <2>4, PreferenceOrders DEF Typed
  <2> QED BY <1>3, <2>1, <2>2, <2>3, <2>4
<1>8. ASSUME NEW u \in Waiters(x) PROVE u \notin x.ahead[u]
  <2>1. CASE u \in queued
    BY <1>2, <1>6, <2>1 DEF Ordered
  <2>2. CASE u \in joined
    BY <1>1, <1>2, <1>4, <2>2, PreferenceOrders DEF Typed
  <2> QED BY <1>3, <2>1, <2>2
<1>9. ASSUME NEW u \in Waiters(x), NEW v \in Waiters(x), NEW w \in Waiters(x),
             u \in x.ahead[v], v \in x.ahead[w]
      PROVE  u \in x.ahead[w]
  <2>1. CASE w \in queued
    <3>1. v \in queued /\ v \in m.ahead[w]
      BY <1>9, <1>6, <2>1
    <3>2. u \in queued /\ u \in m.ahead[v]
      BY <1>9, <1>6, <3>1
    <3> QED BY <1>2, <1>6, <2>1, <3>1, <3>2 DEF Ordered
  <2>2. CASE w \in joined /\ u \in queued
    BY <1>1, <1>2, <1>4, <2>2
  <2>3. CASE w \in joined /\ u \in joined
    <3>1. v \in joined /\ Preferred(u, v)
      BY <1>1, <1>2, <1>3, <1>4, <1>9, <2>3
    <3>2. Preferred(v, w)
      BY <1>1, <1>2, <1>4, <1>9, <2>3, <3>1
    <3> QED BY <1>1, <1>2, <1>4, <2>3, <3>1, <3>2, PreferenceOrders DEF Typed
  <2> QED BY <1>3, <2>1, <2>2, <2>3
<1>10. Ordered(x)
  BY <1>7, <1>8, <1>9 DEF Ordered
<1>11. Exclusive(x) /\ Pools(x)
  BY <1>5 DEF Locks, Exclusive, Pools
<1> QED BY <1>10, <1>11 DEF Locks, x

LEMMA AvailableApart ==
  ASSUME NEW n, NEW H, NEW h \in H, GrantsAvailable(n, H)
  PROVE  Decl(n).exclusive \cap Wants(h) = {} /\ Decl(h).exclusive \cap Wants(n) = {}
BY DEF GrantsAvailable, Wants

LEMMA StartLocks ==
  ASSUME NEW q, Typed(q), Locks(q), NEW G \in SUBSET In(q, {"Waiting"}), GrantPass(q, G)
  PROVE  Locks(Start(q, G))
<1> DEFINE x == Start(q, G)
<1>1. \A n \in Node : /\ n \notin G => /\ x.slot[n].granted = q.slot[n].granted
                                       /\ x.slot[n].st = q.slot[n].st
                                       /\ x.ahead[n] = q.ahead[n] \ G
                      /\ n \in G => x.slot[n].st # "Waiting"
  <2> DEFINE recovered == {n \in G : IsService(n) /\ q.slot[n].initialized}
             spawned   == {n \in G \ recovered : Decl(n).kind # "Join"}
             slots  == [n \in Node |-> IF n \in G THEN StartedSlot(q, n) ELSE q.slot[n]]
             aheads == [n \in Node |-> IF n \in G THEN {} ELSE q.ahead[n] \ G]
             s == [q EXCEPT !.slot = slots, !.ahead = aheads]
             a == Absorb(s, recovered)
  <2>1. x = Spawn(Spawn(a, recovered, "serve"), spawned, "run")
    BY DEF Start
  <2>2. \A n \in Node : StartedSlot(q, n) \in Slot /\ StartedSlot(q, n).st # "Waiting"
    <3> SUFFICES ASSUME NEW n \in Node
                 PROVE  StartedSlot(q, n) \in Slot /\ StartedSlot(q, n).st # "Waiting"
      OBVIOUS
    <3>1. q.slot[n] \in Slot
      BY SlotTyped
    <3>2. StartedSlot(q, n) \in Slot
      BY StartedSlotTyped
    <3>3. StartedSlot(q, n).st # "Waiting"
      BY <3>1 DEF StartedSlot, Slot
    <3> QED BY <3>2, <3>3
  <2>3. slots \in [Node -> Slot]
    BY <2>2, SlotTyped
  <2> HIDE DEF slots, aheads
  <2>4. s.slot = slots /\ s.ahead = aheads
    BY DEF Typed, State
  <2> HIDE DEF s, recovered
  <2>5. /\ \A n \in Node : a.slot[n].granted = slots[n].granted /\ a.slot[n].st = slots[n].st
        /\ a.ahead = aheads
    BY <2>3, <2>4 DEF Absorb, Slot
  <2> HIDE DEF a, spawned
  <2>6. x.slot = a.slot /\ x.ahead = a.ahead
    BY <2>1 DEF Spawn
  <2> HIDE DEF x
  <2> QED BY <2>2, <2>5, <2>6 DEF slots, aheads
<1> HIDE DEF x
<1>2. G \subseteq Node /\ \A w \in G : q.slot[w].st = "Waiting"
  BY DEF In
<1>3. ASSUME NEW w \in G, NEW h \in Granted(q) \cup (q.ahead[w] \cap G)
      PROVE  Decl(w).exclusive \cap Wants(h) = {} /\ Decl(h).exclusive \cap Wants(w) = {}
  <2>1. GrantsAvailable(w, Granted(q) \cup (q.ahead[w] \cap G))
    BY DEF GrantPass
  <2> QED BY <2>1, AvailableApart
<1>4. ASSUME NEW h \in Granted(x), NEW g \in Granted(x), h # g
      PROVE  Decl(h).exclusive \cap Wants(g) = {}
  <2>1. h \in Node /\ g \in Node /\ h \in G \cup Granted(q) /\ g \in G \cup Granted(q)
    BY <1>1 DEF Granted
  <2>2. CASE h \in Granted(q) /\ g \in Granted(q)
    BY <1>4, <2>2 DEF Locks, Exclusive
  <2>3. CASE h \in G /\ g \in Granted(q)
    BY <1>3, <2>3
  <2>4. CASE h \in Granted(q) /\ g \in G
    BY <1>3, <2>4
  <2>5. CASE h \in G /\ g \in G
    <3>1. g \in q.ahead[h] \/ h \in q.ahead[g]
      <4>1. h \in Waiters(q) /\ g \in Waiters(q) /\ Ordered(q)
        BY <2>5 DEF Waiters, Locks
      <4> QED BY <1>4, <4>1 DEF Ordered
    <3> QED BY <1>3, <2>5, <3>1
  <2> QED BY <2>1, <2>2, <2>3, <2>4, <2>5
<1>5. Ordered(x)
  <2>1. Waiters(x) \subseteq Waiters(q) \ G
    BY <1>1 DEF Waiters, In
  <2>2. \A u \in Waiters(x) : x.ahead[u] = q.ahead[u] \ G
    BY <1>1, <2>1 DEF Waiters, In
  <2> QED BY <2>1, <2>2 DEF Locks, Ordered
<1>6. ASSUME NEW p \in Pool
      PROVE  Cardinality(Takers(Granted(x), p)) <= plan.limit[p]
  <2> DEFINE T == Takers(G, p)
  <2>1. /\ Granted(x) \in SUBSET Node /\ Granted(q) \in SUBSET Node
        /\ Granted(x) \subseteq Granted(q) \cup G
        /\ plan.limit[p] \in Nat
        /\ Cardinality(Takers(Granted(q), p)) <= plan.limit[p]
    BY <1>1, PlansAssumption DEF Granted, Typed, PlanType, Locks, Pools
  <2>2. CASE T = {}
    <3>1. Takers(Granted(x), p) \subseteq Takers(Granted(q), p)
      BY <2>1, <2>2 DEF Takers
    <3>2. Cardinality(Takers(Granted(x), p)) <= Cardinality(Takers(Granted(q), p))
      BY <2>1, <3>1, MoreTakers
    <3> QED BY <2>1, <3>2, TakersFinite
  <2>3. CASE T # {}
    <3>1. T \in SUBSET Waiters(q)
      BY DEF Takers, Waiters
    <3>2. PICK w \in T : \A u \in T \ {w} : u \in q.ahead[w]
      BY <2>3, <3>1, LastWaiter DEF Locks
    <3> DEFINE H == Granted(q) \cup (q.ahead[w] \cap G)
    <3>3. w \in G /\ p \in Decl(w).pool
      BY DEF Takers
    <3>4. GrantsAvailable(w, H)
      BY <3>3 DEF GrantPass
    <3>5. Cardinality(Takers(H, p)) < plan.limit[p]
      BY <3>3, <3>4 DEF GrantsAvailable, Takers
    <3>6. H \in SUBSET Node
      BY <1>2, <2>1
    <3>7. IsFiniteSet(Takers(H, p)) /\ Cardinality(Takers(H, p)) \in Nat
      BY <3>6, TakersFinite
    <3>8. Takers(Granted(x), p) \subseteq Takers(H, p) \cup {w}
      BY <2>1, <3>2 DEF Takers
    <3> HIDE DEF H
    <3>9. /\ IsFiniteSet(Takers(H, p) \cup {w})
          /\ Cardinality(Takers(H, p) \cup {w}) <= Cardinality(Takers(H, p)) + 1
      BY <3>7, FS_AddElement
    <3>10. /\ Cardinality(Takers(Granted(x), p)) <= Cardinality(Takers(H, p) \cup {w})
           /\ Cardinality(Takers(Granted(x), p)) \in Nat
           /\ Cardinality(Takers(H, p) \cup {w}) \in Nat
      BY <3>8, <3>9, FS_Subset, FS_CardinalityType
    <3> QED BY <2>1, <3>5, <3>7, <3>9, <3>10
  <2> QED BY <2>2, <2>3
<1> QED BY <1>4, <1>5, <1>6 DEF Locks, Exclusive, Pools, x
=============================================================================
