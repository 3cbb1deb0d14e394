----------------------------- MODULE TaskProofs -----------------------------
(***************************************************************************)
(* The tasks the engine asks for, for every number of nodes and every set  *)
(* of valid plans: a node has a task exactly in the states that need one,  *)
(* an event ends at most the task it reports, and starts one only where    *)
(* none is left.  It is what the host's own books are measured against.    *)
(***************************************************************************)
EXTENDS LedgerProofs

(* The task that a node in a state has.                                    *)
PhaseOf(n, st) ==
  IF st = "Running" THEN "run"
  ELSE IF st \in {"Releasing", "Compensating", "RetryRelease"} THEN "cleanup"
  ELSE IF st = "Stopping" \/ (st = "Ready" /\ IsService(n)) THEN "serve" ELSE "none"

(* The task fits the state; an abandoned one is on its way out, unless it  *)
(* is a thread; and only the body of an attempt, or what was abandoned, is *)
(* ever aborted.                                                           *)
Manned(n, s, b) ==
  /\ s.st # "Abandoned" => b.phase = PhaseOf(n, s.st)
  /\ s.st = "Abandoned" /\ b.phase # "none" /\ Decl(n).kind # "BlockingStep" => b.aborted
  /\ b.aborted => b.phase # "none" /\ s.st \in {"Running", "Abandoned"}

AllManned(m) == \A n \in Node : Manned(n, m.slot[n], m.body[n])

(* The value of n is there to be used.                                     *)
Valued(n, s) ==
  Decl(n).kind # "Join" /\ (s.st \in {"Ready", "Finished"} \/ s.initialized)

(* A cleanup body is due for n.                                            *)
Owing(n, s) ==
  \/ s.st \in {"Ready", "Failed", "Interrupted"} /\ s.held /\ CanOwe(n)
  \/ s.st = "Ambiguous" /\ RecoversAmbiguity(n)

(* n will start, or start again.                                           *)
Waits == Unstarted \cup {"Backoff"}

(* What no stage gives a node: an acquisition, a value, a second start.    *)
Spares(n, s, t) ==
  /\ t.restarts = s.restarts /\ t.attempt >= s.attempt
  /\ t.held => s.held
  /\ Valued(n, t) => Valued(n, s)
  /\ t.st \in Waits => s.st \in Waits

(* A stage that starts nothing and may abort.                              *)
Ease(n, s, b, t, c) ==
  Manned(n, s, b) =>
    /\ Manned(n, t, c)
    /\ c.phase = b.phase /\ (b.aborted => c.aborted)
    /\ b.phase # "none" => t.attempt = s.attempt
    /\ Spares(n, s, t)

(* A stage that aborts nothing and may start: an attempt or an episode of  *)
(* a node that waits, or the cleanup of one that owes it.                  *)
Hire(n, s, b, t, c) ==
  Manned(n, s, b) =>
    /\ Manned(n, t, c)
    /\ b.phase # "none" => c = b /\ t.attempt = s.attempt
    /\ b.phase = "none" /\ c.phase # "none" =>
         /\ ~ c.aborted
         /\ c.phase = "run" => /\ s.st \in Waits /\ t.st = "Running"
                               /\ t.attempt # s.attempt /\ ~ t.held /\ ~ t.cancelling
         /\ c.phase = "serve" => s.st \in Waits
         /\ c.phase = "cleanup" => Owing(n, s)
    /\ s.st = "Running" => t = s
    /\ Owing(n, t) => Owing(n, s)
    /\ Spares(n, s, t)

Launched(m) == m.scope.st # "Planned"

Eases(m, x) ==
  /\ \A n \in Node : Ease(n, m.slot[n], m.body[n], x.slot[n], x.body[n])
  /\ Launched(m) => Launched(x)

Hires(m, x) ==
  /\ \A n \in Node : Hire(n, m.slot[n], m.body[n], x.slot[n], x.body[n])
  /\ Launched(m) => Launched(x)

LEMMA SparesTrans ==
  ASSUME NEW n, NEW s \in Slot, NEW t \in Slot, NEW u \in Slot, Spares(n, s, t), Spares(n, t, u)
  PROVE  Spares(n, s, u)
<1>1. s.attempt \in Nat /\ t.attempt \in Nat /\ u.attempt \in Nat
  BY Counters
<1> QED BY <1>1 DEF Spares

LEMMA EaseTrans ==
  ASSUME NEW n, NEW s \in Slot, NEW t \in Slot, NEW u \in Slot, NEW b, NEW c, NEW d,
         Ease(n, s, b, t, c), Ease(n, t, c, u, d)
  PROVE  Ease(n, s, b, u, d)
BY SparesTrans DEF Ease

LEMMA HireTrans ==
  ASSUME NEW n, NEW s \in Slot, NEW t \in Slot, NEW u \in Slot, NEW b, NEW c, NEW d,
         Hire(n, s, b, t, c), Hire(n, t, c, u, d)
  PROVE  Hire(n, s, b, u, d)
<1> SUFFICES ASSUME Manned(n, s, b)
             PROVE  Hire(n, s, b, u, d)
  BY DEF Hire
<1>1. Spares(n, s, t) /\ Spares(n, t, u) /\ Spares(n, s, u) /\ Manned(n, t, c) /\ Manned(n, u, d)
  BY SparesTrans DEF Hire
<1>2. s.attempt \in Nat /\ t.attempt \in Nat /\ u.attempt \in Nat
  BY Counters
<1>3. Owing(n, u) => Owing(n, t) /\ Owing(n, s)
  BY <1>1 DEF Hire
<1>4. b.phase # "none" => d = b /\ u.attempt = s.attempt
  BY <1>1 DEF Hire
<1>5. ASSUME b.phase = "none", d.phase # "none"
      PROVE  /\ ~ d.aborted
             /\ d.phase = "run" => /\ s.st \in Waits /\ u.st = "Running"
                                   /\ u.attempt # s.attempt /\ ~ u.held /\ ~ u.cancelling
             /\ d.phase = "serve" => s.st \in Waits
             /\ d.phase = "cleanup" => Owing(n, s)
  <2>1. CASE c.phase = "none"
    BY <1>1, <1>2, <1>5, <2>1 DEF Hire, Spares
  <2>2. CASE c.phase # "none"
    <3>1. d = c
      BY <1>1, <2>2 DEF Hire
    <3>2. t.st = "Running" => u = t
      BY <1>1 DEF Hire
    <3> QED BY <1>5, <2>2, <3>1, <3>2 DEF Hire
  <2> QED BY <2>1, <2>2
<1>6. s.st = "Running" => u = s
  BY <1>1 DEF Hire
<1> QED BY <1>1, <1>3, <1>4, <1>5, <1>6 DEF Hire

LEMMA EasesTrans ==
  ASSUME NEW m, NEW x, NEW y, Typed(m), Typed(x), Typed(y), Eases(m, x), Eases(x, y)
  PROVE  Eases(m, y)
<1>1. ASSUME NEW n \in Node PROVE Ease(n, m.slot[n], m.body[n], y.slot[n], y.body[n])
  BY SlotTyped, EaseTrans DEF Eases
<1> QED BY <1>1 DEF Eases

LEMMA HiresTrans ==
  ASSUME NEW m, NEW x, NEW y, Typed(m), Typed(x), Typed(y), Hires(m, x), Hires(x, y)
  PROVE  Hires(m, y)
<1>1. ASSUME NEW n \in Node PROVE Hire(n, m.slot[n], m.body[n], y.slot[n], y.body[n])
  BY SlotTyped, HireTrans DEF Hires
<1> QED BY <1>1 DEF Hires

(* Slots that differ only where neither relation looks.                    *)
Level(s, t) ==
  /\ t.st = s.st /\ t.attempt = s.attempt /\ t.restarts = s.restarts
  /\ t.held = s.held /\ t.initialized = s.initialized

LEMMA LevelEase ==
  ASSUME NEW n, NEW s \in Slot, NEW t, Level(s, t), NEW b
  PROVE  Ease(n, s, b, t, b) /\ Spares(n, s, t) /\ (Manned(n, s, b) => Manned(n, t, b))
<1>1. s.attempt \in Nat
  BY Counters
<1> QED BY <1>1 DEF Level, Ease, Manned, Spares, Valued

LEMMA LevelEases ==
  ASSUME NEW m, Typed(m), NEW x, x.body = m.body, x.scope.st = m.scope.st,
         \A n \in Node : Level(m.slot[n], x.slot[n])
  PROVE  Eases(m, x)
<1>1. \A n \in Node : Ease(n, m.slot[n], m.body[n], x.slot[n], x.body[n])
  BY SlotTyped, LevelEase
<1> QED BY <1>1 DEF Eases, Launched

LEMMA EasesRefl == ASSUME NEW m, Typed(m) PROVE Eases(m, m)
<1>1. \A n \in Node : Level(m.slot[n], m.slot[n])
  BY DEF Level
<1> QED BY <1>1, LevelEases

LEMMA HiresRefl == ASSUME NEW m, Typed(m) PROVE Hires(m, m)
<1>1. \A n \in Node : m.slot[n].attempt \in Nat
  BY SlotTyped, Counters
<1> QED BY <1>1 DEF Hires, Hire, Spares

-----------------------------------------------------------------------------
(* The stages that start nothing.                                          *)

LEMMA FlushEases ==
  ASSUME NEW m, Typed(m), NEW S \in SUBSET Node
  PROVE  /\ Eases(m, FlushFaults(m, S)) /\ FlushFaults(m, S).body = m.body
         /\ FlushFaults(m, S).scope = m.scope
         /\ \A n \in Node : Level(m.slot[n], FlushFaults(m, S).slot[n])
<1> DEFINE x == FlushFaults(m, S)
           t(n) == [m.slot[n] EXCEPT !.parked = {}, !.ambiguity = {}]
<1>1. /\ x.scope = m.scope /\ x.body = m.body
      /\ \A n \in Node : x.slot[n] = IF n \in S THEN t(n) ELSE m.slot[n]
  BY DEF Typed, State, FlushFaults
<1>2. ASSUME NEW n \in Node PROVE Level(m.slot[n], t(n)) /\ Level(m.slot[n], m.slot[n])
  <2>1. m.slot[n] \in Slot
    BY SlotTyped
  <2> QED BY <2>1 DEF Slot, Level
<1> HIDE DEF x, t
<1>3. \A n \in Node : Level(m.slot[n], x.slot[n])
  BY <1>1, <1>2
<1>4. Eases(m, x)
  BY <1>1, <1>3, LevelEases
<1> QED BY <1>1, <1>3, <1>4 DEF x

LEMMA ParkLevel ==
  ASSUME NEW m, Typed(m), NEW n \in Node, NEW k
  PROVE  LET x == ParkFault(m, n, k) IN
         /\ x.body = m.body /\ x.scope = m.scope
         /\ \A d \in Node : Level(m.slot[d], x.slot[d])
         /\ \A d \in Node \ {n} : x.slot[d] = m.slot[d]
<1> DEFINE x == ParkFault(m, n, k)
           t == [m.slot[n] EXCEPT !.parked = @ \cup {k}]
<1>1. /\ x.scope = m.scope /\ x.body = m.body
      /\ \A d \in Node : x.slot[d] = IF d = n THEN t ELSE m.slot[d]
  BY DEF Typed, State, ParkFault
<1>2. Level(m.slot[n], t) /\ \A d \in Node : Level(m.slot[d], m.slot[d])
  <2>1. m.slot[n] \in Slot
    BY SlotTyped
  <2> QED BY <2>1 DEF Slot, Level
<1> HIDE DEF x, t
<1>3. \A d \in Node : Level(m.slot[d], x.slot[d])
  BY <1>1, <1>2
<1> QED BY <1>1, <1>3 DEF x

LEMMA AbsorbLevel ==
  ASSUME NEW m, Typed(m), NEW S \in SUBSET Node
  PROVE  LET x == Absorb(m, S) IN
         /\ x.body = m.body /\ x.scope = m.scope
         /\ \A d \in Node : Level(m.slot[d], x.slot[d])
         /\ \A d \in Node \ S : x.slot[d] = m.slot[d]
         /\ \A d \in Node : x.slot[d].cancelling = m.slot[d].cancelling
<1> DEFINE x == Absorb(m, S)
           t(n) == [m.slot[n] EXCEPT !.parked = {}]
<1>1. /\ x.scope = m.scope /\ x.body = m.body
      /\ \A n \in Node : x.slot[n] = IF n \in S THEN t(n) ELSE m.slot[n]
  BY DEF Typed, State, Absorb
<1>2. ASSUME NEW n \in Node
      PROVE  /\ Level(m.slot[n], t(n)) /\ Level(m.slot[n], m.slot[n])
             /\ t(n).cancelling = m.slot[n].cancelling
  <2>1. m.slot[n] \in Slot
    BY SlotTyped
  <2> QED BY <2>1 DEF Slot, Level
<1> HIDE DEF x, t
<1>3. \A d \in Node : Level(m.slot[d], x.slot[d]) /\ x.slot[d].cancelling = m.slot[d].cancelling
  BY <1>1, <1>2
<1> QED BY <1>1, <1>3 DEF x

LEMMA AbortIs ==
  ASSUME NEW m, Typed(m), NEW S
  PROVE  LET x == Abort(m, S) IN
         /\ x.slot = m.slot /\ x.scope = m.scope
         /\ \A n \in Node : /\ x.body[n].phase = m.body[n].phase
                            /\ x.body[n].aborted = (m.body[n].aborted \/ n \in S)
<1> DEFINE x == Abort(m, S)
<1>1. /\ x.slot = m.slot /\ x.scope = m.scope
      /\ \A n \in Node : x.body[n] = IF n \in S THEN [m.body[n] EXCEPT !.aborted = TRUE]
                                     ELSE m.body[n]
  BY DEF Typed, State, Abort
<1>2. \A n \in Node : m.body[n] \in Body
  BY DEF Typed, State
<1> HIDE DEF x
<1>3. ASSUME NEW n \in Node
      PROVE  /\ x.body[n].phase = m.body[n].phase
             /\ x.body[n].aborted = (m.body[n].aborted \/ n \in S)
  BY <1>1, <1>2 DEF Body
<1> QED BY <1>1, <1>3 DEF x

(* A slot that leaves the queue, a backoff or a transfer for good.         *)
LEMMA SettledSlotIs ==
  ASSUME NEW m, Typed(m), NEW n \in Node
  PROVE  LET s == m.slot[n]
             t == SettledSlot(m, n)
         IN /\ \/ s.st \in Unstarted \cup {"Publishing"} /\ t.st = "Skipped"
               \/ s.st = "Backoff" /\ t.st = "Interrupted"
               \/ t.st = s.st /\ t.attempt = s.attempt
            /\ s.st \notin Unstarted \cup {"Publishing", "Backoff", "Running"} => t = s
            /\ t.attempt >= s.attempt /\ t.restarts = s.restarts /\ t.held = s.held
            /\ t.initialized = s.initialized
<1> DEFINE s == m.slot[n]
           skipped == [s EXCEPT !.st = "Skipped"]
           cut == [s EXCEPT !.st = "Interrupted", !.timer = "none",
                     !.attempt = IF IsService(n) /\ s.initialized THEN @ ELSE @ + 1]
           told == InterruptedSlot(m, n)
<1>1. s \in Slot /\ s.attempt \in Nat
  BY SlotTyped, Counters
<1>2. skipped.st = "Skipped" /\ skipped.attempt = s.attempt /\ skipped.restarts = s.restarts
      /\ skipped.held = s.held /\ skipped.initialized = s.initialized
  BY <1>1 DEF Slot
<1>3. cut.st = "Interrupted" /\ cut.attempt >= s.attempt /\ cut.restarts = s.restarts
      /\ cut.held = s.held /\ cut.initialized = s.initialized
  BY <1>1 DEF Slot
<1>4. Level(s, told)
  BY <1>1 DEF InterruptedSlot, Slot, Level
<1>5. \/ SettledSlot(m, n) = skipped /\ s.st \in Unstarted \cup {"Publishing"}
      \/ SettledSlot(m, n) = cut /\ s.st = "Backoff"
      \/ SettledSlot(m, n) = told /\ s.st = "Running"
      \/ SettledSlot(m, n) = s
  BY DEF SettledSlot
<1> HIDE DEF s, skipped, cut, told
<1>6. s.attempt >= s.attempt
  BY <1>1
<1> QED BY <1>2, <1>3, <1>4, <1>5, <1>6 DEF Level, Unstarted, s

LEMMA SettleIs ==
  ASSUME NEW m, Typed(m), NEW cause, Admits(m)
  PROVE  LET x == Settle(m, cause)
             f == FlushFaults(m, CutShort(m))
         IN /\ x.scope.st = "Settling" /\ Typed(f)
            /\ \A n \in Node : /\ Level(m.slot[n], f.slot[n])
                               /\ \/ x.slot[n] = SettledSlot(f, n)
                                  \/ x.slot[n] = SettledSlot(Abort(f, Dropped(m)), n)
                               /\ x.body[n].phase = m.body[n].phase
                               /\ x.body[n].aborted = (m.body[n].aborted \/ n \in Dropped(m))
<1> DEFINE f == FlushFaults(m, CutShort(m))
           a == Abort(f, Dropped(m))
           x == [a EXCEPT !.scope.st = "Settling", !.scope.cause = cause,
                       !.scope.budget = plan.bounded,
                       !.slot = [n \in Node |-> SettledSlot(a, n)],
                       !.ahead = [n \in Node |-> {}]]
<1>1. CutShort(m) \in SUBSET Node /\ Dropped(m) \in SUBSET Node
  BY DEF CutShort, Dropped, In
<1>2. /\ Typed(f) /\ f.body = m.body
      /\ \A n \in Node : Level(m.slot[n], f.slot[n])
  BY <1>1, FlushFaultsTyped, FlushEases
<1>3. Settle(m, cause) = x
  BY DEF Settle
<1> HIDE DEF f
<1>4. /\ Typed(a)
      /\ \A n \in Node : /\ a.body[n].phase = m.body[n].phase
                         /\ a.body[n].aborted = (m.body[n].aborted \/ n \in Dropped(m))
  BY <1>1, <1>2, AbortTyped, AbortIs
<1> HIDE DEF a
<1>5. x.scope.st = "Settling" /\ x.body = a.body /\ \A n \in Node : x.slot[n] = SettledSlot(a, n)
  BY <1>4 DEF Typed, State, Scope
<1> HIDE DEF x
<1> QED BY <1>2, <1>3, <1>4, <1>5 DEF f, a

LEMMA SettleEases ==
  ASSUME NEW m, Typed(m), NEW cause
  PROVE  Eases(m, Settle(m, cause))
<1> DEFINE f == FlushFaults(m, CutShort(m))
           a == Abort(f, Dropped(m))
           x == Settle(m, cause)
<1>1. CASE ~ Admits(m)
  BY <1>1, EasesRefl DEF Settle
<1>2. CASE Admits(m)
  <2>1. /\ x.scope.st = "Settling" /\ Typed(f)
        /\ \A n \in Node : /\ Level(m.slot[n], f.slot[n])
                           /\ x.slot[n] = SettledSlot(f, n) \/ x.slot[n] = SettledSlot(a, n)
                           /\ x.body[n].phase = m.body[n].phase
                           /\ x.body[n].aborted = (m.body[n].aborted \/ n \in Dropped(m))
    BY <1>2, SettleIs
  <2> HIDE DEF x, f
  <2>2. Typed(a) /\ a.slot = f.slot
    <3>1. Dropped(m) \in SUBSET Node
      BY DEF Dropped, In
    <3> QED BY <2>1, <3>1, AbortTyped, AbortIs
  <2> HIDE DEF a
  <2>3. ASSUME NEW n \in Node
        PROVE  Ease(n, m.slot[n], m.body[n], x.slot[n], x.body[n])
    <3> DEFINE s == m.slot[n]
               t == x.slot[n]
    <3>1. /\ \/ s.st \in Unstarted \cup {"Publishing"} /\ t.st = "Skipped"
             \/ s.st = "Backoff" /\ t.st = "Interrupted"
             \/ t.st = s.st /\ t.attempt = s.attempt
          /\ t.attempt >= s.attempt /\ t.restarts = s.restarts /\ t.held = s.held
          /\ t.initialized = s.initialized
      <4>1. x.slot[n] = SettledSlot(f, n) \/ x.slot[n] = SettledSlot(a, n)
        BY <2>1
      <4> QED BY <2>1, <2>2, <4>1, SettledSlotIs DEF Level
    <3>2. n \in Dropped(m) => s.st = "Running"
      BY DEF Dropped, In
    <3>3. /\ x.body[n].phase = m.body[n].phase
          /\ x.body[n].aborted = (m.body[n].aborted \/ n \in Dropped(m))
      BY <2>1
    <3> HIDE DEF s, t
    <3>4. Spares(n, s, t)
      BY <3>1 DEF Spares, Valued, Unstarted, Waits
    <3>5. ASSUME Manned(n, s, m.body[n])
          PROVE  Manned(n, t, x.body[n]) /\ (m.body[n].phase # "none" => t.attempt = s.attempt)
      BY <3>1, <3>2, <3>3, <3>5 DEF Manned, PhaseOf, Unstarted
    <3> QED BY <3>3, <3>4, <3>5 DEF Ease, s, t
  <2> QED BY <2>1, <2>3 DEF Eases, Launched, x
<1> QED BY <1>1, <1>2

LEMMA SkipEases ==
  ASSUME NEW m, Typed(m), NEW n \in Node
  PROVE  Eases(m, SkipDependents(m, n))
<1> DEFINE S == SkippedBy(m, n)
           f == FlushFaults(m, S)
           skipped(d) == [f.slot[d] EXCEPT !.st = "Skipped"]
           x == SkipDependents(m, n)
<1>1. S \in SUBSET Node /\ \A d \in S : m.slot[d].st \in Unstarted
  BY SkippedReach, HitUnstarted
<1>2. Typed(f) /\ Eases(m, f) /\ f.body = m.body /\ f.scope = m.scope
      /\ \A d \in Node : Level(m.slot[d], f.slot[d])
  BY <1>1, FlushFaultsTyped, FlushEases
<1>3. /\ x.body = f.body /\ x.scope = f.scope
      /\ \A d \in Node : x.slot[d] = IF d \in S THEN skipped(d) ELSE f.slot[d]
  <2> HIDE DEF S
  <2> QED BY <1>2 DEF SkipDependents, Typed, State, S
<1> HIDE DEF f, x, S
<1>4. ASSUME NEW d \in Node
      PROVE  Ease(d, m.slot[d], m.body[d], x.slot[d], x.body[d])
  <2>1. m.slot[d] \in Slot /\ f.slot[d] \in Slot
    BY <1>2, SlotTyped
  <2>2. CASE d \notin S
    BY <1>2, <1>3, <2>2 DEF Eases
  <2>3. CASE d \in S
    <3> DEFINE s == m.slot[d]
               t == skipped(d)
    <3>1. /\ t.st = "Skipped" /\ t.attempt = f.slot[d].attempt /\ t.restarts = f.slot[d].restarts
          /\ t.held = f.slot[d].held /\ t.initialized = f.slot[d].initialized
      BY <2>1 DEF Slot
    <3>2. Level(s, f.slot[d]) /\ s.attempt \in Nat
      BY <1>2, <2>1, Counters
    <3>3. s.st \in Unstarted
      BY <1>1, <2>3
    <3>4. x.slot[d] = t /\ x.body[d] = m.body[d]
      BY <1>2, <1>3, <2>3
    <3> HIDE DEF s, t
    <3>5. Spares(d, s, t) /\ t.attempt = s.attempt
      BY <3>1, <3>2, <3>3 DEF Spares, Valued, Level, Unstarted, Waits
    <3> QED BY <3>1, <3>3, <3>4, <3>5 DEF Ease, Manned, PhaseOf, Unstarted, s
  <2> QED BY <2>2, <2>3
<1> QED BY <1>2, <1>3, <1>4 DEF Eases, Launched, x

LEMMA PolicyEases ==
  ASSUME NEW m, Typed(m), NEW n \in Node
  PROVE  Eases(m, ApplyPolicy(m, n))
<1> DEFINE f == FlushFaults(m, {n})
<1>1. Typed(f) /\ Eases(m, f)
  BY FlushFaultsTyped, FlushEases
<1>2. ApplyPolicy(m, n) \in {Settle(f, "Fault"), SkipDependents(f, n)}
  BY DEF ApplyPolicy
<1> HIDE DEF f
<1>3. /\ Typed(Settle(f, "Fault")) /\ Typed(SkipDependents(f, n))
      /\ Eases(f, Settle(f, "Fault")) /\ Eases(f, SkipDependents(f, n))
  BY <1>1, SettleTyped, SkipDependentsTyped, SettleEases, SkipEases
<1> QED BY <1>1, <1>2, <1>3, EasesTrans

(* A thread that is abandoned goes on; the other tasks are aborted.        *)
LEMMA AbandonEases ==
  ASSUME NEW m, Typed(m), NEW S \in SUBSET In(m, CleanupStates \cup {"Running", "RetryRelease"})
  PROVE  Eases(m, Abandon(m, S))
<1> DEFINE A == {n \in S : Decl(n).kind # "BlockingStep"}
           a == Abort(m, A)
           f == FlushFaults(a, S)
           left(n) == [f.slot[n] EXCEPT !.st = "Abandoned", !.timer = "none",
                         !.granted = FALSE, !.cancelling = FALSE, !.timedOut = FALSE]
           x == Abandon(m, S)
<1>1. /\ S \in SUBSET Node /\ A \in SUBSET Node
      /\ \A n \in S : m.slot[n].st \in CleanupStates \cup {"Running", "RetryRelease"}
  BY DEF In
<1> HIDE DEF A
<1>2. /\ Typed(a) /\ a.slot = m.slot /\ a.scope = m.scope
      /\ \A n \in Node : /\ a.body[n].phase = m.body[n].phase
                         /\ a.body[n].aborted = (m.body[n].aborted \/ n \in A)
  BY <1>1, AbortTyped, AbortIs
<1> HIDE DEF a
<1>3. Typed(f) /\ f.body = a.body /\ f.scope = a.scope
      /\ \A d \in Node : Level(m.slot[d], f.slot[d])
  <2>1. Typed(f) /\ f.body = a.body /\ f.scope = a.scope
        /\ \A d \in Node : Level(a.slot[d], f.slot[d])
    BY <1>1, <1>2, FlushFaultsTyped, FlushEases
  <2> HIDE DEF f
  <2> QED BY <1>2, <2>1
<1>4. /\ x.body = f.body /\ x.scope = f.scope
      /\ \A d \in Node : x.slot[d] = IF d \in S THEN left(d) ELSE f.slot[d]
  <2>1. x = [f EXCEPT
               !.slot = [n \in Node |-> IF n \in S THEN left(n) ELSE f.slot[n]],
               !.report.incomplete = @ \cup S,
               !.report.cleanupFailures =
                  @ \cup {n \in S : m.slot[n].st = "Compensating" /\ m.slot[n].recovering},
               !.due.held = @ \ S]
    BY DEF Abandon, a, A
  <2> HIDE DEF x, f, left
  <2> QED BY <1>3, <2>1 DEF Typed, State
<1> HIDE DEF f, x
<1>5. ASSUME NEW d \in Node
      PROVE  Ease(d, m.slot[d], m.body[d], x.slot[d], x.body[d])
  <2> DEFINE s == m.slot[d]
             t == x.slot[d]
  <2>1. s \in Slot /\ f.slot[d] \in Slot /\ s.attempt \in Nat
    BY <1>3, SlotTyped, Counters
  <2>2. /\ x.body[d].phase = m.body[d].phase
        /\ x.body[d].aborted = (m.body[d].aborted \/ d \in A)
    BY <1>2, <1>3, <1>4
  <2>3. Level(s, f.slot[d])
    BY <1>3
  <2>4. /\ t.attempt = s.attempt /\ t.restarts = s.restarts
        /\ t.held = s.held /\ t.initialized = s.initialized
        /\ t.st = IF d \in S THEN "Abandoned" ELSE s.st
    <3>1. CASE d \in S
      <4>1. t = left(d)
        BY <1>4, <3>1
      <4>2. /\ left(d).st = "Abandoned" /\ left(d).attempt = f.slot[d].attempt
            /\ left(d).restarts = f.slot[d].restarts /\ left(d).held = f.slot[d].held
            /\ left(d).initialized = f.slot[d].initialized
        BY <2>1 DEF Slot
      <4> QED BY <2>3, <3>1, <4>1, <4>2 DEF Level
    <3>2. CASE d \notin S
      BY <1>4, <2>3, <3>2 DEF Level
    <3> QED BY <3>1, <3>2
  <2>5. d \in S => s.st \in CleanupStates \cup {"Running", "RetryRelease"}
    BY <1>1
  <2>6. d \in A <=> d \in S /\ Decl(d).kind # "BlockingStep"
    BY DEF A
  <2> HIDE DEF s, t
  <2>7. Spares(d, s, t)
    BY <2>1, <2>4 DEF Spares, Valued, Unstarted, Waits
  <2>8. ASSUME Manned(d, s, m.body[d]) PROVE Manned(d, t, x.body[d])
    <3>1. CASE d \in S
      BY <2>2, <2>4, <2>5, <2>6, <2>8, <3>1 DEF Manned, PhaseOf, CleanupStates
    <3>2. CASE d \notin S
      BY <2>2, <2>4, <2>6, <2>8, <3>2 DEF Manned, PhaseOf
    <3> QED BY <3>1, <3>2
  <2> QED BY <2>2, <2>4, <2>7, <2>8 DEF Ease, s, t
<1> QED BY <1>2, <1>3, <1>4, <1>5 DEF Eases, Launched, x

-----------------------------------------------------------------------------
(* The stages of the tail.                                                 *)

LEMMA SameHires ==
  ASSUME NEW m, Typed(m), NEW x, x.slot = m.slot, x.body = m.body, Launched(m) => Launched(x)
  PROVE  Hires(m, x)
BY HiresRefl DEF Hires

LEMMA EnqueueHires ==
  ASSUME NEW m, Typed(m)
  PROVE  Hires(m, Enqueue(m))
<1> DEFINE lost   == {n \in In(m, {"Waiting"}) : ~ NeedsReady(m, n)}
           joined == {n \in In(m, {"Pending"}) : NeedsReady(m, n)}
           next(n) == IF n \in lost THEN "Pending"
                      ELSE IF n \in joined THEN "Waiting" ELSE m.slot[n].st
           moved(n) == [m.slot[n] EXCEPT !.st = next(n)]
           q == Enqueue(m)
<1>1. \A n \in Node : next(n) = m.slot[n].st
                      \/ (m.slot[n].st \in Unstarted /\ next(n) \in Unstarted)
  BY DEF In, Unstarted
<1>2. q.body = m.body /\ q.scope.st = "Admitting" /\ \A n \in Node : q.slot[n] = moved(n)
  <2> HIDE DEF next
  <2>1. \A n \in Node : [m.slot[n] EXCEPT !.st = IF n \in lost THEN "Pending"
                                    ELSE IF n \in joined THEN "Waiting" ELSE @] = moved(n)
    BY DEF next
  <2> HIDE DEF moved
  <2> QED BY <2>1 DEF Enqueue, Typed, State, Scope
<1> HIDE DEF q, next
<1>3. ASSUME NEW n \in Node PROVE Hire(n, m.slot[n], m.body[n], q.slot[n], q.body[n])
  <2> DEFINE s == m.slot[n]
             t == moved(n)
  <2>1. s \in Slot /\ s.attempt \in Nat
    BY SlotTyped, Counters
  <2>2. /\ t.st = next(n) /\ t.attempt = s.attempt /\ t.restarts = s.restarts
        /\ t.held = s.held /\ t.initialized = s.initialized
        /\ (t.st = s.st => t = s)
    BY <2>1 DEF Slot
  <2>3. q.slot[n] = t /\ q.body[n] = m.body[n]
    BY <1>2
  <2>4. t.st = s.st \/ (s.st \in Unstarted /\ t.st \in Unstarted)
    BY <1>1, <2>2
  <2> HIDE DEF s, t
  <2>5. Spares(n, s, t)
    BY <2>1, <2>2, <2>4 DEF Spares, Valued, Unstarted, Waits
  <2>6. t.st = s.st => t = s
    BY <2>2
  <2> QED BY <2>2, <2>3, <2>4, <2>5 DEF Hire, Manned, PhaseOf, Owing, Unstarted, Waits, s
<1> QED BY <1>2, <1>3 DEF Hires, Launched, q

LEMMA SpawnIs ==
  ASSUME NEW m, Typed(m), NEW S, NEW phase
  PROVE  LET x == Spawn(m, S, phase) IN
         /\ x.slot = m.slot /\ x.scope = m.scope
         /\ \A n \in Node : x.body[n] = IF n \in S THEN [phase |-> phase, aborted |-> FALSE]
                                        ELSE m.body[n]
BY DEF Typed, State, Spawn

LEMMA StartHires ==
  ASSUME NEW m, Typed(m), NEW G \in SUBSET In(m, {"Waiting"})
  PROVE  Hires(m, Start(m, G))
<1> DEFINE recovered == {n \in G : IsService(n) /\ m.slot[n].initialized}
           spawned   == {n \in G \ recovered : Decl(n).kind # "Join"}
           slots == [n \in Node |-> IF n \in G THEN StartedSlot(m, n) ELSE m.slot[n]]
           aheads == [n \in Node |-> IF n \in G THEN {} ELSE m.ahead[n] \ G]
           started == [m EXCEPT !.slot = slots, !.ahead = aheads]
           a == Absorb(started, recovered)
           v == Spawn(a, recovered, "serve")
           x == Spawn(v, spawned, "run")
<1>1. G \in SUBSET Node /\ recovered \in SUBSET Node /\ spawned \in SUBSET Node
      /\ \A n \in G : m.slot[n].st = "Waiting"
  BY DEF In
<1>2. Start(m, G) = x
  BY DEF Start
<1>3. \A n \in recovered : IsService(n)
  OBVIOUS
<1>4. /\ Typed(started) /\ started.body = m.body /\ started.scope = m.scope
      /\ \A n \in Node : started.slot[n] = slots[n]
  <2>1. slots \in [Node -> Slot] /\ \A n \in Node : slots[n].st \in StatesOf(n)
    BY StartedSlotTyped, SlotTyped
  <2>2. aheads \in [Node -> SUBSET Node]
    BY DEF Typed, State
  <2> HIDE DEF slots, aheads
  <2> QED BY <2>1, <2>2 DEF Typed, State
<1>5. \A n \in Node : slots[n] = IF n \in G THEN StartedSlot(m, n) ELSE m.slot[n]
  OBVIOUS
<1>6. \A n \in Node : /\ n \in recovered <=> n \in G /\ IsService(n) /\ m.slot[n].initialized
                      /\ n \in spawned <=> n \in G /\ n \notin recovered /\ Decl(n).kind # "Join"
  OBVIOUS
<1> HIDE DEF started, slots, recovered, spawned
<1>7. /\ Typed(a) /\ a.body = m.body /\ a.scope = m.scope
      /\ \A d \in Node : Level(slots[d], a.slot[d])
      /\ \A d \in Node \ recovered : a.slot[d] = slots[d]
  BY <1>1, <1>4, AbsorbTyped, AbsorbLevel
<1> HIDE DEF a
<1>8. /\ Typed(v) /\ v.slot = a.slot /\ v.scope = a.scope
      /\ \A n \in Node : v.body[n] = IF n \in recovered THEN [phase |-> "serve", aborted |-> FALSE]
                                     ELSE a.body[n]
  BY <1>1, <1>3, <1>7, SpawnTyped, SpawnIs
<1> HIDE DEF v
<1>9. /\ x.slot = a.slot /\ x.scope = m.scope
      /\ \A n \in Node : x.body[n] = IF n \in spawned THEN [phase |-> "run", aborted |-> FALSE]
                                     ELSE v.body[n]
  BY <1>1, <1>7, <1>8, SpawnIs
<1> HIDE DEF x
<1>10. ASSUME NEW n \in Node PROVE Hire(n, m.slot[n], m.body[n], x.slot[n], x.body[n])
  <2> DEFINE s == m.slot[n]
             t == x.slot[n]
             r == StartedSlot(m, n)
  <2>1. s \in Slot /\ s.attempt \in Nat
    BY SlotTyped, Counters
  <2>2. CASE n \notin G
    <3>1. t = s /\ x.body[n] = m.body[n]
      BY <1>5, <1>6, <1>7, <1>8, <1>9, <2>2
    <3> QED BY <2>1, <3>1 DEF Hire, Spares
  <2>3. CASE n \in G
    <3>1. s.st = "Waiting"
      BY <1>1, <2>3
    <3>2. /\ ~ r.held /\ r.restarts = s.restarts /\ ~ r.cancelling /\ r.initialized = s.initialized
          /\ \/ IsService(n) /\ s.initialized /\ r.st = "Ready" /\ r.attempt = s.attempt
             \/ Decl(n).kind = "Join" /\ r.st = "Publishing" /\ r.attempt = s.attempt + 1
             \/ /\ ~ (IsService(n) /\ s.initialized) /\ Decl(n).kind # "Join"
                /\ r.st = "Running" /\ r.attempt = s.attempt + 1
      BY StartedSlotIs
    <3>3. slots[n] = r /\ Level(r, t) /\ (n \notin recovered => t = r)
      BY <1>5, <1>7, <1>9, <2>3
    <3>4. n \in recovered <=> IsService(n) /\ s.initialized
      BY <1>6, <2>3
    <3>5. n \in spawned <=> n \notin recovered /\ Decl(n).kind # "Join"
      BY <1>6, <2>3
    <3>6. x.body[n] = IF n \in spawned THEN [phase |-> "run", aborted |-> FALSE]
                      ELSE IF n \in recovered THEN [phase |-> "serve", aborted |-> FALSE]
                      ELSE m.body[n]
      BY <1>7, <1>8, <1>9
    <3> HIDE DEF s, t, r
    <3>7. Spares(n, s, t)
      BY <2>1, <3>2, <3>3 DEF Spares, Valued, Level, Unstarted, Waits, IsService
    <3>8. ~ Owing(n, t)
      BY <3>2, <3>3 DEF Owing, Level, CanOwe, CanHold, IsService
    <3>9. SUFFICES ASSUME Manned(n, s, m.body[n])
                   PROVE  /\ Manned(n, t, x.body[n])
                          /\ m.body[n].phase = "none" /\ ~ x.body[n].aborted
                          /\ x.body[n].phase = "run" =>
                               t.st = "Running" /\ t.attempt # s.attempt /\ ~ t.held
                               /\ ~ t.cancelling
                          /\ x.body[n].phase # "cleanup"
      BY <3>1, <3>7, <3>8 DEF Hire, Unstarted, Waits, s, t
    <3>10. m.body[n].phase = "none" /\ ~ m.body[n].aborted
      BY <3>1, <3>9 DEF Manned, PhaseOf
    <3>11. CASE n \in recovered
      BY <2>1, <3>2, <3>3, <3>4, <3>5, <3>6, <3>10, <3>11 DEF Level, Manned, PhaseOf, IsService
    <3>12. CASE n \in spawned
      BY <2>1, <3>2, <3>3, <3>4, <3>5, <3>6, <3>10, <3>12 DEF Level, Manned, PhaseOf, IsService
    <3>13. CASE n \notin recovered /\ n \notin spawned
      BY <2>1, <3>2, <3>3, <3>4, <3>5, <3>6, <3>10, <3>13 DEF Level, Manned, PhaseOf, IsService
    <3> QED BY <3>11, <3>12, <3>13
  <2> QED BY <2>2, <2>3
<1> QED BY <1>2, <1>9, <1>10 DEF Hires, Launched

(* A steady scope has nobody to interrupt.                                 *)
LEMMA SteadySettleHires ==
  ASSUME NEW m, Typed(m), Admits(m), \A n \in Node : ~ Unsettled(m, n)
  PROVE  Hires(m, Settle(m, "Finite"))
<1> DEFINE f == FlushFaults(m, CutShort(m))
           a == Abort(f, Dropped(m))
           x == Settle(m, "Finite")
<1>1. /\ x.scope.st = "Settling" /\ Typed(f) /\ Typed(x)
      /\ \A n \in Node : /\ Level(m.slot[n], f.slot[n])
                         /\ x.slot[n] = SettledSlot(f, n) \/ x.slot[n] = SettledSlot(a, n)
                         /\ x.body[n].phase = m.body[n].phase
                         /\ x.body[n].aborted = (m.body[n].aborted \/ n \in Dropped(m))
  BY SettleIs, SettleTyped
<1> HIDE DEF x, f
<1>2. Typed(a) /\ a.slot = f.slot
  <2>1. Dropped(m) \in SUBSET Node
    BY DEF Dropped, In
  <2> QED BY <1>1, <2>1, AbortTyped, AbortIs
<1> HIDE DEF a
<1>3. ASSUME NEW n \in Node PROVE Hire(n, m.slot[n], m.body[n], x.slot[n], x.body[n])
  <2> DEFINE s == m.slot[n]
             t == x.slot[n]
  <2>1. /\ \/ s.st \in Unstarted \cup {"Publishing"} /\ t.st = "Skipped"
           \/ s.st = "Backoff" /\ t.st = "Interrupted"
           \/ t.st = s.st /\ t.attempt = s.attempt
        /\ t.attempt >= s.attempt /\ t.restarts = s.restarts /\ t.held = s.held
        /\ t.initialized = s.initialized
    <3>1. x.slot[n] = SettledSlot(f, n) \/ x.slot[n] = SettledSlot(a, n)
      BY <1>1
    <3> QED BY <1>1, <1>2, <3>1, SettledSlotIs DEF Level
  <2>2. /\ s.st \in Unstarted \cup {"Backoff"} => IsService(n)
        /\ s.st \notin {"Running", "Publishing", "RetryRelease"}
    BY DEF Unsettled
  <2>3. x.body[n] = m.body[n]
    <3>1. n \notin Dropped(m)
      BY <2>2 DEF Dropped, In
    <3>2. x.body[n].phase = m.body[n].phase /\ x.body[n].aborted = m.body[n].aborted
      <4>1. m.body[n] \in Body
        BY DEF Typed, State
      <4> QED BY <1>1, <3>1, <4>1 DEF Body
    <3>3. x.body[n] \in Body /\ m.body[n] \in Body
      BY <1>1 DEF Typed, State
    <3> QED BY <3>2, <3>3 DEF Body
  <2> HIDE DEF s, t
  <2>4. Spares(n, s, t)
    BY <2>1 DEF Spares, Valued, Unstarted, Waits
  <2>5. IsService(n) => ~ Owing(n, t)
    BY DEF Owing, CanOwe, CanHold, IsService, RecoversAmbiguity
  <2>6. Owing(n, t) => Owing(n, s)
    BY <2>1, <2>2, <2>5 DEF Owing, Unstarted
  <2>7. ASSUME Manned(n, s, m.body[n])
        PROVE  Manned(n, t, m.body[n]) /\ (m.body[n].phase # "none" => t.attempt = s.attempt)
    BY <2>1, <2>2, <2>7 DEF Manned, PhaseOf, Unstarted
  <2> QED BY <2>2, <2>3, <2>4, <2>6, <2>7 DEF Hire, s, t
<1> QED BY <1>1, <1>3 DEF Hires, Launched, x

LEMMA CheckSteadyHires ==
  ASSUME NEW m, Typed(m)
  PROVE  Hires(m, CheckSteady(m))
<1> DEFINE x == [m EXCEPT !.scope.st = "Steady"]
<1>1. Typed(x) /\ x.slot = m.slot /\ x.body = m.body /\ x.scope.st = "Steady"
  BY DEF Typed, State, Scope
<1>2. \/ CheckSteady(m) = m
      \/ CheckSteady(m) = x
      \/ CheckSteady(m) = Settle(x, "Finite") /\ \A n \in Node : ~ Unsettled(m, n)
  BY DEF CheckSteady
<1> HIDE DEF x
<1>3. Hires(m, m) /\ Hires(m, x)
  BY <1>1, HiresRefl, SameHires DEF Launched
<1>4. ASSUME \A n \in Node : ~ Unsettled(m, n) PROVE Hires(m, Settle(x, "Finite"))
  <2>1. \A n \in Node : ~ Unsettled(x, n)
    BY <1>1, <1>4 DEF Unsettled
  <2>2. Hires(x, Settle(x, "Finite")) /\ Typed(Settle(x, "Finite"))
    BY <1>1, <2>1, SteadySettleHires, SettleTyped DEF Admits
  <2> QED BY <1>1, <1>3, <2>2, HiresTrans
<1> QED BY <1>2, <1>3, <1>4

LEMMA StartObligationsHires ==
  ASSUME NEW m, Typed(m), NEW S \in SUBSET Node, \A n \in S : Owes(m, n)
  PROVE  Hires(m, StartObligations(m, S)) /\ StartObligations(m, S).scope = m.scope
<1> DEFINE slots == [n \in Node |-> IF n \in S THEN ObligationSlot(m, n) ELSE m.slot[n]]
           begun == [m EXCEPT !.slot = slots]
           bodies == {n \in S : ~ IsService(n)}
           x == Spawn(begun, bodies, "cleanup")
<1>1. StartObligations(m, S) = x
  BY DEF StartObligations
<1>2. \A n \in Node : slots[n] = IF n \in S THEN ObligationSlot(m, n) ELSE m.slot[n]
  OBVIOUS
<1>3. /\ Typed(begun) /\ begun.body = m.body /\ begun.scope = m.scope /\ begun.slot = slots
  <2>1. slots \in [Node -> Slot] /\ \A n \in Node : slots[n].st \in StatesOf(n)
    BY ObligationSlotTyped, SlotTyped
  <2> HIDE DEF slots
  <2> QED BY <2>1 DEF Typed, State
<1>4. \A n \in Node : n \in bodies <=> n \in S /\ ~ IsService(n)
  OBVIOUS
<1> HIDE DEF slots, begun, bodies
<1>5. /\ x.slot = slots /\ x.scope = m.scope
      /\ \A n \in Node : x.body[n] = IF n \in bodies THEN [phase |-> "cleanup", aborted |-> FALSE]
                                     ELSE m.body[n]
  BY <1>3, SpawnIs
<1> HIDE DEF x
<1>6. ASSUME NEW n \in Node PROVE Hire(n, m.slot[n], m.body[n], x.slot[n], x.body[n])
  <2> DEFINE s == m.slot[n]
             t == x.slot[n]
  <2>1. s \in Slot /\ s.attempt \in Nat
    BY SlotTyped, Counters
  <2>2. CASE n \notin S
    <3>1. t = s /\ x.body[n] = m.body[n]
      BY <1>2, <1>4, <1>5, <2>2
    <3> QED BY <2>1, <3>1 DEF Hire, Spares
  <2>3. CASE n \in S
    <3>1. /\ t.held = s.held /\ t.attempt = s.attempt /\ t.restarts = s.restarts
          /\ t.initialized = s.initialized
          /\ \/ IsService(n) /\ s.st = "Ready" /\ t.st = "Stopping"
             \/ /\ Decl(n).kind = "Resource" /\ s.st \in {"Ready", "Failed", "Interrupted"}
                /\ t.st = "Releasing" /\ CanOwe(n) /\ s.held
             \/ /\ Decl(n).kind = "Effect" /\ s.st \in {"Ready", "Failed", "Interrupted"}
                /\ t.st = "Compensating" /\ CanOwe(n) /\ s.held
             \/ /\ Decl(n).kind = "Effect" /\ s.st = "Ambiguous" /\ t.st = "Compensating"
                /\ RecoversAmbiguity(n)
      BY <1>2, <1>5, <2>3, ObligationSlotIs
    <3>2. x.body[n] = IF IsService(n) THEN m.body[n] ELSE [phase |-> "cleanup", aborted |-> FALSE]
      BY <1>4, <1>5, <2>3
    <3> HIDE DEF s, t
    <3>3. Spares(n, s, t)
      BY <2>1, <3>1 DEF Spares, Valued, Unstarted, Waits
    <3>4. ~ Owing(n, t) /\ s.st # "Running"
      BY <3>1 DEF Owing
    <3>5. SUFFICES ASSUME Manned(n, s, m.body[n])
                   PROVE  /\ Manned(n, t, x.body[n])
                          /\ m.body[n].phase # "none" => x.body[n] = m.body[n]
                          /\ m.body[n].phase = "none" /\ x.body[n].phase # "none" =>
                               /\ ~ x.body[n].aborted /\ x.body[n].phase = "cleanup"
                               /\ Owing(n, s)
      BY <3>1, <3>3, <3>4 DEF Hire, s, t
    <3>6. CASE IsService(n)
      BY <3>1, <3>2, <3>5, <3>6 DEF Manned, PhaseOf, IsService
    <3>7. CASE ~ IsService(n)
      BY <3>1, <3>2, <3>5, <3>7 DEF Manned, PhaseOf, Owing
    <3> QED BY <3>6, <3>7
  <2> QED BY <2>2, <2>3
<1> QED BY <1>1, <1>5, <1>6 DEF Hires, Launched

LEMMA TryCleanupHires ==
  ASSUME NEW m, Typed(m)
  PROVE  Hires(m, TryCleanup(m))
<1> DEFINE open == m.scope.st = "Settling" /\ \A n \in Node : ~ InFlight(m, n)
           e == [m EXCEPT !.scope.st = "Cleanup"]
           c == IF open THEN e ELSE m
           S == {n \in Node : Owes(c, n) /\ GateOpen(c, n)}
           b == StartObligations(c, S)
           z == [b EXCEPT !.scope.zero = TRUE]
           a == IF c.scope.st = "Cleanup" THEN AdvanceCleanup(c) ELSE c
<1>1. Typed(e) /\ e.slot = m.slot /\ e.body = m.body /\ e.scope.st = "Cleanup"
  BY DEF Typed, State, Scope
<1>2. c = e \/ c = m
  OBVIOUS
<1>3. TryCleanup(m) = a \/ TryCleanup(m) = End(a)
  <2>1. TryCleanup(m) = IF a.scope.st = "Cleanup" /\ \A n \in Node : ~ BlocksRelease(a, n)
                        THEN End(a) ELSE a
    BY DEF TryCleanup
  <2> HIDE DEF a
  <2> QED BY <2>1
<1> HIDE DEF e, c
<1>4. Typed(c) /\ Hires(m, c)
  BY <1>1, <1>2, HiresRefl, SameHires DEF Launched
<1>5. S \in SUBSET Node /\ \A n \in S : Owes(c, n)
  OBVIOUS
<1>6. a = c \/ a = b \/ a = z
  BY DEF AdvanceCleanup
<1> HIDE DEF S, a
<1>7. Typed(b) /\ Hires(c, b)
  BY <1>4, <1>5, StartObligationsTyped, StartObligationsHires
<1> HIDE DEF b
<1>8. Typed(z) /\ Hires(b, z)
  <2>1. Typed(z) /\ z.slot = b.slot /\ z.body = b.body /\ z.scope.st = b.scope.st
    BY <1>7 DEF Typed, State, Scope
  <2> HIDE DEF z
  <2> QED BY <1>7, <2>1, SameHires DEF Launched
<1> HIDE DEF z
<1>9. Typed(a) /\ Hires(m, a)
  <2>1. Hires(m, b)
    BY <1>4, <1>7, HiresTrans
  <2>2. Hires(m, z)
    BY <1>4, <1>7, <1>8, <2>1, HiresTrans
  <2> QED BY <1>4, <1>6, <1>7, <1>8, <2>1, <2>2
<1>10. Hires(a, End(a)) /\ Typed(End(a))
  <2>1. End(a).slot = a.slot /\ End(a).body = a.body /\ End(a).scope.st = "Ended"
    BY <1>9 DEF Typed, State, Scope, End
  <2> QED BY <1>9, <2>1, EndTyped, SameHires DEF Launched
<1>11. Hires(m, End(a))
  BY <1>9, <1>10, HiresTrans
<1> QED BY <1>3, <1>9, <1>11

(* The tails, whatever they start, end in a typed state.                   *)
LEMMA TailHires ==
  ASSUME NEW m, Typed(m), AfterSettle(m) \/ Become(TryCleanup(m)) \/ Become(m)
  PROVE  \E x : Typed(x) /\ Hires(m, x) /\ Become(x)
<1>1. Typed(TryCleanup(m)) /\ Hires(m, TryCleanup(m)) /\ Hires(m, m)
  BY TryCleanupTyped, TryCleanupHires, HiresRefl
<1>2. ASSUME AfterSettle(m), Admits(m)
      PROVE  \E x : Typed(x) /\ Hires(m, x) /\ Become(x)
  <2> DEFINE q == Enqueue(m)
  <2>1. PICK G \in SUBSET In(q, {"Waiting"}) : Become(TryCleanup(CheckSteady(Start(q, G))))
    BY <1>2 DEF AfterSettle
  <2>2. Typed(q) /\ Hires(m, q)
    BY EnqueueTyped, EnqueueHires
  <2> HIDE DEF q
  <2> DEFINE s == Start(q, G)
  <2>3. G \in SUBSET Node
    BY DEF In
  <2>4. Typed(s) /\ Hires(q, s)
    BY <2>2, <2>3, StartTyped, StartHires
  <2>5. Become(TryCleanup(CheckSteady(s)))
    BY <2>1
  <2> HIDE DEF s
  <2> DEFINE c == CheckSteady(s)
  <2>6. Typed(c) /\ Hires(s, c)
    BY <2>4, CheckSteadyTyped, CheckSteadyHires
  <2>7. Become(TryCleanup(c))
    BY <2>5
  <2> HIDE DEF c
  <2>8. Typed(TryCleanup(c)) /\ Hires(c, TryCleanup(c))
    BY <2>6, TryCleanupTyped, TryCleanupHires
  <2>9. Hires(m, s)
    BY <2>2, <2>4, HiresTrans
  <2>10. Hires(m, c)
    BY <2>4, <2>6, <2>9, HiresTrans
  <2>11. Hires(m, TryCleanup(c))
    BY <2>6, <2>8, <2>10, HiresTrans
  <2> QED BY <2>7, <2>8, <2>11
<1>3. ASSUME AfterSettle(m), ~ Admits(m) PROVE Become(TryCleanup(m))
  BY <1>3 DEF AfterSettle
<1> QED BY <1>1, <1>2, <1>3

-----------------------------------------------------------------------------
(* What an event comes to.                                                 *)

(* The node d is not the one whose task the event reports: it keeps its    *)
(* task, or gets one where it had none.                                    *)
Moves(d) ==
  LET s == slot[d]
      t == slot'[d]
      b == body[d]
      c == body'[d]
  IN /\ b.phase # "none" =>
          c.phase = b.phase /\ (b.aborted => c.aborted) /\ t.attempt = s.attempt
     /\ b.phase = "none" /\ c.phase # "none" =>
          /\ ~ c.aborted
          /\ c.phase = "run" => t.st = "Running" /\ ~ t.held /\ ~ t.cancelling
     /\ t.restarts = s.restarts
     /\ t.held => s.held
     /\ Valued(d, t) => Valued(d, s)

(* The event reports that the task of n has ended: whatever task n has     *)
(* then is another one.  It may report an acquisition, or a value.         *)
Retires(n, h, v) ==
  LET s == slot[n]
      t == slot'[n]
      b == body[n]
      c == body'[n]
  IN /\ ~ c.aborted
     /\ c.phase # "none" => \/ c.phase # b.phase
                            \/ c.phase = "run" /\ t.attempt # s.attempt
                            \/ c.phase = "serve" /\ t.restarts # s.restarts
     /\ c.phase = "run" => t.st = "Running" /\ ~ t.held /\ ~ t.cancelling
     /\ t.held => s.held \/ h
     /\ Valued(n, t) => Valued(n, s) \/ v

AllMoved == \A d \in Node : Moves(d)

Retired(n, h, v) == Retires(n, h, v) /\ \A d \in Node \ {n} : Moves(d)

(* What is left of n when its task has ended and its state is set: no      *)
(* task, or the one that follows an attempt.                               *)
Gone(n, t, c, h, v) ==
  /\ Manned(n, t, c) /\ ~ c.aborted
  /\ t.attempt >= slot[n].attempt
  /\ c.phase = "none" \/ (c.phase \in {"serve", "cleanup"} /\ body[n].phase = "run")
  /\ c.phase = "none" /\ body[n].phase = "cleanup" => ~ Owing(n, t)
  /\ c.phase = "none" /\ body[n].phase = "serve" /\ t.st \in Waits =>
       t.restarts # slot[n].restarts
  /\ t.held => slot[n].held \/ h
  /\ Valued(n, t) => Valued(n, slot[n]) \/ v

Ahead(m) == Typed(m) /\ Eases(Here, m)

Parted(m, n, h, v) ==
  /\ Typed(m) /\ (Launched(Here) => Launched(m))
  /\ \A d \in Node \ {n} : Ease(d, slot[d], body[d], m.slot[d], m.body[d])
  /\ Gone(n, m.slot[n], m.body[n], h, v)

LEMMA EaseMoves ==
  ASSUME NEW d \in Node, NEW s \in Slot, NEW b, NEW t \in Slot, NEW c,
         Manned(d, slot[d], body[d]), Ease(d, slot[d], body[d], s, b), Hire(d, s, b, t, c),
         slot'[d] = t, body'[d] = c, slot[d] \in Slot
  PROVE  Moves(d) /\ Manned(d, t, c)
<1>1. /\ Manned(d, s, b) /\ b.phase = body[d].phase /\ (body[d].aborted => b.aborted)
      /\ b.phase # "none" => s.attempt = slot[d].attempt
      /\ Spares(d, slot[d], s)
  BY DEF Ease
<1>2. /\ Manned(d, t, c) /\ (b.phase # "none" => c = b /\ t.attempt = s.attempt)
      /\ b.phase = "none" /\ c.phase # "none" =>
           ~ c.aborted /\ (c.phase = "run" => t.st = "Running" /\ ~ t.held /\ ~ t.cancelling)
      /\ Spares(d, s, t)
  BY <1>1 DEF Hire
<1> QED BY <1>1, <1>2 DEF Moves, Spares

LEMMA GoneRetires ==
  ASSUME NEW n \in Node, NEW s \in Slot, NEW b, NEW t \in Slot, NEW c, NEW h, NEW v,
         Gone(n, s, b, h, v), Hire(n, s, b, t, c), slot'[n] = t, body'[n] = c,
         slot[n] \in Slot, c \in Body
  PROVE  Retires(n, h, v) /\ Manned(n, t, c)
<1>1. /\ Manned(n, t, c) /\ (b.phase # "none" => c = b)
      /\ b.phase = "none" /\ c.phase # "none" =>
           /\ ~ c.aborted
           /\ c.phase = "run" => t.st = "Running" /\ t.attempt # s.attempt /\ ~ t.held
                                 /\ ~ t.cancelling
           /\ c.phase = "serve" => s.st \in Waits
           /\ c.phase = "cleanup" => Owing(n, s)
      /\ Spares(n, s, t)
  BY DEF Gone, Hire
<1>2. s.attempt \in Nat /\ t.attempt \in Nat /\ slot[n].attempt \in Nat
  BY Counters
<1>3. /\ t.held => slot[n].held \/ h
      /\ Valued(n, t) => Valued(n, slot[n]) \/ v
      /\ t.attempt >= s.attempt /\ s.attempt >= slot[n].attempt /\ t.restarts = s.restarts
  BY <1>1 DEF Gone, Spares
<1>4. ~ c.aborted
  <2>1. c.aborted => c.phase # "none"
    BY <1>1 DEF Manned
  <2> QED BY <1>1, <2>1 DEF Gone
<1>5. CASE b.phase # "none"
  BY <1>1, <1>3, <1>4, <1>5 DEF Gone, Retires
<1>6. CASE b.phase = "none"
  <2>1. c.phase = "run" => t.attempt # slot[n].attempt
    BY <1>1, <1>2, <1>3, <1>6
  <2>2. c.phase = "serve" /\ body[n].phase = "serve" => t.restarts # slot[n].restarts
    BY <1>1, <1>3, <1>6 DEF Gone
  <2>3. c.phase = "cleanup" => body[n].phase # "cleanup"
    BY <1>1, <1>6 DEF Gone
  <2>4. c.phase \in {"none", "run", "serve", "cleanup"}
    BY DEF Body
  <2> QED BY <1>1, <1>3, <1>4, <1>6, <2>1, <2>2, <2>3, <2>4 DEF Retires
<1> QED BY <1>5, <1>6

(* The tasks fit the states in the next state too, and the run has begun   *)
(* if it had.                                                              *)
Fitting == AllManned(Here)' /\ (Launched(Here) => Launched(Here)')

LEMMA BecomeFits ==
  ASSUME NEW x, Become(x), \A n \in Node : Manned(n, x.slot[n], x.body[n]),
         Launched(Here) => Launched(x)
  PROVE  Fitting
<1>1. \A n : Decl(n)' = Decl(n)
  BY DEF Become, Decl
<1>2. ASSUME NEW n \in Node PROVE Manned(n, slot[n], body[n])'
  <2>1. slot'[n] = x.slot[n] /\ body'[n] = x.body[n]
    BY DEF Become
  <2> QED BY <1>1, <2>1 DEF Manned, PhaseOf, IsService
<1>3. Launched(x) => Launched(Here)'
  BY DEF Become, Launched, Here
<1> QED BY <1>2, <1>3 DEF Fitting, AllManned, Here

LEMMA AheadMoves ==
  ASSUME TypeOK, AllManned(Here), NEW m, Ahead(m),
         AfterSettle(m) \/ Become(TryCleanup(m)) \/ Become(m)
  PROVE  AllMoved /\ Fitting /\ (Launched(m) => Launched(Here)')
<1>1. PICK x : Typed(x) /\ Hires(m, x) /\ Become(x)
  BY TailHires DEF Ahead
<1>2. ASSUME NEW d \in Node PROVE Moves(d) /\ Manned(d, x.slot[d], x.body[d])
  <2>1. m.slot[d] \in Slot /\ x.slot[d] \in Slot /\ slot[d] \in Slot
    BY <1>1, SlotTyped, HereNear DEF Ahead
  <2>2. /\ Manned(d, slot[d], body[d])
        /\ Ease(d, slot[d], body[d], m.slot[d], m.body[d])
        /\ Hire(d, m.slot[d], m.body[d], x.slot[d], x.body[d])
        /\ slot'[d] = x.slot[d] /\ body'[d] = x.body[d]
    BY <1>1, HereNear DEF AllManned, Ahead, Eases, Hires, Become
  <2> QED BY <2>1, <2>2, EaseMoves
<1>3. Fitting
  BY <1>1, <1>2, BecomeFits DEF Hires, Ahead, Eases
<1>4. Launched(x) => Launched(Here)'
  BY <1>1 DEF Become, Launched, Here
<1> QED BY <1>1, <1>2, <1>3, <1>4 DEF AllMoved, Hires

LEMMA PartedRetires ==
  ASSUME TypeOK, AllManned(Here), NEW n \in Node, NEW h, NEW v, NEW m, Parted(m, n, h, v),
         AfterSettle(m) \/ Become(TryCleanup(m)) \/ Become(m)
  PROVE  Retired(n, h, v) /\ Fitting
<1>1. PICK x : Typed(x) /\ Hires(m, x) /\ Become(x)
  BY TailHires DEF Parted
<1>2. ASSUME NEW d \in Node
      PROVE  /\ m.slot[d] \in Slot /\ x.slot[d] \in Slot /\ slot[d] \in Slot
             /\ Manned(d, slot[d], body[d])
             /\ Hire(d, m.slot[d], m.body[d], x.slot[d], x.body[d])
             /\ slot'[d] = x.slot[d] /\ body'[d] = x.body[d] /\ x.body[d] \in Body
  <2>1. m.slot[d] \in Slot /\ x.slot[d] \in Slot /\ slot[d] \in Slot
    BY <1>1, SlotTyped, HereNear DEF Parted
  <2>2. x.body[d] \in Body
    BY <1>1 DEF Typed, State
  <2> QED BY <1>1, <2>1, <2>2, HereNear DEF AllManned, Hires, Become
<1>3. ASSUME NEW d \in Node \ {n} PROVE Moves(d) /\ Manned(d, x.slot[d], x.body[d])
  <2>1. Ease(d, slot[d], body[d], m.slot[d], m.body[d])
    BY DEF Parted
  <2> QED BY <1>2, <2>1, EaseMoves
<1>4. Retires(n, h, v) /\ Manned(n, x.slot[n], x.body[n])
  <2>1. Gone(n, m.slot[n], m.body[n], h, v)
    BY DEF Parted
  <2> QED BY <1>2, <2>1, GoneRetires
<1>5. \A d \in Node : Manned(d, x.slot[d], x.body[d])
  BY <1>3, <1>4
<1>6. Fitting
  BY <1>1, <1>5, BecomeFits DEF Hires, Parted
<1> QED BY <1>3, <1>4, <1>6 DEF Retired

-----------------------------------------------------------------------------
(* What the ends of tasks lead to.                                         *)

(* Only n has changed so far, and its task is gone.                        *)
Off(m, n, h) ==
  /\ Typed(m) /\ m.scope = scope
  /\ \A d \in Node \ {n} : m.slot[d] = slot[d] /\ m.body[d] = body[d]
  /\ m.body[n].phase = "none" /\ ~ m.body[n].aborted
  /\ m.slot[n].attempt >= slot[n].attempt /\ m.slot[n].initialized = slot[n].initialized
  /\ m.slot[n].held => slot[n].held \/ h

(* The next attempt of a service is another episode.                       *)
Renewed(n, t) == body[n].phase = "serve" => t.restarts # slot[n].restarts

LEMMA TaskEndsOff ==
  ASSUME TypeOK, NEW n \in Node, NEW h
  PROVE  LET m == TaskEnds(Here, n) IN Off(m, n, h) /\ m.slot = slot
<1> DEFINE m == TaskEnds(Here, n)
<1>1. /\ m.slot = slot /\ m.scope = scope
      /\ \A d \in Node : m.body[d] = IF d = n THEN [phase |-> "none", aborted |-> FALSE]
                                     ELSE body[d]
  BY HereNear DEF TaskEnds, Typed, State
<1>2. Typed(m) /\ slot[n].attempt \in Nat
  BY HereNear, TaskEndsTyped, Counters
<1> HIDE DEF m
<1> QED BY <1>1, <1>2 DEF Off, m

LEMMA OffSlot ==
  ASSUME NEW n \in Node, NEW h, NEW m, Off(m, n, h),
         NEW t \in Slot, t.st \in StatesOf(n), t.attempt >= slot[n].attempt,
         t.initialized = slot[n].initialized, t.held => slot[n].held \/ h
  PROVE  Off([m EXCEPT !.slot[n] = t], n, h) /\ [m EXCEPT !.slot[n] = t].slot[n] = t
<1> DEFINE x == [m EXCEPT !.slot[n] = t]
<1>1. Typed(m) /\ Typed(x)
  BY OneSlot DEF Off
<1>2. /\ x.body = m.body /\ x.scope = m.scope /\ x.slot[n] = t
      /\ \A d \in Node \ {n} : x.slot[d] = m.slot[d]
  BY <1>1 DEF Typed, State
<1> HIDE DEF x
<1> QED BY <1>1, <1>2 DEF Off, x

LEMMA OffKept ==
  ASSUME NEW n \in Node, NEW h, NEW m, Off(m, n, h),
         NEW t \in Slot, t.st \in StatesOf(n), t.attempt = m.slot[n].attempt,
         t.initialized = m.slot[n].initialized, t.held = m.slot[n].held
  PROVE  Off([m EXCEPT !.slot[n] = t], n, h) /\ [m EXCEPT !.slot[n] = t].slot[n] = t
<1>1. /\ t.attempt >= slot[n].attempt /\ t.initialized = slot[n].initialized
      /\ t.held => slot[n].held \/ h
  BY DEF Off
<1> QED BY <1>1, OffSlot

LEMMA OffPark ==
  ASSUME NEW n \in Node, NEW h, NEW m, Off(m, n, h), NEW k \in Nat
  PROVE  LET x == ParkFault(m, n, k) IN
         /\ Off(x, n, h) /\ x.slot[n] \in Slot
         /\ Level(m.slot[n], x.slot[n])
<1> DEFINE x == ParkFault(m, n, k)
<1>1. /\ Typed(x) /\ x.body = m.body /\ x.scope = m.scope
      /\ \A d \in Node : Level(m.slot[d], x.slot[d])
      /\ \A d \in Node \ {n} : x.slot[d] = m.slot[d]
  BY ParkFaultTyped, ParkLevel DEF Off
<1> HIDE DEF x
<1> QED BY <1>1, SlotTyped DEF Off, Level, x

LEMMA OffGone ==
  ASSUME TypeOK, NEW n \in Node, NEW h, NEW v, NEW m, Off(m, n, h),
         m.slot[n].st # "Abandoned", PhaseOf(n, m.slot[n].st) = "none",
         body[n].phase = "cleanup" => ~ Owing(n, m.slot[n]),
         m.slot[n].st \in Waits => Renewed(n, m.slot[n]),
         Valued(n, m.slot[n]) => Valued(n, slot[n]) \/ v
  PROVE  Parted(m, n, h, v)
<1>1. Manned(n, m.slot[n], m.body[n])
  BY DEF Off, Manned
<1>2. Gone(n, m.slot[n], m.body[n], h, v)
  BY <1>1 DEF Off, Gone, Renewed
<1>3. \A d \in Node \ {n} : Ease(d, slot[d], body[d], m.slot[d], m.body[d])
  BY HereNear, EasesRefl DEF Off, Eases
<1>4. Launched(Here) => Launched(m)
  BY HereNear DEF Launched, Off
<1> QED BY <1>2, <1>3, <1>4 DEF Parted, Off

(* What skips and interrupts others does no more to n than to them.        *)
LEMMA PartedEases ==
  ASSUME TypeOK, NEW n \in Node, NEW h, NEW v, NEW m, Parted(m, n, h, v),
         m.body[n].phase = "none", body[n].phase # "cleanup", NEW x, Typed(x), Eases(m, x)
  PROVE  Parted(x, n, h, v)
<1>1. ASSUME NEW d \in Node \ {n}
      PROVE  Ease(d, slot[d], body[d], x.slot[d], x.body[d])
  BY SlotTyped, HereNear, EaseTrans DEF Parted, Eases
<1>2. Gone(n, x.slot[n], x.body[n], h, v)
  <2>1. /\ Ease(n, m.slot[n], m.body[n], x.slot[n], x.body[n])
        /\ Gone(n, m.slot[n], m.body[n], h, v)
    BY DEF Parted, Eases
  <2>2. /\ Manned(n, x.slot[n], x.body[n]) /\ x.body[n].phase = "none"
        /\ Spares(n, m.slot[n], x.slot[n])
    BY <2>1 DEF Gone, Ease
  <2>3. ~ x.body[n].aborted
    BY <2>2 DEF Manned
  <2>4. x.slot[n].attempt \in Nat /\ m.slot[n].attempt \in Nat /\ slot[n].attempt \in Nat
    BY SlotTyped, HereNear, Counters DEF Parted
  <2> QED BY <2>1, <2>2, <2>3, <2>4 DEF Gone, Spares
<1> QED BY <1>1, <1>2 DEF Parted, Eases

LEMMA PartedPolicy ==
  ASSUME TypeOK, NEW n \in Node, NEW h, NEW v, NEW m, Parted(m, n, h, v),
         m.body[n].phase = "none", body[n].phase # "cleanup"
  PROVE  Parted(ApplyPolicy(m, n), n, h, v)
BY ApplyPolicyTyped, PolicyEases, PartedEases DEF Parted

LEMMA OffFlush ==
  ASSUME NEW n \in Node, NEW h, NEW m, Off(m, n, h)
  PROVE  LET x == FlushFaults(m, {n}) IN Off(x, n, h) /\ Level(m.slot[n], x.slot[n])
<1> DEFINE x == FlushFaults(m, {n})
<1>1. Typed(m) /\ Typed(x)
  BY FlushFaultsTyped DEF Off
<1>2. x.body = m.body /\ x.scope = m.scope /\ Level(m.slot[n], x.slot[n])
  BY <1>1, FlushEases
<1>3. \A d \in Node \ {n} : x.slot[d] = m.slot[d]
  BY <1>1 DEF FlushFaults, Typed, State
<1> HIDE DEF x
<1> QED BY <1>1, <1>2, <1>3 DEF Off, Level, x

LEMMA OffFailed ==
  ASSUME TypeOK, NEW n \in Node, NEW h, NEW v, NEW m, Off(m, n, h), body[n].phase # "cleanup"
  PROVE  Parted(NodeFailed(m, n), n, h, v)
<1> DEFINE t == [m.slot[n] EXCEPT !.st = "Failed"]
           c == [m EXCEPT !.slot[n] = t]
<1>1. NodeFailed(m, n) = ApplyPolicy(c, n) /\ m.slot[n] \in Slot
  BY SlotTyped DEF Off, NodeFailed, Typed, State
<1>2. /\ t \in Slot /\ t.st = "Failed" /\ t.attempt = m.slot[n].attempt
      /\ t.held = m.slot[n].held /\ t.initialized = m.slot[n].initialized
  BY <1>1 DEF Slot, NodeStates
<1> HIDE DEF t
<1>3. Off(c, n, h) /\ c.slot[n] = t
  BY <1>2, CommonStates, OffSlot DEF Off
<1> HIDE DEF c
<1>4. Parted(c, n, h, v)
  <2>1. Valued(n, t) => Valued(n, slot[n])
    BY <1>2 DEF Valued, Off
  <2>2. PhaseOf(n, t.st) = "none" /\ t.st \notin Waits /\ t.st # "Abandoned"
    BY <1>2 DEF PhaseOf, Waits, Unstarted
  <2> QED BY <1>3, <2>1, <2>2, OffGone
<1> QED BY <1>1, <1>3, <1>4, PartedPolicy DEF Off

LEMMA OffBackoff ==
  ASSUME TypeOK, NEW n \in Node, NEW h, NEW v, NEW m, Off(m, n, h),
         "Backoff" \in StatesOf(n), Renewed(n, m.slot[n])
  PROVE  Parted(Backoff(m, n), n, h, v)
<1> DEFINE s == [m.slot[n] EXCEPT !.st = "Pending"]
           t == [m.slot[n] EXCEPT !.st = "Backoff", !.timer = "Backoff"]
<1>1. m.slot[n] \in Slot
  BY SlotTyped DEF Off
<1>2. \E u \in {s, t} : Backoff(m, n) = [m EXCEPT !.slot[n] = u]
  BY DEF Backoff, Off, Typed, State
<1>3. ASSUME NEW u \in {s, t} PROVE Parted([m EXCEPT !.slot[n] = u], n, h, v)
  <2> DEFINE c == [m EXCEPT !.slot[n] = u]
  <2>1. /\ u \in Slot /\ u.st \in {"Pending", "Backoff"} /\ u.attempt = m.slot[n].attempt
        /\ u.held = m.slot[n].held /\ u.initialized = m.slot[n].initialized
        /\ u.restarts = m.slot[n].restarts
    BY <1>1 DEF Slot, NodeStates
  <2>2. Off(c, n, h) /\ c.slot[n] = u
    <3> HIDE DEF s, t
    <3> QED BY <2>1, CommonStates, OffSlot DEF Off
  <2> HIDE DEF c, s, t
  <2>3. Valued(n, u) => Valued(n, slot[n])
    BY <2>1 DEF Valued, Off
  <2>4. PhaseOf(n, u.st) = "none" /\ u.st # "Abandoned" /\ ~ Owing(n, u)
    BY <2>1 DEF PhaseOf, Owing
  <2>5. Renewed(n, u)
    BY <2>1 DEF Renewed
  <2>6. Parted(c, n, h, v)
    BY <2>2, <2>3, <2>4, <2>5, OffGone
  <2> QED BY <2>6 DEF c
<1> QED BY <1>2, <1>3

LEMMA OffRetries ==
  ASSUME TypeOK, NEW n \in Node, NEW h, NEW v, NEW m, Off(m, n, h),
         "Backoff" \in StatesOf(n), body[n].phase = "run"
  PROVE  Parted(AfterFailedAttempt(m, n), n, h, v)
<1> DEFINE s == [m.slot[n] EXCEPT !.granted = FALSE, !.timer = "none",
                   !.cancelling = FALSE, !.timingOut = FALSE, !.timedOut = FALSE]
           f == [m EXCEPT !.slot[n] = s]
           t == [f.slot[n] EXCEPT !.st = "RetryRelease"]
           c == [f EXCEPT !.slot[n] = t]
           x == Spawn(c, {n}, "cleanup")
<1>1. m.slot[n] \in Slot /\ m.slot[n].st \in StatesOf(n) /\ plan \in Plans
  BY SlotTyped DEF Off, Typed
<1>2. /\ s \in Slot /\ s.st = m.slot[n].st /\ s.attempt = m.slot[n].attempt
      /\ s.held = m.slot[n].held /\ s.initialized = m.slot[n].initialized
  BY <1>1 DEF Slot
<1>3. \/ AfterFailedAttempt(m, n) = NodeFailed(f, n)
      \/ AfterFailedAttempt(m, n) = Backoff(f, n)
      \/ CanOwe(n) /\ AfterFailedAttempt(m, n) = x
  BY DEF AfterFailedAttempt, Off, Typed, State
<1> HIDE DEF s
<1>4. Off(f, n, h) /\ f.slot[n] = s
  BY <1>1, <1>2, OffSlot DEF Off
<1> HIDE DEF f
<1>5. Parted(NodeFailed(f, n), n, h, v) /\ Parted(Backoff(f, n), n, h, v)
  BY <1>4, OffFailed, OffBackoff DEF Renewed
<1>6. ASSUME CanOwe(n) PROVE Parted(x, n, h, v)
  <2>1. /\ t \in Slot /\ t.st = "RetryRelease" /\ t.attempt = s.attempt
        /\ t.held = s.held /\ t.initialized = s.initialized
    BY <1>2, <1>4 DEF Slot, NodeStates
  <2>2. "RetryRelease" \in StatesOf(n)
    BY <1>1, <1>6, KindStates DEF CanOwe
  <2> HIDE DEF t
  <2>3. Off(c, n, h) /\ c.slot[n] = t
    BY <1>2, <1>4, <2>1, <2>2, OffSlot DEF Off
  <2> HIDE DEF c
  <2>4. Typed(x) /\ x.slot = c.slot /\ x.scope = c.scope
        /\ x.body[n] = [phase |-> "cleanup", aborted |-> FALSE]
        /\ \A d \in Node \ {n} : x.body[d] = c.body[d]
    BY <2>3, SpawnTyped, SpawnIs DEF Off
  <2> HIDE DEF x
  <2>5. Manned(n, x.slot[n], x.body[n]) /\ ~ x.body[n].aborted
    BY <2>1, <2>3, <2>4 DEF Manned, PhaseOf
  <2>6. Valued(n, t) => Valued(n, slot[n])
    BY <2>1, <2>3 DEF Valued, Off
  <2>7. Gone(n, x.slot[n], x.body[n], h, v)
    BY <2>3, <2>4, <2>5, <2>6 DEF Gone, Off
  <2>8. \A d \in Node \ {n} : Ease(d, slot[d], body[d], x.slot[d], x.body[d])
    BY <2>3, <2>4, HereNear, EasesRefl DEF Off, Eases
  <2>9. Launched(Here) => Launched(x)
    BY <2>3, <2>4, HereNear DEF Launched, Off
  <2> QED BY <2>4, <2>7, <2>8, <2>9 DEF Parted
<1> QED BY <1>3, <1>5, <1>6

LEMMA OffFailAttempt ==
  ASSUME TypeOK, NEW n \in Node, NEW h, NEW v, NEW m, Off(m, n, h),
         "Backoff" \in StatesOf(n), body[n].phase = "run"
  PROVE  Parted(FailAttempt(m, n), n, h, v)
<1>1. m.slot[n].attempt \in Nat
  BY SlotTyped, Counters DEF Off
<1>2. Off(ParkFault(m, n, m.slot[n].attempt), n, h)
  BY <1>1, OffPark
<1> QED BY <1>2, OffRetries DEF FailAttempt

LEMMA OffInterrupted ==
  ASSUME TypeOK, NEW n \in Node, NEW h, NEW v, NEW m, Off(m, n, h),
         {"Backoff", "Interrupted"} \subseteq StatesOf(n), body[n].phase = "run"
  PROVE  Parted(FinishInterrupted(m, n), n, h, v)
<1> DEFINE s == m.slot[n]
           t == [s EXCEPT !.timer = "none", !.cancelling = FALSE,
                   !.timingOut = FALSE, !.signalled = s.timingOut /\ s.signalled]
           j == [m EXCEPT !.slot[n] = t]
           u == [t EXCEPT !.granted = FALSE]
           g == [m EXCEPT !.slot[n] = u]
           i == [u EXCEPT !.st = "Interrupted"]
           z == [m EXCEPT !.slot[n] = i]
           unknown == Decl(n).kind = "Effect" /\ ~ s.held
           b == BecomeAmbiguous(g, n)
           a == ParkFault(b, n, s.attempt)
<1>1. s \in Slot /\ s.st \in StatesOf(n) /\ s.attempt \in Nat /\ plan \in Plans
  BY SlotTyped, Counters DEF Off, Typed
<1>2. t \in Slot /\ t.st = s.st /\ Level(s, t)
  <2> HIDE DEF s
  <2> QED BY <1>1 DEF Slot, Level
<1>3. u \in Slot /\ u.st = s.st /\ Level(s, u)
  <2> HIDE DEF t
  <2>1. u \in Slot /\ u.st = t.st /\ Level(t, u)
    BY <1>2 DEF Slot, Level
  <2> QED BY <1>2, <2>1 DEF Level
<1>4. /\ i \in Slot /\ i.st = "Interrupted" /\ i.attempt = s.attempt
      /\ i.held = s.held /\ i.initialized = s.initialized
  <2> HIDE DEF u
  <2>1. /\ i \in Slot /\ i.st = "Interrupted" /\ i.attempt = u.attempt
        /\ i.held = u.held /\ i.initialized = u.initialized
    BY <1>3 DEF Slot, NodeStates
  <2> QED BY <1>3, <2>1 DEF Level
<1>5. \/ /\ unknown
         /\ FinishInterrupted(m, n) \in {Backoff(a, n), ApplyPolicy(a, n), FlushFaults(b, {n})}
      \/ FinishInterrupted(m, n) \in {FailAttempt(j, n), FlushFaults(z, {n})}
  <2>1. [m EXCEPT !.slot[n] = [@ EXCEPT !.timer = "none", !.cancelling = FALSE,
              !.timingOut = FALSE, !.signalled = s.timingOut /\ s.signalled]] = j
    BY DEF Off, Typed, State
  <2>2. [j EXCEPT !.slot[n].granted = FALSE] = g
    <3> HIDE DEF t
    <3> QED BY DEF Off, Typed, State
  <2>3. [g EXCEPT !.slot[n].st = "Interrupted"] = z
    <3> HIDE DEF u
    <3> QED BY DEF Off, Typed, State
  <2> HIDE DEF z
  <2> QED BY <2>1, <2>2, <2>3 DEF FinishInterrupted
<1> HIDE DEF t, u, i
<1>6. /\ Off(j, n, h) /\ Off(g, n, h) /\ Off(z, n, h)
      /\ g.slot[n] = u /\ z.slot[n] = i
  BY <1>1, <1>2, <1>3, <1>4, OffSlot DEF Off, Level
<1> HIDE DEF j, g, z
<1>7. Parted(FailAttempt(j, n), n, h, v)
  BY <1>6, OffFailAttempt
<1>8. Parted(FlushFaults(z, {n}), n, h, v)
  <2> DEFINE x == FlushFaults(z, {n})
  <2>1. Off(x, n, h) /\ Level(i, x.slot[n])
    BY <1>6, OffFlush
  <2> HIDE DEF x
  <2>2. PhaseOf(n, x.slot[n].st) = "none" /\ x.slot[n].st \notin Waits
        /\ x.slot[n].st # "Abandoned"
    BY <1>4, <2>1 DEF PhaseOf, Waits, Unstarted, Level
  <2>3. Valued(n, x.slot[n]) => Valued(n, slot[n])
    BY <1>4, <2>1 DEF Valued, Level, Off
  <2>4. Parted(x, n, h, v)
    BY <2>1, <2>2, <2>3, OffGone
  <2> QED BY <2>4 DEF x
<1>9. ASSUME unknown
      PROVE  /\ Parted(Backoff(a, n), n, h, v) /\ Parted(ApplyPolicy(a, n), n, h, v)
             /\ Parted(FlushFaults(b, {n}), n, h, v)
  <2> DEFINE k == u.attempt
             w == [u EXCEPT !.st = "Ambiguous", !.ambiguity = {k}]
             c == [g EXCEPT !.slot[n] = w]
             o == {<<n, k>>}
  <2>1. "Ambiguous" \in StatesOf(n)
    BY <1>1, <1>9, KindStates
  <2>2. k \in Nat
    BY <1>3, Counters
  <2>3. b = [c EXCEPT !.due.ambiguous = @ \cup o]
    BY <1>6 DEF BecomeAmbiguous, Off, Typed, State
  <2> HIDE DEF k
  <2>4. /\ w \in Slot /\ w.st = "Ambiguous" /\ w.attempt = u.attempt
        /\ w.held = u.held /\ w.initialized = u.initialized
    BY <1>3, <2>2 DEF Slot, NodeStates
  <2> HIDE DEF w
  <2>5. Off(c, n, h) /\ c.slot[n] = w
    <3>1. /\ w.attempt >= slot[n].attempt /\ w.initialized = slot[n].initialized
          /\ w.held => slot[n].held \/ h
      BY <1>6, <2>4 DEF Off
    <3> QED BY <1>6, <2>1, <2>4, <3>1, OffSlot
  <2> HIDE DEF c, b
  <2>6. b.slot = c.slot /\ b.body = c.body /\ b.scope = c.scope
    BY <2>3, <2>5 DEF Off, Typed, State
  <2>7. Typed(b)
    <3>1. Typed(g)
      BY <1>6 DEF Off
    <3> QED BY <2>1, <3>1, BecomeAmbiguousTyped DEF b
  <2>8. Off(b, n, h) /\ b.slot[n] = w
    BY <2>5, <2>6, <2>7 DEF Off
  <2>9. Off(a, n, h) /\ Level(w, a.slot[n])
    BY <1>1, <2>8, OffPark DEF a
  <2> DEFINE x == FlushFaults(b, {n})
  <2>10. Off(x, n, h) /\ Level(w, x.slot[n])
    BY <2>8, OffFlush
  <2> HIDE DEF a, x
  <2>11. ASSUME NEW y \in {a, x} PROVE Parted(y, n, h, v)
    <3>1. Off(y, n, h) /\ Level(w, y.slot[n])
      BY <2>9, <2>10
    <3>2. PhaseOf(n, y.slot[n].st) = "none" /\ y.slot[n].st \notin Waits
          /\ y.slot[n].st # "Abandoned"
      BY <2>4, <3>1 DEF PhaseOf, Waits, Unstarted, Level
    <3>3. Valued(n, y.slot[n]) => Valued(n, slot[n])
      BY <2>4, <3>1 DEF Valued, Level, Off
    <3> QED BY <3>1, <3>2, <3>3, OffGone
  <2>12. Parted(Backoff(a, n), n, h, v)
    BY <2>9, OffBackoff DEF Renewed
  <2>13. Parted(ApplyPolicy(a, n), n, h, v)
    BY <2>9, <2>11, PartedPolicy DEF Off
  <2> QED BY <2>11, <2>12, <2>13 DEF x
<1> QED BY <1>5, <1>7, <1>8, <1>9

LEMMA OffReady ==
  ASSUME TypeOK, NEW n \in Node, NEW h, NEW m, Off(m, n, h), body[n].phase = "run"
  PROVE  Parted(MakeReady(m, n), n, h, TRUE)
<1> DEFINE a == Absorb(m, {n})
           keeps == IsService(n) /\ m.slot[n].granted
           serves == IsService(n)
           s == [a.slot[n] EXCEPT !.st = "Ready", !.timer = "none", !.cancelling = FALSE,
                             !.timingOut = FALSE, !.ambiguity = {},
                             !.initialized = serves,
                             !.granted = keeps]
           c == [a EXCEPT !.slot[n] = s]
           r == [c EXCEPT !.due.ambiguous = {x \in @ : x[1] # n}]
           y == Spawn(r, {n}, "serve")
<1>1. /\ Typed(a) /\ a.scope = m.scope /\ a.body = m.body /\ Level(m.slot[n], a.slot[n])
      /\ \A d \in Node \ {n} : a.slot[d] = m.slot[d]
  BY AbsorbTyped, AbsorbLevel DEF Off
<1>2. MakeReady(m, n) = IF IsService(n) THEN y ELSE r
  BY DEF MakeReady
<1>3. keeps \in BOOLEAN /\ serves \in BOOLEAN
  <2>1. m.slot[n] \in Slot
    BY SlotTyped DEF Off
  <2> QED BY <2>1 DEF IsService, Slot
<1> HIDE DEF a, keeps, serves
<1>4. /\ s \in Slot /\ s.st = "Ready" /\ s.attempt = a.slot[n].attempt
      /\ s.held = a.slot[n].held
  <2> DEFINE b == [a.slot[n] EXCEPT !.st = "Ready", !.timer = "none", !.cancelling = FALSE]
             d == [b EXCEPT !.timingOut = FALSE, !.ambiguity = {}]
  <2>1. a.slot[n] \in Slot
    BY <1>1, SlotTyped
  <2>2. /\ b \in Slot /\ b.st = "Ready" /\ b.attempt = a.slot[n].attempt
        /\ b.held = a.slot[n].held
    BY <2>1 DEF Slot, NodeStates
  <2>3. s = [d EXCEPT !.initialized = serves, !.granted = keeps]
    OBVIOUS
  <2> HIDE DEF b, s
  <2>4. d \in Slot /\ d.st = "Ready" /\ d.attempt = b.attempt /\ d.held = b.held
    BY <2>2 DEF Slot
  <2> HIDE DEF d
  <2>5. s \in Slot /\ s.st = d.st /\ s.attempt = d.attempt /\ s.held = d.held
    BY <2>3, <2>4, <1>3 DEF Slot
  <2> QED BY <2>2, <2>4, <2>5
<1> HIDE DEF s
<1>5. /\ Typed(c) /\ c.body = a.body /\ c.scope = a.scope /\ c.slot[n] = s
      /\ \A d \in Node \ {n} : c.slot[d] = a.slot[d]
  <2>1. Typed(c)
    BY <1>1, <1>4, CommonStates, OneSlot
  <2> QED BY <1>1, <2>1 DEF Typed, State
<1> HIDE DEF c
<1>6. /\ Typed(r) /\ r.body = c.body /\ r.scope = c.scope /\ r.slot = c.slot
  BY <1>5 DEF Typed, State, Due
<1> HIDE DEF r
<1>7. /\ \A d \in Node \ {n} : r.slot[d] = slot[d] /\ r.body[d] = body[d]
      /\ r.scope = scope /\ r.slot[n] = s /\ r.body[n].phase = "none" /\ ~ r.body[n].aborted
      /\ s.attempt >= slot[n].attempt /\ (s.held => slot[n].held \/ h)
  BY <1>1, <1>4, <1>5, <1>6 DEF Off, Level
<1>8. ASSUME NEW x, Typed(x), x.slot = r.slot, x.scope = r.scope,
             \A d \in Node \ {n} : x.body[d] = r.body[d],
             Manned(n, x.slot[n], x.body[n]), ~ x.body[n].aborted,
             x.body[n].phase \in {"none", "serve"}
      PROVE  Parted(x, n, h, TRUE)
  <2>1. Gone(n, x.slot[n], x.body[n], h, TRUE)
    BY <1>4, <1>7, <1>8 DEF Gone
  <2>2. \A d \in Node \ {n} : Ease(d, slot[d], body[d], x.slot[d], x.body[d])
    BY <1>7, <1>8, HereNear, EasesRefl DEF Eases
  <2>3. Launched(Here) => Launched(x)
    BY <1>7, <1>8, HereNear DEF Launched
  <2> QED BY <1>8, <2>1, <2>2, <2>3 DEF Parted
<1>9. CASE IsService(n)
  <2>1. /\ Typed(y) /\ y.slot = r.slot /\ y.scope = r.scope
        /\ y.body[n] = [phase |-> "serve", aborted |-> FALSE]
        /\ \A d \in Node \ {n} : y.body[d] = r.body[d]
    BY <1>6, <1>9, SpawnTyped, SpawnIs
  <2> HIDE DEF y
  <2>2. Manned(n, y.slot[n], y.body[n])
    BY <1>4, <1>7, <1>9, <2>1 DEF Manned, PhaseOf
  <2>3. ~ y.body[n].aborted /\ y.body[n].phase = "serve"
    BY <2>1
  <2>4. Parted(y, n, h, TRUE)
    BY <1>8, <2>1, <2>2, <2>3
  <2> QED BY <1>2, <1>9, <2>4
<1>10. CASE ~ IsService(n)
  <2>1. Manned(n, r.slot[n], r.body[n])
    BY <1>4, <1>7, <1>10 DEF Manned, PhaseOf
  <2> QED BY <1>2, <1>6, <1>7, <1>8, <1>10, <2>1
<1> QED BY <1>9, <1>10

LEMMA OffFails ==
  ASSUME NEW n \in Node, NEW h, NEW v, NEW m, Parted(m, n, h, v)
  PROVE  Parted(CleanupFails(m, n), n, h, v)
<1> DEFINE x == CleanupFails(m, n)
<1>1. Typed(x) /\ x.slot = m.slot /\ x.body = m.body /\ x.scope = m.scope
  BY CleanupFailsTyped DEF Parted, CleanupFails, Typed, State
<1> HIDE DEF x
<1>2. Launched(m) => Launched(x)
  BY <1>1 DEF Launched
<1>3. Parted(x, n, h, v)
  BY <1>1, <1>2 DEF Parted
<1> QED BY <1>3 DEF x

-----------------------------------------------------------------------------
(* The events that end no task.                                            *)

LEMMA AheadBy ==
  ASSUME TypeOK, NEW m, Ahead(m), NEW x, Typed(x), Eases(m, x)
  PROVE  Ahead(x)
BY HereNear, EasesTrans DEF Ahead

LEMMA AheadApart ==
  ASSUME TypeOK, NEW m, Ahead(m), NEW x, Typed(x), x.slot = m.slot, x.body = m.body,
         Launched(m) => Launched(x)
  PROVE  Ahead(x)
<1>1. Eases(m, x)
  BY EasesRefl DEF Ahead, Eases
<1> QED BY <1>1, AheadBy

LEMMA AheadSlot ==
  ASSUME TypeOK, NEW n \in Node, NEW m, Ahead(m), NEW t \in Slot, t.st \in StatesOf(n),
         Ease(n, m.slot[n], m.body[n], t, m.body[n])
  PROVE  LET x == [m EXCEPT !.slot[n] = t] IN
         Ahead(x) /\ x.slot[n] = t /\ x.body = m.body /\ x.scope = m.scope
<1> DEFINE x == [m EXCEPT !.slot[n] = t]
<1>1. Typed(m) /\ Typed(x)
  BY OneSlot DEF Ahead
<1>2. /\ x.body = m.body /\ x.scope = m.scope
      /\ \A d \in Node : x.slot[d] = IF d = n THEN t ELSE m.slot[d]
  BY <1>1 DEF Typed, State
<1> HIDE DEF x
<1>3. Eases(m, x)
  <2>1. \A d \in Node : Ease(d, m.slot[d], m.body[d], m.slot[d], m.body[d])
    BY <1>1, EasesRefl DEF Eases
  <2> QED BY <1>2, <2>1 DEF Eases, Launched
<1>4. Ahead(x)
  BY <1>1, <1>3, AheadBy
<1> QED BY <1>2, <1>4 DEF x

LEMMA AheadHere == ASSUME TypeOK PROVE Ahead(Here)
BY HereNear, EasesRefl DEF Ahead

LEMMA BeginMoves ==
  ASSUME TypeOK, AllManned(Here), Begin
  PROVE  AllMoved /\ Fitting /\ Launched(Here)'
<1> DEFINE m == [Here EXCEPT !.scope.st = "Admitting"]
<1>1. Typed(m) /\ m.slot = Here.slot /\ m.body = Here.body /\ m.scope.st = "Admitting"
  BY HereNear DEF Typed, State, Scope
<1>2. AfterSettle(m)
  BY DEF Begin
<1> HIDE DEF m
<1>3. Ahead(m) /\ Launched(m)
  BY <1>1, AheadHere, AheadApart DEF Launched
<1> QED BY <1>2, <1>3, AheadMoves

LEMMA RequestMoves ==
  ASSUME TypeOK, AllManned(Here), NEW cause \in {"Shutdown", "Cancel"}, Request(cause)
  PROVE  AllMoved /\ Fitting /\ Launched(Here)'
<1> DEFINE m == [Here EXCEPT !.scope.cause = cause]
           e == End(m)
<1>1. CASE scope.st = "Planned" /\ Become(e)
  <2>1. Typed(m) /\ m.slot = Here.slot /\ m.body = Here.body
    BY HereNear DEF Typed, State, Scope
  <2> HIDE DEF m
  <2>2. Typed(e) /\ e.slot = m.slot /\ e.body = m.body /\ e.scope.st = "Ended"
    <3>1. Typed(e)
      BY <2>1, EndTyped
    <3>2. m \in State /\ m.scope \in Scope
      BY <2>1 DEF Typed, State
    <3>3. e.slot = m.slot /\ e.body = m.body
      BY <3>2 DEF End, State
    <3>4. e.scope.st = "Ended"
      BY <3>2 DEF End, State, Scope
    <3> QED BY <3>1, <3>3, <3>4
  <2> HIDE DEF e
  <2>3. Ahead(e) /\ Launched(e)
    BY <2>1, <2>2, AheadHere, AheadApart DEF Launched
  <2> QED BY <1>1, <2>3, AheadMoves
<1>2. CASE Admits(Here) /\ Become(TryCleanup(Settle(Here, cause)))
  <2>1. Typed(Settle(Here, cause)) /\ Eases(Here, Settle(Here, cause))
    BY HereNear, SettleTyped, SettleEases
  <2>2. Launched(Here)
    BY <1>2 DEF Admits, Launched
  <2>3. Ahead(Settle(Here, cause)) /\ Launched(Settle(Here, cause))
    BY <2>1, <2>2 DEF Ahead, Eases
  <2> QED BY <1>2, <2>3, AheadMoves
<1> QED BY <1>1, <1>2 DEF Request

LEMMA AcknowledgedMoves ==
  ASSUME TypeOK, AllManned(Here), NEW n \in Node, NEW ok \in BOOLEAN, Acknowledged(n, ok)
  PROVE  AllMoved /\ Fitting
<1> DEFINE s == [slot[n] EXCEPT !.publishing = FALSE]
           m == [Here EXCEPT !.slot[n] = s]
           k == {<<n, slot[n].attempt>>}
           r == [s EXCEPT !.st = "Ready"]
           y == [m EXCEPT !.slot[n] = r]
           f == [m EXCEPT !.report.faults = @ \cup k, !.due.faults = @ \cup k]
           t == [f.slot[n] EXCEPT !.st = "Failed"]
           c == [f EXCEPT !.slot[n] = t]
<1>1. slot[n] \in Slot /\ slot[n].st \in StatesOf(n) /\ slot[n].attempt \in Nat /\ plan \in Plans
  BY HereNear, Counters DEF Typed
<1>2. s \in Slot /\ s.st = slot[n].st /\ Level(slot[n], s)
  BY <1>1 DEF Slot, Level
<1>3. /\ r \in Slot /\ r.st = "Ready" /\ r.attempt = s.attempt /\ r.restarts = s.restarts
      /\ r.held = s.held
  <2> HIDE DEF s
  <2> QED BY <1>2 DEF Slot, NodeStates
<1>4. k \in SUBSET (Node \X Nat)
  BY <1>1
<1>5. \/ AfterSettle(m)
      \/ (slot[n].st = "Publishing" /\ AfterSettle(y))
      \/ (slot[n].st = "Publishing" /\ AfterSettle(NodeFailed(f, n)))
  <2>1. [Here EXCEPT !.slot[n].publishing = FALSE] = m
    BY HereNear DEF Here
  <2>2. [m EXCEPT !.slot[n].st = "Ready"] = y
    <3> HIDE DEF s
    <3> QED BY HereNear DEF Typed, State
  <2>3. CASE slot[n].st # "Publishing"
    <3>1. AfterSettle(m)
      BY <2>1, <2>3 DEF Acknowledged
    <3> QED BY <3>1
  <2>4. CASE slot[n].st = "Publishing" /\ ok
    <3>1. AfterSettle([m EXCEPT !.slot[n].st = "Ready"])
      BY <2>1, <2>4 DEF Acknowledged
    <3> QED BY <2>2, <2>4, <3>1
  <2>5. CASE slot[n].st = "Publishing" /\ ~ ok
    <3>1. AfterSettle(NodeFailed(f, n))
      BY <2>1, <2>5 DEF Acknowledged
    <3> QED BY <2>5, <3>1
  <2> QED BY <2>3, <2>4, <2>5
<1> HIDE DEF s, r, k
<1>6. Ahead(m) /\ m.slot[n] = s /\ m.body = body
  <2>1. Ease(n, slot[n], body[n], s, body[n])
    BY <1>1, <1>2, LevelEase
  <2> QED BY <1>1, <1>2, <2>1, HereNear, AheadHere, AheadSlot
<1> HIDE DEF m
<1>7. CASE slot[n].st = "Publishing"
  <2>1. Decl(n).kind = "Join" /\ ~ IsService(n)
    BY <1>1, <1>7, StatesKind DEF IsService
  <2>2. ASSUME NEW u \in Slot, NEW w \in Slot, u.st = "Publishing", w.st \in {"Ready", "Failed"},
               w.attempt = u.attempt, w.restarts = u.restarts, w.held = u.held
        PROVE  Ease(n, u, body[n], w, body[n])
    <3>1. w.attempt \in Nat
      BY Counters
    <3>2. PhaseOf(n, w.st) = "none" /\ PhaseOf(n, u.st) = "none"
      BY <2>1, <2>2 DEF PhaseOf
    <3> QED BY <2>1, <2>2, <3>1, <3>2 DEF Ease, Manned, Spares, Valued, Waits, Unstarted
  <2>3. Ahead(y)
    <3>1. Ease(n, s, body[n], r, body[n])
      BY <1>2, <1>3, <1>7, <2>2
    <3> QED BY <1>3, <1>6, <3>1, CommonStates, AheadSlot
  <2>4. /\ Typed(f) /\ f.slot = m.slot /\ f.body = m.body /\ f.scope = m.scope
    BY <1>4, <1>6 DEF Ahead, Typed, State, Report, Due
  <2> HIDE DEF f, y
  <2>5. Ahead(f) /\ f.slot[n] = s /\ f.body = body
    BY <1>6, <2>4, AheadApart DEF Launched
  <2>6. /\ t \in Slot /\ t.st = "Failed" /\ t.attempt = s.attempt /\ t.restarts = s.restarts
        /\ t.held = s.held
    BY <1>2, <2>5 DEF Slot, NodeStates
  <2>7. NodeFailed(f, n) = ApplyPolicy(c, n)
    BY <2>5 DEF NodeFailed, Ahead, Typed, State
  <2> HIDE DEF t
  <2>8. Ahead(c)
    <3>1. Ease(n, s, body[n], t, body[n])
      BY <1>2, <1>7, <2>2, <2>6
    <3> QED BY <2>5, <2>6, <3>1, CommonStates, AheadSlot
  <2>9. Ahead(NodeFailed(f, n))
    BY <2>7, <2>8, ApplyPolicyTyped, PolicyEases, AheadBy DEF Ahead
  <2> QED BY <1>5, <1>6, <2>3, <2>9, AheadMoves
<1>8. CASE slot[n].st # "Publishing"
  BY <1>5, <1>6, <1>8, AheadMoves
<1> QED BY <1>7, <1>8

LEMMA WithinExpiresMoves ==
  ASSUME TypeOK, AllManned(Here), NEW n \in Node, WithinExpires(n)
  PROVE  AllMoved /\ Fitting
<1> DEFINE s == [slot[n] EXCEPT !.timer = "none"]
           m == [Here EXCEPT !.slot[n] = s]
           p == ParkFault(m, n, slot[n].attempt)
           t == [p.slot[n] EXCEPT !.timedOut = TRUE]
           late == [p EXCEPT !.slot[n] = t]
           a == Abort(m, {n})
           u == [a.slot[n] EXCEPT !.cancelling = TRUE, !.timingOut = TRUE]
           cut == [a EXCEPT !.slot[n] = u]
<1>1. slot[n] \in Slot /\ slot[n].st \in StatesOf(n) /\ slot[n].attempt \in Nat
  BY HereNear, Counters
<1>2. s \in Slot /\ s.st = slot[n].st /\ s.st \in StatesOf(n) /\ Level(slot[n], s)
  BY <1>1 DEF Slot, Level
<1>3. \/ Become(m)
      \/ Become([p EXCEPT !.slot[n].timedOut = TRUE])
      \/ /\ slot[n].st = "Running"
         /\ Become([a EXCEPT !.slot[n].cancelling = TRUE, !.slot[n].timingOut = TRUE])
  <2>1. [Here EXCEPT !.slot[n].timer = "none"] = m
    BY HereNear DEF Here
  <2>2. CASE slot[n].st # "Running" \/ slot[n].cancelling
    <3>1. Become(m)
      BY <2>1, <2>2 DEF WithinExpires
    <3> QED BY <3>1
  <2>3. CASE ~ (slot[n].st # "Running" \/ slot[n].cancelling)
    <3>1. Become(IF Decl(n).kind = "BlockingStep"
                 THEN [p EXCEPT !.slot[n].timedOut = TRUE]
                 ELSE [a EXCEPT !.slot[n].cancelling = TRUE, !.slot[n].timingOut = TRUE])
      BY <2>1, <2>3 DEF WithinExpires
    <3>2. CASE Decl(n).kind = "BlockingStep"
      BY <3>1, <3>2
    <3>3. CASE Decl(n).kind # "BlockingStep"
      BY <2>3, <3>1, <3>3
    <3> QED BY <3>2, <3>3
  <2> QED BY <2>2, <2>3
<1> HIDE DEF s
<1>4. Ahead(m) /\ m.slot[n] = s
  <2>1. Ease(n, slot[n], body[n], s, body[n])
    BY <1>1, <1>2, LevelEase
  <2> QED BY <1>2, <2>1, HereNear, AheadHere, AheadSlot
<1> HIDE DEF m
<1>5. Typed(m)
  BY <1>4 DEF Ahead
<1>6. Ahead(p) /\ p.slot[n] \in Slot /\ p.slot[n].st \in StatesOf(n)
  <2>1. /\ Typed(p) /\ p.body = m.body /\ p.scope = m.scope
        /\ \A d \in Node : Level(m.slot[d], p.slot[d])
    BY <1>1, <1>5, ParkFaultTyped, ParkLevel
  <2> HIDE DEF p
  <2>2. Eases(m, p)
    BY <1>5, <2>1, LevelEases
  <2> QED BY <1>4, <2>1, <2>2, AheadBy, SlotTyped
<1>7. CASE Become([p EXCEPT !.slot[n].timedOut = TRUE])
  <2> HIDE DEF p
  <2>1. [p EXCEPT !.slot[n].timedOut = TRUE] = late
    BY <1>6 DEF Ahead, Typed, State
  <2>2. t \in Slot /\ t.st \in StatesOf(n) /\ Level(p.slot[n], t)
    BY <1>6 DEF Slot, Level
  <2> HIDE DEF t
  <2>3. Ease(n, p.slot[n], p.body[n], t, p.body[n])
    BY <1>6, <2>2, LevelEase
  <2>4. Ahead(late)
    BY <1>6, <2>2, <2>3, AheadSlot
  <2> HIDE DEF late
  <2> QED BY <1>7, <2>1, <2>4, AheadMoves
<1>8. CASE slot[n].st = "Running"
           /\ Become([a EXCEPT !.slot[n].cancelling = TRUE, !.slot[n].timingOut = TRUE])
  <2>1. /\ Typed(a) /\ a.slot = m.slot /\ a.scope = m.scope
        /\ \A d \in Node : /\ a.body[d].phase = m.body[d].phase
                           /\ a.body[d].aborted = (m.body[d].aborted \/ d \in {n})
    BY <1>5, AbortTyped, AbortIs
  <2> HIDE DEF a
  <2>2. [a EXCEPT !.slot[n].cancelling = TRUE, !.slot[n].timingOut = TRUE] = cut
    BY <2>1 DEF Typed, State
  <2>3. a.slot[n] \in Slot /\ a.slot[n] = s /\ s.st = "Running"
    BY <1>2, <1>4, <1>8, <2>1
  <2>4. Eases(m, a)
    <3>1. ASSUME NEW d \in Node PROVE Ease(d, m.slot[d], m.body[d], a.slot[d], a.body[d])
      <4>1. m.slot[d].attempt \in Nat /\ m.body[d].aborted \in BOOLEAN
        BY <1>5, SlotTyped, Counters DEF Typed, State, Body
      <4>2. CASE d = n
        BY <1>4, <2>1, <2>3, <4>1, <4>2 DEF Ease, Manned, Spares, PhaseOf
      <4>3. CASE d # n
        <5>1. a.body[d].aborted = m.body[d].aborted
          BY <2>1, <4>1, <4>3
        <5> QED BY <2>1, <4>1, <4>3, <5>1 DEF Ease, Manned, Spares
      <4> QED BY <4>2, <4>3
    <3> QED BY <2>1, <3>1 DEF Eases, Launched
  <2>5. Ahead(a)
    BY <1>4, <2>1, <2>4, AheadBy
  <2>6. u \in Slot /\ u.st \in StatesOf(n) /\ Level(a.slot[n], u)
    <3>1. a.slot[n] \in Slot /\ a.slot[n].st \in StatesOf(n)
      BY <2>1, SlotTyped
    <3> QED BY <3>1 DEF Slot, Level
  <2> HIDE DEF u
  <2>7. Ease(n, a.slot[n], a.body[n], u, a.body[n])
    BY <2>3, <2>6, LevelEase
  <2>8. Ahead(cut)
    BY <2>5, <2>6, <2>7, AheadSlot
  <2> HIDE DEF cut
  <2> QED BY <1>8, <2>2, <2>8, AheadMoves
<1>9. CASE Become(m)
  BY <1>4, <1>9, AheadMoves
<1> HIDE DEF late, cut, p, a
<1> QED BY <1>3, <1>7, <1>8, <1>9

LEMMA GraceExpiresMoves ==
  ASSUME TypeOK, AllManned(Here), NEW n \in Node, GraceExpires(n)
  PROVE  AllMoved /\ Fitting
<1> DEFINE a == Abort(Here, {n})
           s == [a.slot[n] EXCEPT !.timer = "none"]
           m == [a EXCEPT !.slot[n] = s]
<1>1. /\ Typed(a) /\ a.slot = slot /\ a.scope = scope
      /\ \A d \in Node : /\ a.body[d].phase = body[d].phase
                         /\ a.body[d].aborted = (body[d].aborted \/ d \in {n})
  BY HereNear, AbortTyped, AbortIs
<1>2. Become(m)
  <2>1. Become([a EXCEPT !.slot[n].timer = "none"])
    BY DEF GraceExpires
  <2> HIDE DEF a
  <2>2. [a EXCEPT !.slot[n].timer = "none"] = m
    BY <1>1 DEF Typed, State
  <2> QED BY <2>1, <2>2
<1> HIDE DEF a
<1>3. Eases(Here, a)
  <2>1. ASSUME NEW d \in Node PROVE Ease(d, slot[d], body[d], a.slot[d], a.body[d])
    <3>1. slot[d].attempt \in Nat /\ body[d].aborted \in BOOLEAN
      BY HereNear, Counters DEF Typed, State, Body
    <3>2. CASE d = n
      BY <1>1, <3>1, <3>2 DEF GraceExpires, Ease, Manned, Spares, PhaseOf
    <3>3. CASE d # n
      <4>1. a.body[d].aborted = body[d].aborted
        BY <1>1, <3>1, <3>3
      <4> QED BY <1>1, <3>1, <3>3, <4>1 DEF Ease, Manned, Spares
    <3> QED BY <3>2, <3>3
  <2> QED BY <1>1, <2>1, HereNear DEF Eases, Launched
<1>4. Ahead(a)
  BY <1>1, <1>3 DEF Ahead
<1>5. s \in Slot /\ s.st \in StatesOf(n) /\ Level(a.slot[n], s) /\ a.slot[n] \in Slot
  <2>1. a.slot[n] \in Slot /\ a.slot[n].st \in StatesOf(n)
    BY <1>1, SlotTyped
  <2> QED BY <2>1 DEF Slot, Level
<1> HIDE DEF s
<1>6. Ahead(m)
  <2>1. Ease(n, a.slot[n], a.body[n], s, a.body[n])
    BY <1>5, LevelEase
  <2> QED BY <1>4, <1>5, <2>1, AheadSlot
<1> QED BY <1>2, <1>6, AheadMoves

LEMMA BackoffExpiresMoves ==
  ASSUME TypeOK, AllManned(Here), NEW n \in Node, BackoffExpires(n)
  PROVE  AllMoved /\ Fitting
<1> DEFINE s == [slot[n] EXCEPT !.st = "Pending", !.timer = "none"]
           m == [Here EXCEPT !.slot[n] = s]
<1>1. slot[n] \in Slot /\ slot[n].attempt \in Nat /\ slot[n].st = "Backoff"
  BY HereNear, Counters DEF BackoffExpires
<1>2. /\ s \in Slot /\ s.st = "Pending" /\ s.attempt = slot[n].attempt /\ s.held = slot[n].held
      /\ s.restarts = slot[n].restarts /\ s.initialized = slot[n].initialized
  BY <1>1 DEF Slot, NodeStates
<1>3. AfterSettle(m)
  <2>1. [Here EXCEPT !.slot[n].st = "Pending", !.slot[n].timer = "none"] = m
    BY HereNear DEF Here
  <2> QED BY <2>1 DEF BackoffExpires
<1> HIDE DEF s
<1>4. Ahead(m)
  <2>1. Ease(n, slot[n], body[n], s, body[n])
    BY <1>1, <1>2 DEF Ease, Manned, PhaseOf, Spares, Valued, Waits
  <2> QED BY <1>2, <2>1, HereNear, AheadHere, CommonStates, AheadSlot
<1> QED BY <1>3, <1>4, AheadMoves

LEMMA AbandonAhead ==
  ASSUME TypeOK,
         NEW S \in SUBSET In(Here, CleanupStates \cup {"Running", "RetryRelease"})
  PROVE  Ahead(Abandon(Here, S)) /\ Typed(Abandon(Here, S))
<1>1. S \in SUBSET Node /\ \A n \in S : "Abandoned" \in StatesOf(n)
  BY TaskStates, HereNear DEF In
<1> QED BY <1>1, HereNear, AbandonTyped, AbandonEases DEF Ahead

LEMMA StopDeadlineMoves ==
  ASSUME TypeOK, AllManned(Here), NEW n \in Node, StopDeadline(n)
  PROVE  AllMoved /\ Fitting
<1>1. {n} \in SUBSET In(Here, CleanupStates \cup {"Running", "RetryRelease"})
  BY HereNear DEF StopDeadline, In, CleanupStates
<1> QED BY <1>1, AbandonAhead, AheadMoves DEF StopDeadline

LEMMA BudgetExpiresMoves ==
  ASSUME TypeOK, AllManned(Here), BudgetExpires
  PROVE  AllMoved /\ Fitting
<1> DEFINE a == Abandon(Here, In(Here, CleanupStates \cup {"Running", "RetryRelease"}))
           m == [a EXCEPT !.scope.budget = FALSE, !.scope.spent = TRUE]
<1>1. Ahead(a) /\ Typed(a)
  BY AbandonAhead
<1>2. Become(TryCleanup(m))
  BY DEF BudgetExpires
<1> HIDE DEF a
<1>3. Typed(m) /\ m.slot = a.slot /\ m.body = a.body /\ m.scope.st = a.scope.st
  BY <1>1 DEF Typed, State, Scope
<1> HIDE DEF m
<1>4. Ahead(m)
  BY <1>1, <1>3, AheadApart DEF Launched
<1> QED BY <1>2, <1>4, AheadMoves

LEMMA ZeroExpiresMoves ==
  ASSUME TypeOK, AllManned(Here), ZeroExpires
  PROVE  AllMoved /\ Fitting
<1> DEFINE S == In(Here, CleanupStates \cup {"RetryRelease"})
           a == Abandon(Here, S)
           m == [a EXCEPT !.scope.zero = FALSE]
<1>1. S \in SUBSET In(Here, CleanupStates \cup {"Running", "RetryRelease"})
  BY DEF In
<1>2. Ahead(a) /\ Typed(a)
  BY <1>1, AbandonAhead
<1>3. Become(TryCleanup(m))
  BY DEF ZeroExpires
<1> HIDE DEF a
<1>4. Typed(m) /\ m.slot = a.slot /\ m.body = a.body /\ m.scope.st = a.scope.st
  BY <1>2 DEF Typed, State, Scope
<1> HIDE DEF m
<1>5. Ahead(m)
  BY <1>2, <1>4, AheadApart DEF Launched
<1> QED BY <1>3, <1>5, AheadMoves

LEMMA TimersMove ==
  ASSUME TypeOK, AllManned(Here), NEW n \in Node, Timers(n)
  PROVE  AllMoved /\ Fitting
BY WithinExpiresMoves, GraceExpiresMoves, BackoffExpiresMoves, StopDeadlineMoves DEF Timers

-----------------------------------------------------------------------------
(* The events that report the end of a task.                               *)

LEMMA BodyReturnsRetires ==
  ASSUME TypeOK, AllManned(Here), NEW n \in Node, NEW ok \in BOOLEAN, BodyReturns(n, ok)
  PROVE  Retired(n, FALSE, ok) /\ Fitting
<1> DEFINE m == TaskEnds(Here, n)
<1>1. Off(m, n, FALSE) /\ body[n].phase = "run"
  BY TaskEndsOff DEF BodyReturns, RunInFlight
<1>2. {"Running", "Backoff", "Interrupted", "Abandoned"} \subseteq StatesOf(n)
  BY TaskStates DEF BodyReturns, RunInFlight
<1>3. \/ AfterSettle(AfterFailedAttempt(m, n)) \/ AfterSettle(FinishInterrupted(m, n))
      \/ ok = TRUE /\ AfterSettle(MakeReady(m, n))
      \/ AfterSettle(FailAttempt(m, n))
  <2> SUFFICES ASSUME ~ AfterSettle(AfterFailedAttempt(m, n)),
                      ~ AfterSettle(FinishInterrupted(m, n))
               PROVE  \/ ok = TRUE /\ AfterSettle(MakeReady(m, n))
                      \/ AfterSettle(FailAttempt(m, n))
    OBVIOUS
  <2>1. AfterSettle(IF ok THEN MakeReady(m, n) ELSE FailAttempt(m, n))
    BY DEF BodyReturns
  <2>2. CASE ok
    <3>1. AfterSettle(MakeReady(m, n))
      BY <2>1, <2>2
    <3>2. ok = TRUE
      BY <2>2
    <3> QED BY <3>1, <3>2
  <2>3. CASE ~ ok
    BY <2>1, <2>3
  <2> QED BY <2>2, <2>3
<1> HIDE DEF m
<1>4. /\ Parted(AfterFailedAttempt(m, n), n, FALSE, ok)
      /\ Parted(FinishInterrupted(m, n), n, FALSE, ok)
      /\ Parted(FailAttempt(m, n), n, FALSE, ok)
  BY <1>1, <1>2, OffRetries, OffInterrupted, OffFailAttempt
<1>5. Parted(MakeReady(m, n), n, FALSE, TRUE)
  BY <1>1, OffReady
<1>6. CASE ok = TRUE /\ AfterSettle(MakeReady(m, n))
  <2>1. Retired(n, FALSE, TRUE) /\ Fitting
    BY <1>5, <1>6, PartedRetires
  <2> QED BY <1>6, <2>1
<1> QED BY <1>3, <1>4, <1>6, PartedRetires

LEMMA BodyCancelledRetires ==
  ASSUME TypeOK, AllManned(Here), NEW n \in Node, NEW held \in BOOLEAN, BodyCancelled(n, held)
  PROVE  Retired(n, held, FALSE) /\ Fitting
<1> DEFINE h == slot[n].held \/ held
           e == TaskEnds(Here, n)
           s == [e.slot[n] EXCEPT !.held = h]
           d == IF h /\ CanOwe(n) THEN e.due.held \cup {n} ELSE e.due.held
           c == [e EXCEPT !.slot[n] = s]
           m == [c EXCEPT !.due.held = d]
<1>1. Off(e, n, held) /\ Typed(e) /\ e.slot = slot /\ body[n].phase = "run"
  BY TaskEndsOff DEF BodyCancelled, RunInFlight, Off
<1>2. {"Running", "Backoff", "Interrupted", "Abandoned"} \subseteq StatesOf(n)
  BY TaskStates DEF BodyCancelled, RunInFlight
<1>3. AfterSettle(FinishInterrupted(m, n))
  BY DEF BodyCancelled
<1> HIDE DEF e
<1>4. h \in BOOLEAN
  OBVIOUS
<1>5. /\ s \in Slot /\ s.st \in StatesOf(n) /\ s.attempt = slot[n].attempt
      /\ s.initialized = slot[n].initialized /\ s.held = h /\ slot[n].attempt \in Nat
  <2> HIDE DEF h
  <2>1. e.slot[n] \in Slot /\ e.slot[n].st \in StatesOf(n) /\ e.slot[n] = slot[n]
    BY <1>1, SlotTyped
  <2> QED BY <2>1, <1>4, Counters DEF Slot
<1>6. d \in SUBSET Node
  BY <1>1 DEF Typed, State, Due
<1> HIDE DEF s, d
<1>7. Off(c, n, held)
  <2>1. s.attempt >= slot[n].attempt /\ (s.held => slot[n].held \/ held)
    BY <1>5
  <2> QED BY <1>1, <1>5, <2>1, OffSlot
<1> HIDE DEF c
<1>8. Off(m, n, held)
  <2>1. Typed(c)
    BY <1>7 DEF Off
  <2>2. Typed(m) /\ m.slot = c.slot /\ m.body = c.body /\ m.scope = c.scope
    BY <2>1, <1>6 DEF Typed, State, Due
  <2> HIDE DEF m
  <2> QED BY <1>7, <2>2 DEF Off
<1> HIDE DEF m
<1>9. Parted(FinishInterrupted(m, n), n, held, FALSE)
  BY <1>1, <1>2, <1>8, OffInterrupted
<1> QED BY <1>3, <1>9, PartedRetires

LEMMA AbandonedTaskEndsRetires ==
  ASSUME TypeOK, AllManned(Here), NEW n \in Node, AbandonedTaskEnds(n)
  PROVE  Retired(n, FALSE, FALSE) /\ Fitting
<1> DEFINE m == TaskEnds(Here, n)
<1>1. Off(m, n, FALSE) /\ m.slot = slot /\ Become(m) /\ slot[n].st = "Abandoned"
  BY TaskEndsOff DEF AbandonedTaskEnds
<1> HIDE DEF m
<1>2. Gone(n, m.slot[n], m.body[n], FALSE, FALSE)
  BY <1>1 DEF Off, Gone, Manned, Owing, Waits, Unstarted
<1>3. \A d \in Node \ {n} : Ease(d, slot[d], body[d], m.slot[d], m.body[d])
  BY <1>1, HereNear, EasesRefl DEF Off, Eases
<1>4. Parted(m, n, FALSE, FALSE)
  BY <1>1, <1>2, <1>3, HereNear DEF Parted, Off, Launched
<1> QED BY <1>1, <1>4, PartedRetires

LEMMA CleanupReturnsRetires ==
  ASSUME TypeOK, AllManned(Here), NEW n \in Node, NEW ok \in BOOLEAN, CleanupReturns(n, ok)
  PROVE  Retired(n, FALSE, FALSE) /\ Fitting
<1> SUFFICES ASSUME NEW h, NEW v PROVE Retired(n, h, v) /\ Fitting
  OBVIOUS
<1> DEFINE e == TaskEnds(Here, n)
           m == [e EXCEPT !.due.held = @ \ {n}]
           k == {<<n, slot[n].attempt>>}
           x == IF slot[n].st = "Releasing" THEN "Released" ELSE "Compensated"
           s == [m.slot[n] EXCEPT !.st = x]
           t == [m.slot[n] EXCEPT !.st = "ReleaseFailed"]
           done == [m EXCEPT !.slot[n] = s]
           found == [done EXCEPT !.report.ambiguous = @ \ k, !.due.ambiguous = @ \ k]
           fails == [m EXCEPT !.slot[n] = t]
<1>1. slot[n].st \in {"Releasing", "Compensating"}
  BY DEF CleanupReturns
<1>2. "ReleaseFailed" \in StatesOf(n) /\ x \in StatesOf(n) /\ x \in {"Released", "Compensated"}
  BY <1>1, TaskStates DEF CleanupStates
<1>3. Off(e, n, h) /\ Typed(e) /\ body[n].phase = "cleanup"
  BY TaskEndsOff DEF CleanupReturns, Off
<1>4. \/ AfterSettle(done) \/ AfterSettle(found) \/ AfterSettle(CleanupFails(fails, n))
  <2>1. [m EXCEPT !.slot[n].st = x] = done
    <3> HIDE DEF x, e
    <3> QED BY <1>3 DEF Typed, State
  <2>2. [m EXCEPT !.slot[n].st = "ReleaseFailed"] = fails
    <3> HIDE DEF e
    <3> QED BY <1>3 DEF Typed, State
  <2>3. CASE ok /\ slot[n].recovering
    <3>1. AfterSettle([[m EXCEPT !.slot[n].st = x]
                         EXCEPT !.report.ambiguous = @ \ k, !.due.ambiguous = @ \ k])
      BY <2>3 DEF CleanupReturns
    <3> QED BY <2>1, <3>1
  <2>4. CASE ok /\ ~ slot[n].recovering
    <3>1. AfterSettle([m EXCEPT !.slot[n].st = x])
      BY <2>4 DEF CleanupReturns
    <3> QED BY <2>1, <3>1
  <2>5. CASE ~ ok
    <3>1. AfterSettle(CleanupFails([m EXCEPT !.slot[n].st = "ReleaseFailed"], n))
      BY <2>5 DEF CleanupReturns
    <3> QED BY <2>2, <3>1
  <2>6. ok \/ ~ ok
    OBVIOUS
  <2> QED BY <2>3, <2>4, <2>5
<1> HIDE DEF e
<1>5. Off(m, n, h) /\ m.slot[n] \in Slot
  <2>1. Typed(m) /\ m.slot = e.slot /\ m.body = e.body /\ m.scope = e.scope
    BY <1>3 DEF Typed, State, Due
  <2> HIDE DEF m
  <2> QED BY <1>3, <2>1, SlotTyped DEF Off
<1> HIDE DEF m, x
<1>6. /\ s \in Slot /\ s.st = x /\ s.attempt = m.slot[n].attempt
      /\ s.held = m.slot[n].held /\ s.initialized = m.slot[n].initialized
      /\ t \in Slot /\ t.st = "ReleaseFailed" /\ t.attempt = m.slot[n].attempt
      /\ t.held = m.slot[n].held /\ t.initialized = m.slot[n].initialized
  BY <1>2, <1>5 DEF Slot, NodeStates
<1> HIDE DEF s, t, k
<1>7. Off(done, n, h) /\ done.slot[n] = s /\ Off(fails, n, h) /\ fails.slot[n] = t
  BY <1>2, <1>5, <1>6, OffKept
<1> HIDE DEF done, fails
<1>8. ASSUME NEW y, Off(y, n, h),
             y.slot[n].st \in {"Released", "Compensated", "ReleaseFailed"}
      PROVE  Parted(y, n, h, v)
  <2>1. /\ PhaseOf(n, y.slot[n].st) = "none" /\ y.slot[n].st \notin Waits
        /\ y.slot[n].st # "Abandoned" /\ ~ Owing(n, y.slot[n])
        /\ (Valued(n, y.slot[n]) => Valued(n, slot[n]))
    BY <1>8 DEF PhaseOf, Waits, Unstarted, Owing, Valued, Off
  <2> QED BY <1>8, <2>1, OffGone
<1>9. Parted(done, n, h, v) /\ Parted(CleanupFails(fails, n), n, h, v)
  <2>1. Parted(done, n, h, v)
    BY <1>2, <1>6, <1>7, <1>8
  <2>2. Parted(fails, n, h, v)
    BY <1>6, <1>7, <1>8
  <2> QED BY <2>1, <2>2, OffFails
<1>10. Parted(found, n, h, v)
  <2>1. Typed(done)
    BY <1>7 DEF Off
  <2>2. Typed(found) /\ found.slot = done.slot /\ found.body = done.body /\ found.scope = done.scope
    BY <2>1 DEF Typed, State, Report, Due
  <2> HIDE DEF found
  <2>3. Off(found, n, h) /\ found.slot[n] = s
    BY <1>7, <2>2 DEF Off
  <2> QED BY <1>2, <1>6, <1>8, <2>3
<1> HIDE DEF found
<1> QED BY <1>4, <1>9, <1>10, PartedRetires

LEMMA ServiceStopsRetires ==
  ASSUME TypeOK, AllManned(Here), NEW n \in Node, NEW ok \in BOOLEAN, ServiceStops(n, ok)
  PROVE  Retired(n, FALSE, FALSE) /\ Fitting
<1> SUFFICES ASSUME NEW h, NEW v PROVE Retired(n, h, v) /\ Fitting
  OBVIOUS
<1> DEFINE e == TaskEnds(Here, n)
           s == [e.slot[n] EXCEPT !.timer = "none"]
           t == [s EXCEPT !.st = "Stopped"]
           u == [s EXCEPT !.st = "ReleaseFailed"]
           m == [e EXCEPT !.slot[n] = s]
           x == [e EXCEPT !.slot[n] = t]
           y == [e EXCEPT !.slot[n] = u]
<1>1. Off(e, n, h) /\ Typed(e) /\ body[n].phase = "serve"
  BY TaskEndsOff DEF ServiceStops, Off
<1>2. AfterSettle(x) \/ AfterSettle(CleanupFails(y, n))
  <2>1. [e EXCEPT !.slot[n].timer = "none"] = m
    <3> HIDE DEF e
    <3> QED BY <1>1 DEF Typed, State
  <2>2. [m EXCEPT !.slot[n].st = "Stopped"] = x /\ [m EXCEPT !.slot[n].st = "ReleaseFailed"] = y
    <3> HIDE DEF e, s
    <3> QED BY <1>1 DEF Typed, State
  <2>3. CASE ok
    <3>1. AfterSettle([[e EXCEPT !.slot[n].timer = "none"] EXCEPT !.slot[n].st = "Stopped"])
      BY <2>3 DEF ServiceStops
    <3> QED BY <2>1, <2>2, <3>1
  <2>4. CASE ~ ok
    <3>1. AfterSettle(CleanupFails([[e EXCEPT !.slot[n].timer = "none"]
                                      EXCEPT !.slot[n].st = "ReleaseFailed"], n))
      BY <2>4 DEF ServiceStops
    <3> QED BY <2>1, <2>2, <3>1
  <2> QED BY <2>3, <2>4
<1>3. "Stopped" \in StatesOf(n) /\ "ReleaseFailed" \in StatesOf(n)
  BY TaskStates DEF ServiceStops, CleanupStates
<1> HIDE DEF e
<1>4. s \in Slot /\ Level(e.slot[n], s)
  <2>1. e.slot[n] \in Slot
    BY <1>1, SlotTyped
  <2> QED BY <2>1 DEF Slot, Level
<1> HIDE DEF s
<1>5. /\ t \in Slot /\ t.st = "Stopped" /\ t.attempt = s.attempt
      /\ t.held = s.held /\ t.initialized = s.initialized
      /\ u \in Slot /\ u.st = "ReleaseFailed" /\ u.attempt = s.attempt
      /\ u.held = s.held /\ u.initialized = s.initialized
  BY <1>4 DEF Slot, NodeStates
<1> HIDE DEF t, u
<1>6. Off(x, n, h) /\ x.slot[n] = t /\ Off(y, n, h) /\ y.slot[n] = u
  BY <1>1, <1>3, <1>4, <1>5, OffKept DEF Level
<1> HIDE DEF x, y
<1>7. ASSUME NEW z, Off(z, n, h), z.slot[n].st \in {"Stopped", "ReleaseFailed"}
      PROVE  Parted(z, n, h, v)
  <2>1. /\ PhaseOf(n, z.slot[n].st) = "none" /\ z.slot[n].st \notin Waits
        /\ z.slot[n].st # "Abandoned" /\ ~ Owing(n, z.slot[n])
        /\ (Valued(n, z.slot[n]) => Valued(n, slot[n]))
    BY <1>7 DEF PhaseOf, Waits, Unstarted, Owing, Valued, Off
  <2> QED BY <1>7, <2>1, OffGone
<1>8. Parted(x, n, h, v) /\ Parted(CleanupFails(y, n), n, h, v)
  BY <1>5, <1>6, <1>7, OffFails
<1> QED BY <1>2, <1>8, PartedRetires

LEMMA ServingEndsRetires ==
  ASSUME TypeOK, AllManned(Here), NEW n \in Node, NEW ok \in BOOLEAN, ServingEnds(n, ok)
  PROVE  Retired(n, FALSE, FALSE) /\ Fitting
<1> SUFFICES ASSUME NEW h, NEW v PROVE Retired(n, h, v) /\ Fitting
  OBVIOUS
<1> DEFINE e == TaskEnds(Here, n)
           s == [e.slot[n] EXCEPT !.granted = FALSE]
           t == [s EXCEPT !.st = "Finished"]
           m == [e EXCEPT !.slot[n] = s]
           f == [e EXCEPT !.slot[n] = t]
           p == ParkFault(m, n, slot[n].restarts + 1)
           r == [p.slot[n] EXCEPT !.restarts = @ + 1]
           q == [p EXCEPT !.slot[n] = r]
<1>1. /\ Off(e, n, h) /\ Typed(e) /\ e.slot[n] = slot[n] /\ body[n].phase = "serve"
      /\ slot[n].st = "Ready" /\ slot[n].restarts + 1 \in Nat /\ slot[n].restarts \in Nat
  BY TaskEndsOff, HereNear, Counters DEF ServingEnds, Off
<1>2. {"Backoff", "Finished"} \subseteq StatesOf(n) /\ Valued(n, slot[n])
  <2>1. IsService(n) /\ plan \in Plans
    BY DEF ServingEnds, TypeOK
  <2> QED BY <1>1, <2>1, KindStates DEF IsService, Valued
<1>3. \/ AfterSettle(f) \/ AfterSettle(Settle(f, "Terminal"))
      \/ AfterSettle(Backoff([p EXCEPT !.slot[n].restarts = @ + 1], n))
      \/ AfterSettle(NodeFailed(p, n))
  <2>1. [e EXCEPT !.slot[n].granted = FALSE] = m
    <3> HIDE DEF e
    <3> QED BY <1>1 DEF Typed, State
  <2>2. [m EXCEPT !.slot[n].st = "Finished"] = f
    <3> HIDE DEF e, s
    <3> QED BY <1>1 DEF Typed, State
  <2>3. CASE ok
    <3>1. AfterSettle(IF Decl(n).terminal THEN Settle(f, "Terminal") ELSE f)
      BY <2>1, <2>2, <2>3 DEF ServingEnds
    <3>2. CASE Decl(n).terminal
      BY <3>1, <3>2
    <3>3. CASE ~ Decl(n).terminal
      BY <3>1, <3>3
    <3> QED BY <3>2, <3>3
  <2>4. CASE ~ ok
    <3>1. AfterSettle(IF slot[n].restarts < Decl(n).restarts /\ Admits(m)
                      THEN Backoff([p EXCEPT !.slot[n].restarts = @ + 1], n)
                      ELSE NodeFailed(p, n))
      BY <2>1, <2>4 DEF ServingEnds
    <3>2. CASE slot[n].restarts < Decl(n).restarts /\ Admits(m)
      BY <3>1, <3>2
    <3>3. CASE ~ (slot[n].restarts < Decl(n).restarts /\ Admits(m))
      BY <3>1, <3>3
    <3> QED BY <3>2, <3>3
  <2> QED BY <2>3, <2>4
<1> HIDE DEF e
<1>4. s \in Slot /\ s.st \in StatesOf(n) /\ Level(slot[n], s)
  <2>1. e.slot[n] \in Slot /\ e.slot[n].st \in StatesOf(n)
    BY <1>1, SlotTyped
  <2> QED BY <1>1, <2>1 DEF Slot, Level
<1> HIDE DEF s
<1>5. /\ t \in Slot /\ t.st = "Finished" /\ t.attempt = s.attempt
      /\ t.held = s.held /\ t.initialized = s.initialized
  BY <1>4 DEF Slot, NodeStates
<1> HIDE DEF t
<1>6. Off(m, n, h) /\ m.slot[n] = s /\ Off(f, n, h) /\ f.slot[n] = t
  <2>1. Off(m, n, h) /\ m.slot[n] = s
    BY <1>1, <1>4, OffKept DEF Level
  <2>2. Off(f, n, h) /\ f.slot[n] = t
    BY <1>1, <1>2, <1>4, <1>5, OffKept DEF Level
  <2> QED BY <2>1, <2>2
<1> HIDE DEF m, f
<1>7. Parted(f, n, h, v)
  <2>1. /\ PhaseOf(n, t.st) = "none" /\ t.st \notin Waits /\ t.st # "Abandoned"
    BY <1>5 DEF PhaseOf, Waits, Unstarted
  <2> QED BY <1>1, <1>2, <1>6, <2>1, OffGone
<1>8. Off(p, n, h) /\ p.slot[n] \in Slot /\ Level(s, p.slot[n])
  BY <1>1, <1>6, OffPark
<1> HIDE DEF p
<1>9. /\ r \in Slot /\ r.st = p.slot[n].st /\ r.st \in StatesOf(n)
      /\ r.attempt = p.slot[n].attempt /\ r.held = p.slot[n].held
      /\ r.initialized = p.slot[n].initialized /\ r.restarts = slot[n].restarts + 1
  <2>1. p.slot[n].st \in StatesOf(n) /\ p.slot[n].restarts = slot[n].restarts
    BY <1>4, <1>8 DEF Level
  <2> QED BY <1>8, <2>1, Counters DEF Slot
<1>10. [p EXCEPT !.slot[n].restarts = @ + 1] = q
  BY <1>8 DEF Off, Typed, State
<1> HIDE DEF r
<1>11. Off(q, n, h) /\ q.slot[n] = r
  BY <1>8, <1>9, OffKept
<1> HIDE DEF q
<1>12. Parted(Backoff(q, n), n, h, v)
  <2>1. Renewed(n, q.slot[n])
    BY <1>1, <1>9, <1>11 DEF Renewed
  <2> QED BY <1>2, <1>11, <2>1, OffBackoff
<1>13. Parted(NodeFailed(p, n), n, h, v)
  BY <1>1, <1>8, OffFailed
<1>14. Parted(Settle(f, "Terminal"), n, h, v)
  <2>1. Typed(f) /\ Typed(Settle(f, "Terminal")) /\ Eases(f, Settle(f, "Terminal"))
    BY <1>6, SettleTyped, SettleEases DEF Off
  <2> QED BY <1>1, <1>6, <1>7, <2>1, PartedEases DEF Off
<1> QED BY <1>3, <1>7, <1>10, <1>12, <1>13, <1>14, PartedRetires

LEMMA RetryReleaseReturnsRetires ==
  ASSUME TypeOK, AllManned(Here), NEW n \in Node, NEW ok \in BOOLEAN, RetryReleaseReturns(n, ok)
  PROVE  Retired(n, FALSE, FALSE) /\ Fitting
<1> SUFFICES ASSUME NEW g, NEW v PROVE Retired(n, g, v) /\ Fitting
  OBVIOUS
<1> DEFINE h == TaskEnds(Here, n)
           s == [h.slot[n] EXCEPT !.held = FALSE]
           c == [h EXCEPT !.slot[n] = s]
           e == [c EXCEPT !.due.held = @ \ {n}]
           m == IF ok THEN e ELSE CleanupFails(e, n)
           i == [m.slot[n] EXCEPT !.st = "Interrupted", !.attempt = @ + 1]
           j == [m EXCEPT !.slot[n] = i]
<1>1. /\ Off(h, n, g) /\ Typed(h) /\ h.slot[n] = slot[n] /\ body[n].phase = "cleanup"
      /\ slot[n].attempt \in Nat
  BY TaskEndsOff, HereNear, Counters DEF RetryReleaseReturns, Off
<1>2. {"Backoff", "Interrupted"} \subseteq StatesOf(n)
  BY TaskStates DEF RetryReleaseReturns
<1>3. AfterSettle(IF Admits(m) THEN Backoff(m, n)
                  ELSE FlushFaults([m EXCEPT !.slot[n].st = "Interrupted",
                                             !.slot[n].attempt = @ + 1], {n}))
  <2> DEFINE f == [h EXCEPT !.slot[n].held = FALSE, !.due.held = @ \ {n}]
             l == IF ok THEN f ELSE CleanupFails(f, n)
  <2>1. f = e
    <3> HIDE DEF h
    <3> QED BY <1>1 DEF Typed, State
  <2>2. AfterSettle(IF Admits(l) THEN Backoff(l, n)
                    ELSE FlushFaults([l EXCEPT !.slot[n].st = "Interrupted",
                                               !.slot[n].attempt = @ + 1], {n}))
    BY DEF RetryReleaseReturns
  <2> HIDE DEF e, f, h
  <2>3. l = m
    BY <2>1
  <2> HIDE DEF l, m
  <2> QED BY <2>2, <2>3
<1> HIDE DEF h
<1>4. /\ s \in Slot /\ s.st \in StatesOf(n) /\ s.attempt = slot[n].attempt
      /\ s.initialized = slot[n].initialized /\ ~ s.held
  <2>1. h.slot[n] \in Slot /\ h.slot[n].st \in StatesOf(n)
    BY <1>1, SlotTyped
  <2> QED BY <1>1, <2>1 DEF Slot
<1> HIDE DEF s
<1>5. Off(c, n, g) /\ c.slot[n] = s
  <2>1. s.attempt >= slot[n].attempt
    BY <1>1, <1>4
  <2> QED BY <1>1, <1>4, <2>1, OffSlot
<1> HIDE DEF c
<1>6. Off(e, n, g) /\ e.slot[n] = s
  <2>1. Typed(c)
    BY <1>5 DEF Off
  <2>2. Typed(e) /\ e.slot = c.slot /\ e.body = c.body /\ e.scope = c.scope
    BY <2>1 DEF Typed, State, Due
  <2> HIDE DEF e
  <2> QED BY <1>5, <2>2 DEF Off
<1> HIDE DEF e
<1>7. Off(m, n, g) /\ m.slot[n] = s
  <2> DEFINE x == CleanupFails(e, n)
  <2>1. Typed(x) /\ x.slot = e.slot /\ x.body = e.body /\ x.scope = e.scope
    BY <1>6, CleanupFailsTyped DEF CleanupFails, Off, Typed, State
  <2> HIDE DEF x
  <2>2. Off(x, n, g) /\ x.slot[n] = s
    BY <1>6, <2>1 DEF Off
  <2> QED BY <1>6, <2>2 DEF x
<1> HIDE DEF m
<1>8. /\ i \in Slot /\ i.st = "Interrupted" /\ i.attempt = s.attempt + 1
      /\ i.held = s.held /\ i.initialized = s.initialized
  <2>1. m.slot[n] \in Slot
    BY <1>4, <1>7
  <2> QED BY <1>7, <2>1, Counters DEF Slot, NodeStates
<1>9. [m EXCEPT !.slot[n].st = "Interrupted", !.slot[n].attempt = @ + 1] = j
  BY <1>7 DEF Off, Typed, State
<1> HIDE DEF i
<1>10. Off(j, n, g) /\ j.slot[n] = i
  <2>1. i.attempt >= slot[n].attempt
    BY <1>1, <1>4, <1>8
  <2>2. i.st \in StatesOf(n) /\ i.initialized = slot[n].initialized /\ ~ i.held
    BY <1>2, <1>4, <1>8
  <2> QED BY <1>7, <1>8, <2>1, <2>2, OffSlot
<1> HIDE DEF j
<1>11. CASE Admits(m)
  <2>1. Parted(Backoff(m, n), n, g, v)
    BY <1>1, <1>2, <1>7, OffBackoff DEF Renewed
  <2> QED BY <1>3, <1>11, <2>1, PartedRetires
<1>12. CASE ~ Admits(m)
  <2> DEFINE x == FlushFaults(j, {n})
  <2>1. Off(x, n, g) /\ Level(i, x.slot[n])
    BY <1>10, OffFlush
  <2>2. AfterSettle(x)
    BY <1>3, <1>9, <1>12
  <2> HIDE DEF x
  <2>3. /\ PhaseOf(n, x.slot[n].st) = "none" /\ x.slot[n].st \notin Waits
        /\ x.slot[n].st # "Abandoned" /\ ~ Owing(n, x.slot[n])
    BY <1>4, <1>8, <2>1 DEF PhaseOf, Waits, Unstarted, Owing, Level
  <2>4. Valued(n, x.slot[n]) => Valued(n, slot[n])
    BY <1>8, <2>1 DEF Valued, Level, Off
  <2>5. Parted(x, n, g, v)
    BY <2>1, <2>3, <2>4, OffGone
  <2> QED BY <2>2, <2>5, PartedRetires
<1> QED BY <1>11, <1>12

(* A registration changes no task.                                         *)
LEMMA BodyHeldFits ==
  ASSUME TypeOK, AllManned(Here), NEW n \in Node, BodyHeld(n)
  PROVE  /\ Fitting /\ body' = body /\ scope' = scope
         /\ slot' = [slot EXCEPT ![n].held = TRUE]
<1> DEFINE d == IF CanOwe(n) THEN due.held \cup {n} ELSE due.held
           m == [Here EXCEPT !.slot[n].held = TRUE, !.due.held = d]
<1>1. Become(m)
  BY DEF BodyHeld, Here
<1>2. m.body = body /\ m.scope = scope /\ m.slot = [slot EXCEPT ![n].held = TRUE]
  BY DEF Here
<1> HIDE DEF m
<1>3. body' = body /\ scope' = scope /\ slot' = [slot EXCEPT ![n].held = TRUE]
  BY <1>1, <1>2 DEF Become
<1>4. ASSUME NEW k \in Node PROVE Manned(k, m.slot[k], m.body[k])
  <2>1. slot[k] \in Slot /\ Manned(k, slot[k], body[k]) /\ slot \in [Node -> Slot]
    BY HereNear DEF AllManned, Typed, State
  <2>2. m.slot[k].st = slot[k].st /\ m.body[k] = body[k]
    BY <1>2, <2>1 DEF Slot
  <2> QED BY <2>1, <2>2 DEF Manned
<1>5. Launched(Here) => Launched(m)
  BY <1>2, HereNear DEF Launched
<1>6. Fitting
  BY <1>1, <1>4, <1>5, BecomeFits
<1> QED BY <1>3, <1>6

-----------------------------------------------------------------------------
(* The theorem.                                                            *)

LEMMA StepFits == TypeOK /\ AllManned(Here) /\ [Next]_vars => Fitting
<1> SUFFICES ASSUME TypeOK, AllManned(Here), [Next]_vars PROVE Fitting
  OBVIOUS
<1>1. CASE Begin
  BY <1>1, BeginMoves
<1>2. ASSUME NEW cause \in {"Shutdown", "Cancel"}, Request(cause) PROVE Fitting
  BY <1>2, RequestMoves
<1>3. ASSUME NEW n \in Node, Tasks(n) PROVE Fitting
  BY <1>3, BodyHeldFits, AbandonedTaskEndsRetires, BodyReturnsRetires, BodyCancelledRetires,
     AcknowledgedMoves, ServingEndsRetires, ServiceStopsRetires, CleanupReturnsRetires,
     RetryReleaseReturnsRetires
     DEF Tasks
<1>4. ASSUME NEW n \in Node, Timers(n) PROVE Fitting
  BY <1>4, TimersMove
<1>5. CASE BudgetExpires
  BY <1>5, BudgetExpiresMoves
<1>6. CASE ZeroExpires
  BY <1>6, ZeroExpiresMoves
<1>7. CASE UNCHANGED vars
  <2>1. AllManned(Here)'
    BY <1>7 DEF vars, AllManned, Manned, PhaseOf, IsService, Decl, Here
  <2>2. Launched(Here) => Launched(Here)'
    BY <1>7 DEF vars, Launched, Here
  <2> QED BY <2>1, <2>2 DEF Fitting
<1>8. CASE Terminated
  BY <1>7, <1>8 DEF Terminated
<1> QED BY <1>1, <1>2, <1>3, <1>4, <1>5, <1>6, <1>7, <1>8 DEF Next

LEMMA InitManned == Init => AllManned(Here)
<1> SUFFICES ASSUME Init, NEW n \in Node PROVE Manned(n, slot[n], body[n])
  BY DEF AllManned, Here
<1> QED BY DEF Init, Manned, PhaseOf

(* For every number of nodes and every set of valid plans, a node has a    *)
(* task exactly in the states that need one, of the phase they need, and   *)
(* an aborted task is only ever that of an attempt or of an abandoned      *)
(* node: no path through the handlers of the engine leaves a state to wait *)
(* for a task that nobody runs, or a task that nobody waits for.           *)
THEOREM TasksFitStates == Spec => []AllManned(Here)
<1>1. Init => TypeOK /\ AllManned(Here)
  BY InitTyped, InitManned
<1>2. TypeOK /\ AllManned(Here) /\ [Next]_vars => (TypeOK /\ AllManned(Here))'
  BY StepKeeps, StepFits DEF Preserved, Fitting
<1> QED BY <1>1, <1>2, PTL DEF Spec
=============================================================================
