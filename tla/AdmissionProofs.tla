--------------------------- MODULE AdmissionProofs ---------------------------
(***************************************************************************)
(* Theorems about admission: no grant lies idle, nobody is overtaken, and  *)
(* what a failure does to the nodes that need the failed one.  All of them *)
(* are about a scope that is up, so a handler that stops the scope has     *)
(* nothing to show here; any other changes one node and what it skips, and *)
(* then passes over the queue.                                             *)
(***************************************************************************)
EXTENDS MachineProofs

(* The states a need does not come back from while the scope is up, those  *)
(* of a node that was started and not skipped, and those of a node that is *)
(* at work or serves.                                                      *)
Hopeless == {"Failed", "Ambiguous", "Skipped"}
Underway == {"Running", "Backoff", "RetryRelease", "Publishing", "Ready", "Finished", "Failed",
             "Ambiguous"}
AtWork == {"Running", "Backoff", "RetryRelease", "Publishing"}

(* A need that is ready, and stays so while the scope is up.               *)
Solid(m, n) ==
  \/ IsService(n) /\ m.slot[n].initialized
  \/ m.slot[n].st \in {"Ready", "Finished"}

(* While the scope is up a body is only cancelled for its deadline, and a  *)
(* service that is or was ready has been initialized.                      *)
Unhurt(m, n) ==
  /\ m.slot[n].st \in Unstarted \cup Underway \cup {"Skipped"}
  /\ IsService(n) /\ m.slot[n].st \in {"Ready", "Finished"} => m.slot[n].initialized
  /\ m.slot[n].publishing => m.slot[n].st = "Publishing"
  /\ m.slot[n].st = "Running" =>
       /\ ~ m.slot[n].signalled
       /\ m.slot[n].cancelling \/ m.body[n].aborted => m.slot[n].timingOut

Unarmed(m) == ~ m.scope.budget /\ ~ m.scope.zero /\ ~ m.scope.spent

(* Nothing has happened yet.                                               *)
Unbegun(m) == m.scope.st = "Planned" => \A n \in Node : m.slot[n].st = "Pending"

(* The strengthening of PolicyHolds: whoever was started had its needs     *)
(* ready, they stay ready, and who still waits may yet get them.           *)
Blameless(m) ==
  plan.policy = "FailFast" =>
    m.report.faults = {} /\ \A n \in Node : m.slot[n].st \notin Hopeless
Answered(m) ==
  \A n \in Node : m.slot[n].st = "Skipped" =>
    \E d \in Decl(n).needs : m.slot[d].st \in Hopeless
Grounded(m) == \A n \in Node : m.slot[n].st \in Underway => NeedsReady(m, n)
Hoped(m, n) == \A d \in Decl(n).needs : Solid(m, d) \/ m.slot[d].st \notin Hopeless
Hopeful(m) == \A n \in Node : m.slot[n].st \in Unstarted => Hoped(m, n)

Orderly(m) ==
  /\ Unarmed(m) /\ Unbegun(m) /\ \A n \in Node : Unhurt(m, n)
  /\ Blameless(m) /\ Answered(m) /\ Grounded(m) /\ Hopeful(m)

Unqueued(m) == \A n \in Node : m.slot[n].st # "Waiting"

Admission(m) == IF Up(m) THEN Orderly(m) ELSE Unqueued(m)

(* m follows the current state with nobody let in: the queue is the same   *)
(* but for those that were skipped, and no grant was taken.                *)
Turn(m) ==
  /\ Quiet(Here, m)
  /\ \A n \in Node : /\ slot[n].st = "Waiting" => m.slot[n].st \in {"Waiting", "Skipped"}
                     /\ m.slot[n].attempt = slot[n].attempt

(* What the tail of an event is given.                                     *)
Given(m) ==
  /\ Typed(m)
  /\ \/ Admits(m) /\ Orderly(m) /\ Turn(m)
     \/ ~ Up(m) /\ Unqueued(m)

(* The scope is up, and what the current state must be.                    *)
Rising == TypeOK /\ Up(Here) /\ Orderly(Here)

LEMMA NeedsSolid ==
  ASSUME NEW m, NEW n
  PROVE  NeedsReady(m, n) <=> \A d \in Decl(n).needs : Solid(m, d)
BY DEF NeedsReady, Solid

(* A node does not need itself: needs are declared before.                 *)
LEMMA NeedsNodes ==
  ASSUME plan \in Plans, NEW n \in Node
  PROVE  Decl(n).needs \subseteq Node \ {n}
<1>1. Decl(n).needs \subseteq Node /\ Decl(n).needs \subseteq 1 .. (n - 1)
  BY PlansAssumption, PlanTyped DEF NodeDecl, Valid, ValidNode, Decl
<1>2. n \in Int /\ n \notin 1 .. (n - 1)
  BY NAssumption DEF Node
<1> QED BY <1>1, <1>2

-----------------------------------------------------------------------------
(* Events that only change the bookkeeping.                                *)

(* Nothing the theorems speak of has changed, but that the scope may begin.*)
Alike(m) ==
  /\ Typed(m) /\ Up(m) /\ (m.scope.st = "Planned" => scope.st = "Planned")
  /\ m.scope.budget = scope.budget /\ m.scope.zero = scope.zero /\ m.scope.spent = scope.spent
  /\ m.report.faults = report.faults /\ m.ahead = ahead
  /\ \A n \in Node : /\ m.slot[n].st = slot[n].st
                     /\ m.slot[n].initialized = slot[n].initialized
                     /\ m.slot[n].granted = slot[n].granted
                     /\ m.slot[n].attempt = slot[n].attempt
                     /\ Unhurt(m, n)

LEMMA AlikeOrderly ==
  ASSUME Rising, NEW m, Alike(m)
  PROVE  Orderly(m) /\ Turn(m)
<1>1. Orderly(Here) /\ Here.slot = slot /\ Here.scope = scope /\ Here.report = report
      /\ Here.ahead = ahead /\ plan \in Plans
  BY HereNear DEF Rising, TypeOK
<1>2. ASSUME NEW n \in Node PROVE Decl(n).needs \subseteq Node
  BY <1>1, NeedsNodes
<1>3. Unarmed(m) /\ Unbegun(m) /\ (\A n \in Node : Unhurt(m, n))
  BY <1>1 DEF Alike, Orderly, Unarmed, Unbegun
<1>4. Blameless(m)
  BY <1>1 DEF Alike, Orderly, Blameless
<1>5. Answered(m)
  BY <1>1, <1>2 DEF Alike, Orderly, Answered
<1>6. \A d \in Node : Solid(m, d) <=> Solid(Here, d)
  BY <1>1 DEF Alike, Solid
<1>7. Grounded(m)
  BY <1>1, <1>2, <1>6, NeedsSolid DEF Alike, Orderly, Grounded
<1>8. Hopeful(m)
  BY <1>1, <1>2, <1>6 DEF Alike, Orderly, Hopeful, Hoped
<1>9. Turn(m)
  BY <1>1 DEF Alike, Turn, Quiet, QuietSlot
<1> QED BY <1>3, <1>4, <1>5, <1>7, <1>8, <1>9 DEF Orderly

-----------------------------------------------------------------------------
(* The pass over the queue.                                                *)

(* What Enqueue does, node by node.                                        *)
Lost(m) == {n \in In(m, {"Waiting"}) : ~ NeedsReady(m, n)}
Joiners(m) == {n \in In(m, {"Pending"}) : NeedsReady(m, n)}
Queued(m) == In(m, {"Waiting"}) \ Lost(m)

LEMMA EnqueueIs ==
  ASSUME NEW m, Typed(m)
  PROVE  LET q == Enqueue(m) IN
         /\ Typed(q) /\ q.body = m.body /\ q.report = m.report
         /\ q.scope.st = "Admitting" /\ q.scope.budget = m.scope.budget
         /\ q.scope.zero = m.scope.zero /\ q.scope.spent = m.scope.spent
         /\ \A n \in Node :
              /\ q.slot[n] = [m.slot[n] EXCEPT !.st = q.slot[n].st]
              /\ q.slot[n].st = IF n \in Lost(m) THEN "Pending"
                                ELSE IF n \in Joiners(m) THEN "Waiting" ELSE m.slot[n].st
              /\ q.ahead[n] = IF n \in Queued(m) THEN m.ahead[n] \cap Queued(m)
                              ELSE IF n \in Joiners(m)
                                   THEN Queued(m) \cup {u \in Joiners(m) : Preferred(u, n)}
                                   ELSE {}
<1> DEFINE q == Enqueue(m)
           next(n) == IF n \in Lost(m) THEN "Pending"
                      ELSE IF n \in Joiners(m) THEN "Waiting" ELSE m.slot[n].st
           moved(n) == [m.slot[n] EXCEPT !.st = next(n)]
<1>1. Typed(q)
  BY EnqueueTyped
<1>2. \A n \in Node : [m.slot[n] EXCEPT !.st = IF n \in Lost(m) THEN "Pending"
                                    ELSE IF n \in Joiners(m) THEN "Waiting" ELSE @] = moved(n)
  OBVIOUS
<1> HIDE DEF moved
<1>3. /\ q.body = m.body /\ q.report = m.report
      /\ q.scope = [m.scope EXCEPT !.st = "Admitting"]
      /\ \A n \in Node : q.slot[n] = moved(n)
  BY <1>2 DEF Enqueue, Typed, State, Lost, Joiners
<1>4. \A n \in Node :
        q.ahead[n] = IF n \in Queued(m) THEN m.ahead[n] \cap Queued(m)
                     ELSE IF n \in Joiners(m)
                          THEN Queued(m) \cup {u \in Joiners(m) : Preferred(u, n)}
                          ELSE {}
  BY DEF Enqueue, Typed, State, Lost, Joiners, Queued
<1> HIDE DEF q, next
<1>5. \A n \in Node : moved(n).st = next(n)
  BY SlotTyped DEF moved, Slot
<1>6. \A n \in Node : q.slot[n] = [m.slot[n] EXCEPT !.st = q.slot[n].st]
  BY <1>3, <1>5 DEF moved
<1>7. m.scope \in Scope
  BY DEF Typed, State
<1>8. /\ q.scope.st = "Admitting" /\ q.scope.budget = m.scope.budget
      /\ q.scope.zero = m.scope.zero /\ q.scope.spent = m.scope.spent
  BY <1>3, <1>7 DEF Scope
<1> QED BY <1>1, <1>3, <1>4, <1>5, <1>6, <1>8 DEF q, next
-----------------------------------------------------------------------------
(* Events of one node.                                                     *)

(* n is at work, or serves.                                                *)
Actor(n) ==
  /\ Rising /\ Admits(Here) /\ n \in Node
  /\ slot[n].st \in AtWork \/ (slot[n].st = "Ready" /\ IsService(n))

(* The slot of n on the way of the event.                                  *)
Fits(n, s) ==
  /\ s.attempt = slot[n].attempt /\ (s.granted => slot[n].granted)
  /\ IsService(n) /\ slot[n].initialized => s.initialized
  /\ ~ s.publishing /\ s.st # "Waiting"

(* So far only n and its task have changed.                                *)
Acts(m, n) ==
  /\ Typed(m) /\ m.scope = scope /\ m.ahead = ahead
  /\ \A d \in Node : d # n => m.slot[d] = slot[d]
  /\ \A d \in Node : d # n => m.body[d] = body[d]
  /\ Fits(n, m.slot[n])

LEMMA ActsAdmits ==
  ASSUME NEW n, Actor(n), NEW m, Acts(m, n)
  PROVE  Admits(m) /\ Typed(m) /\ m.slot[n] \in Slot /\ m.slot[n].st \in StatesOf(n)
         /\ m.slot[n].attempt \in Nat
<1>1. m.scope.st = scope.st /\ Typed(m) /\ n \in Node
  BY DEF Acts, Actor
<1> QED BY <1>1, SlotTyped, Counters, HereNear DEF Actor, Rising, Admits

(* A need of another that n satisfies, it satisfies as a service.          *)
LEMMA ActorSolid ==
  ASSUME NEW n, Actor(n)
  PROVE  /\ Solid(Here, n) => IsService(n) /\ slot[n].initialized
         /\ slot[n].st \in Underway /\ slot[n].st \notin Hopeless
         /\ slot[n].st \notin Unstarted
<1>1. Unhurt(Here, n) /\ Here.slot = slot
  BY HereNear DEF Actor, Rising, Orderly
<1> QED BY <1>1 DEF Actor, Solid, Unhurt, AtWork, Underway, Hopeless, Unstarted

LEMMA ActsSolid ==
  ASSUME NEW n, Actor(n), NEW m, Acts(m, n), NEW d \in Node, Solid(Here, d)
  PROVE  Solid(m, d)
<1>1. Here.slot = slot
  BY HereNear DEF Actor, Rising
<1>2. CASE d = n
  BY <1>1, <1>2, ActorSolid DEF Acts, Fits, Solid
<1>3. CASE d # n
  <2>1. m.slot[d] = slot[d]
    BY <1>3 DEF Acts
  <2> QED BY <1>1, <2>1 DEF Solid
<1> QED BY <1>2, <1>3

LEMMA ActsQuiet ==
  ASSUME NEW n, Actor(n), NEW m, Acts(m, n)
  PROVE  Quiet(Here, m) /\ Turn(m)
<1>1. Here.slot = slot /\ Here.ahead = ahead
  BY HereNear DEF Actor, Rising
<1>2. slot[n].st # "Waiting"
  BY ActorSolid DEF Unstarted
<1>3. m.ahead = ahead /\ (\A d \in Node : d # n => m.slot[d] = slot[d]) /\ Fits(n, m.slot[n])
  BY DEF Acts
<1> QED BY <1>1, <1>2, <1>3 DEF Fits, Turn, Quiet, QuietSlot

(* What holds of the other nodes still holds.                              *)
LEMMA ActsOthers ==
  ASSUME NEW n, Actor(n), NEW m, Acts(m, n)
  PROVE  /\ Unarmed(m) /\ m.scope.st # "Planned" /\ Admits(m)
         /\ \A d \in Node : d # n => Unhurt(m, d)
         /\ \A d \in Node : slot[d].st \in Underway => NeedsReady(m, d)
<1>1. /\ Here.slot = slot /\ Here.body = body /\ Here.scope = scope /\ plan \in Plans
      /\ Orderly(Here)
  BY HereNear DEF Actor, Rising, TypeOK
<1>2. m.scope = scope
  BY DEF Acts
<1>3. Unarmed(m) /\ m.scope.st # "Planned"
  BY <1>1, <1>2 DEF Orderly, Unarmed, Actor, Admits
<1>4. ASSUME NEW d \in Node, d # n PROVE Unhurt(m, d)
  <2>1. m.slot[d] = slot[d] /\ m.body[d] = body[d]
    BY <1>4 DEF Acts
  <2>2. Unhurt(Here, d)
    BY <1>1 DEF Orderly
  <2> QED BY <1>1, <2>1, <2>2 DEF Unhurt
<1>5. ASSUME NEW d \in Node, slot[d].st \in Underway PROVE NeedsReady(m, d)
  <2>1. \A e \in Decl(d).needs : e \in Node /\ Solid(Here, e)
    BY <1>1, <1>5, NeedsSolid, NeedsNodes DEF Orderly, Grounded
  <2>2. \A e \in Decl(d).needs : Solid(m, e)
    BY <2>1, ActsSolid
  <2> QED BY <2>2, NeedsSolid
<1> QED BY <1>3, <1>4, <1>5, ActsAdmits

(* n goes on, is ready, or is over.                                        *)
Stays(x, n) ==
  /\ Acts(x, n) /\ x.report.faults = report.faults
  /\ x.slot[n].st \in {"Pending", "Backoff", "RetryRelease", "Ready", "Finished"}
  /\ IsService(n) /\ x.slot[n].st \in {"Ready", "Finished"} => x.slot[n].initialized

LEMMA StaysGiven ==
  ASSUME NEW n, Actor(n), NEW x, Stays(x, n)
  PROVE  Given(x)
<1>1. /\ Here.slot = slot /\ Here.report = report /\ plan \in Plans /\ n \in Node
      /\ Orderly(Here)
  BY HereNear DEF Actor, Rising, TypeOK
<1>2. Acts(x, n) /\ Typed(x) /\ (\A d \in Node : d # n => x.slot[d] = slot[d])
  BY DEF Stays, Acts
<1>3. /\ Unarmed(x) /\ x.scope.st # "Planned" /\ Admits(x)
      /\ \A d \in Node : d # n => Unhurt(x, d)
      /\ \A d \in Node : slot[d].st \in Underway => NeedsReady(x, d)
  BY <1>2, ActsOthers
<1>4. /\ slot[n].st \in Underway /\ slot[n].st \notin Hopeless
  BY ActorSolid
<1>5. x.slot[n].st \notin Hopeless /\ x.slot[n].st \notin {"Running", "Skipped"}
  BY DEF Stays, Hopeless
<1>6. Unhurt(x, n)
  BY <1>2 DEF Stays, Acts, Fits, Unhurt, Underway, Unstarted
<1>7. Blameless(x)
  BY <1>1, <1>2, <1>5 DEF Stays, Orderly, Blameless
<1>8. Answered(x)
  <2> SUFFICES ASSUME NEW d \in Node, x.slot[d].st = "Skipped"
               PROVE  \E e \in Decl(d).needs : x.slot[e].st \in Hopeless
    BY DEF Answered
  <2>1. slot[d].st = "Skipped"
    BY <1>2, <1>5
  <2>2. PICK e \in Decl(d).needs : slot[e].st \in Hopeless
    BY <1>1, <2>1 DEF Orderly, Answered
  <2>3. e \in Node /\ e # n
    BY <1>1, <1>4, <2>2, NeedsNodes
  <2> QED BY <1>2, <2>2, <2>3
<1>9. Grounded(x)
  BY <1>2, <1>3, <1>4 DEF Grounded
<1>10. Hopeful(x)
  <2> SUFFICES ASSUME NEW d \in Node, x.slot[d].st \in Unstarted,
                      NEW e \in Decl(d).needs, ~ Solid(x, e)
               PROVE  x.slot[e].st \notin Hopeless
    BY DEF Hopeful, Hoped
  <2>1. CASE d = n
    <3>1. NeedsReady(x, d)
      BY <1>3, <1>4, <2>1
    <3> QED BY <3>1, NeedsSolid
  <2>2. CASE d # n
    <3>1. e \in Node /\ ~ Solid(Here, e) /\ slot[d].st \in Unstarted
      BY <1>1, <1>2, <2>2, ActsSolid, NeedsNodes
    <3>2. slot[e].st \notin Hopeless
      BY <1>1, <3>1 DEF Orderly, Hopeful, Hoped
    <3> QED BY <1>2, <1>5, <3>1, <3>2
  <2> QED BY <2>1, <2>2
<1>11. \A d \in Node : Unhurt(x, d)
  BY <1>3, <1>6
<1>12. Orderly(x)
  BY <1>3, <1>7, <1>8, <1>9, <1>10, <1>11 DEF Orderly, Unbegun
<1>13. Turn(x)
  BY <1>2, ActsQuiet
<1> QED BY <1>2, <1>3, <1>12, <1>13 DEF Given

(* A settle empties the queue.                                             *)
LEMMA SettleGiven ==
  ASSUME NEW m, Typed(m), Admits(m),
         NEW cause \in {"Fault", "Cancel", "Shutdown", "Finite", "Terminal"}
  PROVE  Given(Settle(m, cause)) /\ ~ Up(Settle(m, cause)) /\ Unqueued(Settle(m, cause))
<1> DEFINE f == Abort(FlushFaults(m, CutShort(m)), Dropped(m))
           x == [f EXCEPT !.scope.st = "Settling", !.scope.cause = cause,
                          !.scope.budget = plan.bounded,
                          !.slot = [n \in Node |-> SettledSlot(f, n)],
                          !.ahead = [n \in Node |-> {}]]
<1>1. CutShort(m) \in SUBSET Node /\ Dropped(m) \in SUBSET Node
  BY DEF CutShort, Dropped, In
<1>2. Typed(f)
  BY <1>1, FlushFaultsTyped, AbortTyped
<1>3. Settle(m, cause) = x
  BY DEF Settle
<1>4. Typed(Settle(m, cause))
  BY SettleTyped
<1> HIDE DEF f
<1>5. x.scope.st = "Settling" /\ \A n \in Node : x.slot[n] = SettledSlot(f, n)
  BY <1>2 DEF Typed, State, Scope
<1> HIDE DEF x
<1>6. ~ Up(x) /\ Unqueued(x)
  BY <1>2, <1>5, SettledSlotQuiet DEF Up, Unqueued
<1> QED BY <1>3, <1>4, <1>6 DEF Given

(* What skipping the dependents does, node by node.                        *)
LEMMA SkipIs ==
  ASSUME NEW m, Typed(m), NEW n \in Node
  PROVE  LET x == SkipDependents(m, n)
             S == SkippedBy(m, n)
         IN /\ Typed(x) /\ Quiet(m, x) /\ x.scope = m.scope /\ x.body = m.body
            /\ \A d \in Node :
                 /\ x.slot[d].st = IF d \in S THEN "Skipped" ELSE m.slot[d].st
                 /\ x.slot[d].initialized = m.slot[d].initialized
                 /\ x.slot[d].attempt = m.slot[d].attempt
                 /\ x.slot[d].publishing = m.slot[d].publishing
                 /\ d \notin S => x.slot[d] = m.slot[d]
<1> DEFINE S == SkippedBy(m, n)
           f == FlushFaults(m, S)
           cleared(d) == [m.slot[d] EXCEPT !.parked = {}, !.ambiguity = {}]
           skipped(d) == [f.slot[d] EXCEPT !.st = "Skipped"]
           x == SkipDependents(m, n)
<1>1. S \in SUBSET Node
  BY DEF SkippedBy
<1>2. Typed(x) /\ Quiet(m, x)
  BY SkipDependentsTyped, SkipDependentsQuiet
<1>3. Typed(f)
  BY <1>1, FlushFaultsTyped
<1>4. /\ x.body = f.body /\ x.scope = f.scope
      /\ \A d \in Node : x.slot[d] = IF d \in S THEN skipped(d) ELSE f.slot[d]
  <2> HIDE DEF S
  <2> QED BY <1>3 DEF SkipDependents, Typed, State, S
<1> HIDE DEF skipped, x
<1>5. /\ f.body = m.body /\ f.scope = m.scope
      /\ \A d \in Node : f.slot[d] = IF d \in S THEN cleared(d) ELSE m.slot[d]
  <2> HIDE DEF S
  <2> QED BY DEF FlushFaults, Typed, State
<1> HIDE DEF f, S
<1>6. ASSUME NEW d \in Node, d \in S
      PROVE  /\ x.slot[d].st = "Skipped" /\ x.slot[d].initialized = m.slot[d].initialized
             /\ x.slot[d].attempt = m.slot[d].attempt
             /\ x.slot[d].publishing = m.slot[d].publishing
  <2>1. m.slot[d] \in Slot /\ f.slot[d] \in Slot
    BY <1>3, SlotTyped
  <2>2. f.slot[d] = cleared(d) /\ x.slot[d] = skipped(d)
    BY <1>4, <1>5, <1>6
  <2>3. /\ cleared(d).initialized = m.slot[d].initialized
        /\ cleared(d).attempt = m.slot[d].attempt
        /\ cleared(d).publishing = m.slot[d].publishing
    BY <2>1 DEF Slot
  <2> HIDE DEF cleared
  <2>4. /\ skipped(d).st = "Skipped" /\ skipped(d).initialized = f.slot[d].initialized
        /\ skipped(d).attempt = f.slot[d].attempt
        /\ skipped(d).publishing = f.slot[d].publishing
    BY <2>1 DEF Slot, skipped
  <2> QED BY <2>2, <2>3, <2>4
<1>7. \A d \in Node : d \notin S => x.slot[d] = m.slot[d]
  BY <1>4, <1>5
<1> QED BY <1>2, <1>4, <1>5, <1>6, <1>7 DEF x, S

(* Under Isolate: a node that failed, and whoever waited for it.           *)
LEMMA SkipGiven ==
  ASSUME NEW n, Actor(n), NEW m, Acts(m, n), m.slot[n].st \in {"Failed", "Ambiguous"},
         plan.policy # "FailFast"
  PROVE  Given(SkipDependents(m, n))
<1> DEFINE S == SkippedBy(m, n)
           x == SkipDependents(m, n)
<1>1. /\ Here.slot = slot /\ plan \in Plans /\ n \in Node /\ Orderly(Here)
      /\ Typed(m) /\ Admits(m)
  BY ActsAdmits, HereNear DEF Actor, Rising, TypeOK
<1>2. /\ Unarmed(m) /\ m.scope.st # "Planned"
      /\ \A d \in Node : d # n => Unhurt(m, d) /\ m.slot[d] = slot[d]
      /\ \A d \in Node : slot[d].st \in Underway => NeedsReady(m, d)
  BY ActsOthers DEF Acts
<1>3. S \in SUBSET Node /\ Reach(m, n, S) = S
  BY <1>1, SkippedReach
<1>4. \A d \in S : d # n /\ m.slot[d].st \in Unstarted
  BY <1>3 DEF Reach, Unstarted
<1>5. /\ Typed(x) /\ Quiet(m, x) /\ x.scope = m.scope /\ x.body = m.body
      /\ \A d \in Node :
           /\ x.slot[d].st = IF d \in S THEN "Skipped" ELSE m.slot[d].st
           /\ x.slot[d].initialized = m.slot[d].initialized
           /\ x.slot[d].attempt = m.slot[d].attempt
           /\ x.slot[d].publishing = m.slot[d].publishing
           /\ d \notin S => x.slot[d] = m.slot[d]
  BY <1>1, SkipIs
<1> HIDE DEF x, S
<1>6. n \notin S /\ x.slot[n] = m.slot[n] /\ x.slot[n].st \in Hopeless
  BY <1>1, <1>4, <1>5 DEF Hopeless
<1>7. ASSUME NEW d \in Node PROVE Unhurt(x, d)
  <2>1. CASE d \in S
    <3>1. Unhurt(m, d)
      BY <1>2, <1>4, <2>1
    <3> QED BY <1>4, <1>5, <2>1, <3>1 DEF Unhurt, Unstarted
  <2>2. CASE d = n
    BY <1>6, <2>2 DEF Unhurt, Underway, Acts, Fits
  <2>3. CASE d \notin S /\ d # n
    <3>1. Unhurt(m, d) /\ x.slot[d] = m.slot[d] /\ x.body[d] = m.body[d]
      BY <1>2, <1>5, <2>3
    <3> QED BY <3>1 DEF Unhurt
  <2> QED BY <2>1, <2>2, <2>3
<1>8. Answered(x)
  <2> SUFFICES ASSUME NEW d \in Node, x.slot[d].st = "Skipped"
               PROVE  \E e \in Decl(d).needs : x.slot[e].st \in Hopeless
    BY DEF Answered
  <2>1. CASE d \in S
    <3>1. PICK e \in Decl(d).needs : e = n \/ e \in S
      BY <1>3, <2>1 DEF Reach
    <3>2. x.slot[e].st \in Hopeless
      BY <1>3, <1>5, <1>6, <3>1 DEF Hopeless
    <3> QED BY <3>2
  <2>2. CASE d \notin S
    <3>1. d # n /\ slot[d].st = "Skipped"
      BY <1>2, <1>5, <1>6, <2>2
    <3>2. PICK e \in Decl(d).needs : slot[e].st \in Hopeless
      BY <1>1, <3>1 DEF Orderly, Answered
    <3>3. e \in Node /\ e # n
      BY <1>1, <3>2, ActorSolid, NeedsNodes
    <3>4. m.slot[e].st \in Hopeless
      BY <1>2, <3>2, <3>3
    <3>5. e \notin S
      BY <1>4, <3>4 DEF Hopeless, Unstarted
    <3> QED BY <1>5, <3>3, <3>4, <3>5
  <2> QED BY <2>1, <2>2
<1>9. \A d \in Node : Solid(m, d) => Solid(x, d)
  BY <1>4, <1>5 DEF Solid, Unstarted
<1>10. Grounded(x)
  <2> SUFFICES ASSUME NEW d \in Node, x.slot[d].st \in Underway PROVE NeedsReady(x, d)
    BY DEF Grounded
  <2>1. d \notin S
    BY <1>5 DEF Underway
  <2>2. slot[d].st \in Underway
    BY <1>2, <1>5, <2>1, ActorSolid
  <2>3. \A e \in Decl(d).needs : e \in Node /\ Solid(m, e)
    BY <1>1, <1>2, <2>2, NeedsSolid, NeedsNodes
  <2> QED BY <1>9, <2>3, NeedsSolid
<1>11. Hopeful(x)
  <2> SUFFICES ASSUME NEW d \in Node, x.slot[d].st \in Unstarted,
                      NEW e \in Decl(d).needs, ~ Solid(x, e)
               PROVE  x.slot[e].st \notin Hopeless
    BY DEF Hopeful, Hoped
  <2>1. d \notin S /\ d # n
    BY <1>5, <1>6 DEF Unstarted, Hopeless
  <2>2. m.slot[d].st \in Unstarted /\ slot[d].st \in Unstarted
    BY <1>2, <1>5, <2>1
  <2>3. e \in Node /\ e # n /\ e \notin S
    BY <1>1, <1>3, <2>1, <2>2, NeedsNodes DEF Reach
  <2>4. ~ Solid(Here, e)
    BY <1>9, <2>3, ActsSolid
  <2>5. slot[e].st \notin Hopeless
    BY <1>1, <2>2, <2>4 DEF Orderly, Hopeful, Hoped
  <2> QED BY <1>2, <1>5, <2>3, <2>5
<1>12. Orderly(x)
  BY <1>2, <1>5, <1>7, <1>8, <1>10, <1>11 DEF Orderly, Unarmed, Unbegun, Blameless
<1>13. Turn(x)
  <2>1. Quiet(Here, m) /\ Turn(m)
    BY ActsQuiet
  <2>2. Quiet(Here, x)
    BY <1>5, <2>1, QuietTrans
  <2>3. \A d \in Node : /\ slot[d].st = "Waiting" => x.slot[d].st \in {"Waiting", "Skipped"}
                        /\ x.slot[d].attempt = slot[d].attempt
    BY <1>5, <2>1 DEF Turn
  <2> QED BY <2>2, <2>3 DEF Turn
<1>14. Admits(x)
  BY <1>1, <1>5 DEF Admits
<1> QED BY <1>5, <1>12, <1>13, <1>14 DEF Given, x

LEMMA FlushOne ==
  ASSUME NEW m, Typed(m), NEW n \in Node
  PROVE  LET x == FlushFaults(m, {n}) IN
         /\ Typed(x) /\ x.scope = m.scope /\ x.ahead = m.ahead /\ x.body = m.body
         /\ x.slot = [m.slot EXCEPT ![n] = [m.slot[n] EXCEPT !.parked = {}, !.ambiguity = {}]]
<1> DEFINE S == {n}
<1>1. S \in SUBSET Node /\ \A d \in Node : d \in S <=> d = n
  OBVIOUS
<1>2. Typed(FlushFaults(m, S))
  BY <1>1, FlushFaultsTyped
<1> HIDE DEF S
<1>3. /\ FlushFaults(m, S).scope = m.scope /\ FlushFaults(m, S).ahead = m.ahead
      /\ FlushFaults(m, S).body = m.body
  BY DEF FlushFaults, Typed, State
<1>4. FlushFaults(m, S).slot =
        [m.slot EXCEPT ![n] = [m.slot[n] EXCEPT !.parked = {}, !.ambiguity = {}]]
  BY <1>1 DEF FlushFaults, Typed, State
<1> QED BY <1>2, <1>3, <1>4 DEF S

(* The node failed, or its outcome is unknown: the policy applies.         *)
LEMMA PolicyGiven ==
  ASSUME NEW n, Actor(n), NEW m, Acts(m, n), m.slot[n].st \in {"Failed", "Ambiguous"}
  PROVE  Given(ApplyPolicy(m, n))
<1> DEFINE f == FlushFaults(m, {n})
           s == [m.slot[n] EXCEPT !.parked = {}, !.ambiguity = {}]
<1>1. n \in Node /\ Typed(m) /\ m.slot[n] \in Slot
  BY ActsAdmits DEF Actor
<1>2. ApplyPolicy(m, n) = IF plan.policy = "FailFast" THEN Settle(f, "Fault")
                          ELSE SkipDependents(f, n)
  BY DEF ApplyPolicy
<1>3. /\ Typed(f) /\ f.scope = m.scope /\ f.ahead = m.ahead /\ f.body = m.body
      /\ f.slot = [m.slot EXCEPT ![n] = s]
  BY <1>1, FlushOne
<1> HIDE DEF f
<1>4. /\ s.st = m.slot[n].st /\ s.attempt = m.slot[n].attempt
      /\ s.granted = m.slot[n].granted /\ s.initialized = m.slot[n].initialized
      /\ s.publishing = m.slot[n].publishing
  BY <1>1 DEF Slot
<1> HIDE DEF s
<1>5. f.slot[n] = s /\ \A d \in Node : d # n => f.slot[d] = m.slot[d]
  BY <1>1, <1>3 DEF Typed, State
<1>6. Acts(f, n)
  BY <1>3, <1>4, <1>5 DEF Acts, Fits
<1>7. f.slot[n].st \in {"Failed", "Ambiguous"} /\ Typed(f) /\ Admits(f)
  BY <1>4, <1>5, <1>6, ActsAdmits
<1> QED BY <1>2, <1>6, <1>7, SkipGiven, SettleGiven

-----------------------------------------------------------------------------
(* What the stages of a handler do to the slot of its node.                *)

(* t is s, but for the records and timers of the attempt.                  *)
Kin(s, t) ==
  /\ t.st = s.st /\ t.attempt = s.attempt /\ t.granted = s.granted /\ t.held = s.held
  /\ t.initialized = s.initialized /\ t.publishing = s.publishing /\ t.timingOut = s.timingOut

(* The stage leads from m to x.                                            *)
Leads(m, x, n) ==
  Acts(x, n) /\ Kin(m.slot[n], x.slot[n]) /\ x.report.faults = m.report.faults

LEMMA ActsSlot ==
  ASSUME NEW n \in Node, NEW m, Acts(m, n), NEW s \in Slot, s.st \in StatesOf(n), Fits(n, s)
  PROVE  LET x == [m EXCEPT !.slot[n] = s] IN
         Acts(x, n) /\ x.slot[n] = s /\ x.report = m.report /\ x.body = m.body
<1> DEFINE x == [m EXCEPT !.slot[n] = s]
<1>1. Typed(m) /\ Typed(x)
  BY OneSlot DEF Acts
<1>2. /\ x.scope = m.scope /\ x.ahead = m.ahead /\ x.body = m.body /\ x.report = m.report
      /\ x.slot[n] = s /\ \A d \in Node : d # n => x.slot[d] = m.slot[d]
  BY <1>1 DEF Typed, State
<1> HIDE DEF x
<1>3. Acts(x, n)
  BY <1>1, <1>2 DEF Acts
<1> QED BY <1>2, <1>3 DEF x

LEMMA ActsSame ==
  ASSUME NEW n \in Node, NEW m, Acts(m, n), NEW x, Typed(x), x.scope = m.scope,
         x.ahead = m.ahead, x.report.faults = m.report.faults,
         \A d \in Node : d # n => x.slot[d] = m.slot[d] /\ x.body[d] = m.body[d],
         Kin(m.slot[n], x.slot[n])
  PROVE  Leads(m, x, n)
<1>1. Fits(n, x.slot[n])
  BY DEF Acts, Fits, Kin
<1>2. /\ \A d \in Node : d # n => x.slot[d] = slot[d]
      /\ \A d \in Node : d # n => x.body[d] = body[d]
  BY DEF Acts
<1> QED BY <1>1, <1>2 DEF Leads, Acts

LEMMA TaskEndsActs ==
  ASSUME NEW n \in Node, NEW m, Acts(m, n)
  PROVE  Leads(m, TaskEnds(m, n), n) /\ TaskEnds(m, n).slot = m.slot
<1> DEFINE x == TaskEnds(m, n)
<1>1. Typed(m) /\ Typed(x)
  BY TaskEndsTyped DEF Acts
<1>2. /\ x.scope = m.scope /\ x.ahead = m.ahead /\ x.report = m.report /\ x.slot = m.slot
      /\ \A d \in Node : d # n => x.body[d] = m.body[d]
  BY <1>1 DEF TaskEnds, Typed, State
<1> HIDE DEF x
<1>3. Leads(m, x, n)
  BY <1>1, <1>2, ActsSame DEF Kin
<1> QED BY <1>2, <1>3 DEF x

LEMMA CleanupFailsActs ==
  ASSUME NEW n \in Node, NEW m, Acts(m, n)
  PROVE  Leads(m, CleanupFails(m, n), n) /\ CleanupFails(m, n).slot = m.slot
<1> DEFINE x == CleanupFails(m, n)
<1>1. Typed(m) /\ Typed(x)
  BY CleanupFailsTyped DEF Acts
<1>2. /\ x.scope = m.scope /\ x.ahead = m.ahead /\ x.report.faults = m.report.faults
      /\ x.slot = m.slot /\ x.body = m.body
  BY <1>1 DEF CleanupFails, Typed, State, Report
<1> HIDE DEF x
<1>3. Leads(m, x, n)
  BY <1>1, <1>2, ActsSame DEF Kin
<1> QED BY <1>2, <1>3 DEF x

LEMMA SpawnActs ==
  ASSUME NEW n \in Node, NEW m, Acts(m, n), NEW phase \in {"run", "serve", "cleanup"},
         phase = "serve" => IsService(n)
  PROVE  Leads(m, Spawn(m, {n}, phase), n) /\ Spawn(m, {n}, phase).slot = m.slot
<1> DEFINE S == {n}
           x == Spawn(m, S, phase)
<1>0. S \in SUBSET Node /\ (\A d \in Node : d \in S <=> d = n)
  OBVIOUS
<1> HIDE DEF S
<1>1. Typed(m) /\ Typed(x)
  BY <1>0, SpawnTyped DEF Acts
<1>2. /\ x.scope = m.scope /\ x.ahead = m.ahead /\ x.report = m.report /\ x.slot = m.slot
      /\ \A d \in Node : d # n => x.body[d] = m.body[d]
  BY <1>0, <1>1 DEF Spawn, Typed, State
<1> HIDE DEF x
<1>3. Leads(m, x, n)
  BY <1>1, <1>2, ActsSame DEF Kin
<1> QED BY <1>2, <1>3 DEF x, S

LEMMA ParkFaultActs ==
  ASSUME NEW n \in Node, NEW m, Acts(m, n), NEW k \in Nat
  PROVE  Leads(m, ParkFault(m, n, k), n)
<1> DEFINE x == ParkFault(m, n, k)
           t == [m.slot[n] EXCEPT !.parked = @ \cup {k}]
<1>1. Typed(m) /\ Typed(x) /\ m.slot[n] \in Slot
  BY ParkFaultTyped, SlotTyped DEF Acts
<1>2. /\ x.scope = m.scope /\ x.ahead = m.ahead /\ x.report = m.report /\ x.body = m.body
      /\ x.slot[n] = t /\ \A d \in Node : d # n => x.slot[d] = m.slot[d]
  BY <1>1 DEF ParkFault, Typed, State
<1>3. Kin(m.slot[n], t)
  BY <1>1 DEF Kin, Slot
<1> HIDE DEF x, t
<1>4. Leads(m, x, n)
  BY <1>1, <1>2, <1>3, ActsSame
<1> QED BY <1>4 DEF x

LEMMA AbsorbActs ==
  ASSUME NEW n \in Node, NEW m, Acts(m, n)
  PROVE  Leads(m, Absorb(m, {n}), n)
<1> DEFINE S == {n}
           x == Absorb(m, S)
           t == [m.slot[n] EXCEPT !.parked = {}]
<1>0. S \in SUBSET Node /\ (\A d \in Node : d \in S <=> d = n)
  OBVIOUS
<1> HIDE DEF S
<1>1. Typed(m) /\ Typed(x) /\ m.slot[n] \in Slot
  BY <1>0, AbsorbTyped, SlotTyped DEF Acts
<1>2. /\ x.scope = m.scope /\ x.ahead = m.ahead /\ x.report = m.report /\ x.body = m.body
      /\ x.slot[n] = t /\ \A d \in Node : d # n => x.slot[d] = m.slot[d]
  BY <1>0, <1>1 DEF Absorb, Typed, State
<1>3. Kin(m.slot[n], t)
  BY <1>1 DEF Kin, Slot
<1> HIDE DEF x, t
<1>4. Leads(m, x, n)
  BY <1>1, <1>2, <1>3, ActsSame
<1> QED BY <1>4 DEF x, S

-----------------------------------------------------------------------------
(* The handlers.                                                           *)

(* What a handler may leave to the tail.                                   *)
LEMMA FailedGiven ==
  ASSUME NEW n, Actor(n), NEW m, Acts(m, n)
  PROVE  Given(NodeFailed(m, n))
<1> DEFINE s == [m.slot[n] EXCEPT !.st = "Failed"]
           f == [m EXCEPT !.slot[n] = s]
<1>1. n \in Node /\ Typed(m) /\ m.slot[n] \in Slot
  BY ActsAdmits DEF Actor
<1>2. s \in Slot /\ s.st = "Failed" /\ s.st \in StatesOf(n) /\ Fits(n, s)
  <2>1. Fits(n, m.slot[n])
    BY DEF Acts
  <2> QED BY <1>1, <2>1, CommonStates DEF Slot, NodeStates, Fits
<1>3. [m EXCEPT !.slot[n].st = "Failed"] = f
  BY <1>1 DEF Typed, State
<1> HIDE DEF s
<1>4. Acts(f, n) /\ f.slot[n] = s
  BY <1>1, <1>2, ActsSlot
<1> HIDE DEF f
<1>5. Given(ApplyPolicy(f, n))
  BY <1>2, <1>4, PolicyGiven
<1> QED BY <1>3, <1>5 DEF NodeFailed

LEMMA BackoffGiven ==
  ASSUME NEW n, Actor(n), NEW m, Acts(m, n), m.report.faults = report.faults,
         "Backoff" \in StatesOf(n)
  PROVE  Given(Backoff(m, n))
<1> DEFINE p == [m.slot[n] EXCEPT !.st = "Pending"]
           b == [m.slot[n] EXCEPT !.st = "Backoff", !.timer = "Backoff"]
           x == [m EXCEPT !.slot[n] = p]
           y == [m EXCEPT !.slot[n] = b]
<1>1. n \in Node /\ Typed(m) /\ m.slot[n] \in Slot
  BY ActsAdmits DEF Actor
<1>2. /\ p \in Slot /\ p.st = "Pending" /\ p.st \in StatesOf(n) /\ Fits(n, p)
      /\ b \in Slot /\ b.st = "Backoff" /\ b.st \in StatesOf(n) /\ Fits(n, b)
  <2>1. Fits(n, m.slot[n])
    BY DEF Acts
  <2> QED BY <1>1, <2>1, CommonStates DEF Slot, NodeStates, Fits
<1>3. Backoff(m, n) = IF Decl(n).zeroWait THEN x ELSE y
  <2>1. /\ [m EXCEPT !.slot[n].st = "Pending"] = x
        /\ [m EXCEPT !.slot[n].st = "Backoff", !.slot[n].timer = "Backoff"] = y
    BY <1>1 DEF Typed, State
  <2> HIDE DEF x, y
  <2> QED BY <2>1 DEF Backoff
<1> HIDE DEF p, b
<1>4. /\ Acts(x, n) /\ x.slot[n] = p /\ x.report = m.report
      /\ Acts(y, n) /\ y.slot[n] = b /\ y.report = m.report
  BY <1>1, <1>2, ActsSlot
<1> HIDE DEF x, y
<1>5. Stays(x, n) /\ Stays(y, n)
  BY <1>2, <1>4 DEF Stays
<1> QED BY <1>3, <1>5, StaysGiven

LEMMA FailedAttemptGiven ==
  ASSUME NEW n, Actor(n), NEW m, Acts(m, n), m.report.faults = report.faults,
         "Backoff" \in StatesOf(n)
  PROVE  Given(AfterFailedAttempt(m, n))
<1> DEFINE s == [m.slot[n] EXCEPT !.granted = FALSE, !.timer = "none",
                    !.cancelling = FALSE, !.timingOut = FALSE, !.timedOut = FALSE]
           f == [m EXCEPT !.slot[n] = s]
           r == [f.slot[n] EXCEPT !.st = "RetryRelease"]
           g == [f EXCEPT !.slot[n] = r]
<1>1. n \in Node /\ Typed(m) /\ m.slot[n] \in Slot /\ m.slot[n].st \in StatesOf(n)
  BY ActsAdmits DEF Actor
<1>2. s \in Slot /\ s.st \in StatesOf(n) /\ Fits(n, s)
  <2>1. Fits(n, m.slot[n])
    BY DEF Acts
  <2> QED BY <1>1, <2>1 DEF Slot, Fits
<1>3. \/ AfterFailedAttempt(m, n) = NodeFailed(f, n)
      \/ AfterFailedAttempt(m, n) = Backoff(f, n)
      \/ CanOwe(n) /\ AfterFailedAttempt(m, n) = Spawn(g, {n}, "cleanup")
  BY <1>1 DEF AfterFailedAttempt, Typed, State
<1> HIDE DEF s, r
<1>4. Acts(f, n) /\ f.slot[n] = s /\ f.report = m.report
  BY <1>1, <1>2, ActsSlot
<1> HIDE DEF f
<1>5. Given(NodeFailed(f, n)) /\ Given(Backoff(f, n))
  BY <1>4, FailedGiven, BackoffGiven
<1>6. ASSUME CanOwe(n) PROVE Given(Spawn(g, {n}, "cleanup"))
  <2>2. "RetryRelease" \in StatesOf(n)
    BY <1>1, <1>6, KindStates DEF CanOwe, Typed
  <2>3. r \in Slot /\ r.st = "RetryRelease" /\ r.st \in StatesOf(n) /\ Fits(n, r)
    <3>1. Fits(n, f.slot[n]) /\ f.slot[n] \in Slot
      BY <1>2, <1>4
    <3> QED BY <2>2, <3>1 DEF r, Slot, NodeStates, Fits
  <2>4. Acts(g, n) /\ g.slot[n] = r /\ g.report = f.report
    BY <1>1, <1>4, <2>3, ActsSlot
  <2> HIDE DEF g
  <2> DEFINE x == Spawn(g, {n}, "cleanup")
  <2>5. Leads(g, x, n) /\ x.slot = g.slot
    BY <1>1, <2>4, SpawnActs
  <2> HIDE DEF x
  <2>6. Stays(x, n)
    BY <1>4, <2>3, <2>4, <2>5 DEF Stays, Leads
  <2>7. Given(x)
    BY <2>6, StaysGiven
  <2> QED BY <2>7 DEF x
<1> QED BY <1>3, <1>5, <1>6

LEMMA FailAttemptGiven ==
  ASSUME NEW n, Actor(n), NEW m, Acts(m, n), m.report.faults = report.faults,
         "Backoff" \in StatesOf(n)
  PROVE  Given(FailAttempt(m, n))
<1> DEFINE p == ParkFault(m, n, m.slot[n].attempt)
<1>1. n \in Node /\ m.slot[n].attempt \in Nat
  BY ActsAdmits DEF Actor
<1>2. Leads(m, p, n)
  BY <1>1, ParkFaultActs
<1> HIDE DEF p
<1>3. Given(AfterFailedAttempt(p, n))
  BY <1>2, FailedAttemptGiven DEF Leads
<1> QED BY <1>3 DEF FailAttempt, p

(* A body cut short for its deadline.                                      *)
LEMMA InterruptedGiven ==
  ASSUME NEW n, Actor(n), NEW m, Acts(m, n), m.report.faults = report.faults,
         "Backoff" \in StatesOf(n), m.slot[n].timingOut
  PROVE  Given(FinishInterrupted(m, n))
<1> DEFINE s == m.slot[n]
           t == [s EXCEPT !.timer = "none", !.cancelling = FALSE,
                   !.timingOut = FALSE, !.signalled = s.timingOut /\ s.signalled]
           j == [m EXCEPT !.slot[n] = t]
           u == [t EXCEPT !.granted = FALSE]
           g == [m EXCEPT !.slot[n] = u]
           b == BecomeAmbiguous(g, n)
           v == [u EXCEPT !.st = "Ambiguous", !.ambiguity = {u.attempt}]
           a == ParkFault(b, n, s.attempt)
           unknown == Decl(n).kind = "Effect" /\ ~ s.held
<1>1. n \in Node /\ Typed(m) /\ s \in Slot /\ s.st \in StatesOf(n) /\ s.attempt \in Nat
      /\ Fits(n, s)
  BY ActsAdmits DEF Actor, Acts
<1>2. t \in Slot /\ t.st \in StatesOf(n) /\ Fits(n, t)
  <2> HIDE DEF s
  <2> QED BY <1>1 DEF Slot, Fits
<1>3. u \in Slot /\ u.st \in StatesOf(n) /\ Fits(n, u)
  <2> HIDE DEF t
  <2> QED BY <1>2 DEF Slot, Fits
<1>4. \/ unknown /\ FinishInterrupted(m, n) \in {Backoff(a, n), ApplyPolicy(a, n)}
      \/ FinishInterrupted(m, n) = FailAttempt(j, n)
  <2>1. [m EXCEPT !.slot[n] = [@ EXCEPT !.timer = "none", !.cancelling = FALSE,
              !.timingOut = FALSE, !.signalled = s.timingOut /\ s.signalled]] = j
    BY <1>1 DEF Typed, State
  <2>2. [j EXCEPT !.slot[n].granted = FALSE] = g
    <3> HIDE DEF t
    <3> QED BY <1>1 DEF Typed, State
  <2> QED BY <2>1, <2>2 DEF FinishInterrupted
<1>5. Acts(j, n) /\ j.report = m.report /\ Acts(g, n) /\ g.slot[n] = u /\ g.report = m.report
  <2> HIDE DEF t, u
  <2> QED BY <1>1, <1>2, <1>3, ActsSlot
<1> HIDE DEF j, g
<1>6. Given(FailAttempt(j, n))
  BY <1>5, FailAttemptGiven
<1>7. ASSUME unknown PROVE Given(Backoff(a, n)) /\ Given(ApplyPolicy(a, n))
  <2>1. "Ambiguous" \in StatesOf(n)
    BY <1>1, <1>7, KindStates DEF Typed
  <2>2. v \in Slot /\ v.st = "Ambiguous" /\ Fits(n, v)
    <3> HIDE DEF u
    <3>1. u.attempt \in Nat
      BY <1>3, Counters
    <3> QED BY <1>3, <3>1 DEF Slot, NodeStates, Fits
  <2>3. Typed(g) /\ Typed(b)
    BY <1>1, <1>5, <2>1, BecomeAmbiguousTyped DEF Acts
  <2>4. /\ b.scope = g.scope /\ b.ahead = g.ahead /\ b.body = g.body /\ b.report = g.report
        /\ b.slot[n] = v /\ \A d \in Node : d # n => b.slot[d] = g.slot[d]
    <3> HIDE DEF u
    <3> QED BY <1>1, <1>5, <2>3 DEF BecomeAmbiguous, Typed, State
  <2> HIDE DEF b, v
  <2>5. Acts(b, n)
    BY <1>5, <2>2, <2>3, <2>4 DEF Acts
  <2>6. Leads(b, a, n)
    BY <1>1, <2>5, ParkFaultActs
  <2> HIDE DEF a
  <2>7. Acts(a, n) /\ a.slot[n].st = "Ambiguous" /\ a.report.faults = report.faults
    BY <1>5, <2>2, <2>4, <2>6 DEF Leads, Kin
  <2> QED BY <2>7, BackoffGiven, PolicyGiven
<1> HIDE DEF a
<1> QED BY <1>4, <1>6, <1>7

LEMMA ReadyGiven ==
  ASSUME NEW n, Actor(n), NEW m, Acts(m, n), m.report.faults = report.faults
  PROVE  Given(MakeReady(m, n))
<1> DEFINE a == Absorb(m, {n})
           keeps == IsService(n) /\ m.slot[n].granted
           serves == IsService(n)
           s == [a.slot[n] EXCEPT !.st = "Ready", !.timer = "none", !.cancelling = FALSE,
                             !.timingOut = FALSE, !.ambiguity = {},
                             !.initialized = serves,
                             !.granted = keeps]
           c == [a EXCEPT !.slot[n] = s]
           r == [c EXCEPT !.due.ambiguous = {x \in @ : x[1] # n}]
<1>1. n \in Node
  BY DEF Actor
<1>2. MakeReady(m, n) = IF IsService(n) THEN Spawn(r, {n}, "serve") ELSE r
  BY DEF MakeReady
<1>3. keeps \in BOOLEAN /\ serves \in BOOLEAN /\ (keeps => m.slot[n].granted)
  BY DEF IsService
<1>4. Leads(m, a, n)
  BY <1>1, AbsorbActs
<1> HIDE DEF a, keeps
<1>5. Acts(a, n) /\ a.report.faults = report.faults /\ a.slot[n].granted = m.slot[n].granted
      /\ a.slot[n] \in Slot /\ Fits(n, a.slot[n])
  BY <1>1, <1>4, SlotTyped DEF Leads, Kin, Acts
<1>6. s \in Slot /\ s.st = "Ready" /\ s.initialized = serves /\ Fits(n, s)
  <2> HIDE DEF serves
  <2> DEFINE b == [a.slot[n] EXCEPT !.st = "Ready", !.timer = "none", !.cancelling = FALSE]
             d == [b EXCEPT !.timingOut = FALSE, !.ambiguity = {}]
  <2>1. b \in Slot /\ b.st = "Ready" /\ b.publishing = a.slot[n].publishing
        /\ b.attempt = a.slot[n].attempt
    BY <1>5 DEF Slot, NodeStates
  <2>2. s = [d EXCEPT !.initialized = serves, !.granted = keeps]
    OBVIOUS
  <2> HIDE DEF b, s
  <2>3. d \in Slot /\ d.st = "Ready" /\ d.publishing = b.publishing /\ d.attempt = b.attempt
    BY <2>1 DEF Slot
  <2> HIDE DEF d
  <2>4. s \in Slot /\ s.st = d.st /\ s.granted = keeps /\ s.publishing = d.publishing
        /\ s.initialized = serves /\ s.attempt = d.attempt
    BY <2>2, <2>3, <1>3 DEF Slot
  <2>5. (keeps => slot[n].granted)
    BY <1>3, <1>5 DEF Fits
  <2> QED BY <1>5, <2>1, <2>3, <2>4, <2>5 DEF Fits, serves
<1>7. s.st \in StatesOf(n)
  BY <1>1, <1>6, CommonStates
<1> HIDE DEF s
<1>8. Acts(c, n) /\ c.slot[n] = s /\ c.report = a.report
  BY <1>1, <1>5, <1>6, <1>7, ActsSlot
<1> HIDE DEF c
<1>9. Acts(r, n) /\ r.slot = c.slot /\ r.report = c.report
  <2>1. Typed(c)
    BY <1>8 DEF Acts
  <2>2. Typed(r)
    BY <2>1 DEF Typed, State, Due
  <2>3. /\ r.slot = c.slot /\ r.ahead = c.ahead /\ r.body = c.body /\ r.scope = c.scope
        /\ r.report = c.report
    BY <2>1 DEF Typed, State
  <2> HIDE DEF r
  <2> QED BY <1>8, <2>2, <2>3 DEF Acts
<1> HIDE DEF r
<1>10. Stays(r, n)
  BY <1>5, <1>6, <1>8, <1>9 DEF Stays, serves
<1>11. IsService(n) => Stays(Spawn(r, {n}, "serve"), n)
  <2> DEFINE x == Spawn(r, {n}, "serve")
  <2>1. IsService(n) => Leads(r, x, n) /\ x.slot = r.slot
    BY <1>1, <1>9, SpawnActs
  <2> HIDE DEF x
  <2>2. IsService(n) => Stays(x, n)
    BY <1>10, <2>1 DEF Stays, Leads
  <2> QED BY <2>2 DEF x
<1> QED BY <1>2, <1>10, <1>11, StaysGiven

-----------------------------------------------------------------------------
(* What a pass makes of the queue.                                         *)

LEMMA EnqueueOrderly ==
  ASSUME NEW m, Typed(m), Orderly(m)
  PROVE  LET q == Enqueue(m) IN
         /\ Orderly(q)
         /\ \A n \in Node : /\ q.slot[n].st = "Waiting" => NeedsReady(q, n)
                            /\ q.slot[n].st = "Pending" => ~ NeedsReady(q, n)
<1> DEFINE q == Enqueue(m)
<1>1. /\ Typed(q) /\ q.body = m.body /\ q.report = m.report
      /\ q.scope.st = "Admitting" /\ q.scope.budget = m.scope.budget
      /\ q.scope.zero = m.scope.zero /\ q.scope.spent = m.scope.spent
      /\ \A n \in Node :
           /\ q.slot[n] = [m.slot[n] EXCEPT !.st = q.slot[n].st]
           /\ q.slot[n].st = IF n \in Lost(m) THEN "Pending"
                             ELSE IF n \in Joiners(m) THEN "Waiting" ELSE m.slot[n].st
  BY EnqueueIs
<1> HIDE DEF q
<1>2. plan \in Plans
  BY DEF Typed
<1>3. ASSUME NEW n \in Node PROVE Decl(n).needs \subseteq Node
  BY <1>2, NeedsNodes
<1>4. ASSUME NEW n \in Node
      PROVE  /\ q.slot[n].initialized = m.slot[n].initialized
             /\ q.slot[n].publishing = m.slot[n].publishing
             /\ q.slot[n].signalled = m.slot[n].signalled
             /\ q.slot[n].cancelling = m.slot[n].cancelling
             /\ q.slot[n].timingOut = m.slot[n].timingOut
  <2>1. m.slot[n] \in Slot
    BY SlotTyped
  <2>2. q.slot[n] = [m.slot[n] EXCEPT !.st = q.slot[n].st]
    BY <1>1
  <2> QED BY <2>1, <2>2 DEF Slot
<1>5. ASSUME NEW n \in Node
      PROVE  \/ q.slot[n].st = m.slot[n].st
             \/ q.slot[n].st \in Unstarted /\ m.slot[n].st \in Unstarted
  BY <1>1 DEF Lost, Joiners, In, Unstarted
<1>6. \A d \in Node : Solid(q, d) <=> Solid(m, d)
  BY <1>4, <1>5 DEF Solid, Unstarted
<1>7. \A n \in Node : NeedsReady(q, n) <=> NeedsReady(m, n)
  BY <1>3, <1>6, NeedsSolid
<1>8. ASSUME NEW n \in Node PROVE Unhurt(q, n)
  <2>1. Unhurt(m, n)
    BY DEF Orderly
  <2> QED BY <1>1, <1>4, <1>5, <2>1 DEF Unhurt, Unstarted
<1>9. Unarmed(q) /\ Unbegun(q) /\ Blameless(q)
  BY <1>1, <1>5 DEF Orderly, Unarmed, Unbegun, Blameless, Unstarted, Hopeless
<1>10. Answered(q)
  <2> SUFFICES ASSUME NEW n \in Node, q.slot[n].st = "Skipped"
               PROVE  \E d \in Decl(n).needs : q.slot[d].st \in Hopeless
    BY DEF Answered
  <2>1. m.slot[n].st = "Skipped"
    BY <1>5 DEF Unstarted
  <2>2. PICK d \in Decl(n).needs : m.slot[d].st \in Hopeless
    BY <2>1 DEF Orderly, Answered
  <2>3. q.slot[d].st \in Hopeless
    BY <1>3, <1>5, <2>2 DEF Unstarted, Hopeless
  <2> QED BY <2>3
<1>11. Grounded(q)
  <2> SUFFICES ASSUME NEW n \in Node, q.slot[n].st \in Underway PROVE NeedsReady(q, n)
    BY DEF Grounded
  <2>1. m.slot[n].st \in Underway
    BY <1>5 DEF Unstarted, Underway
  <2> QED BY <1>7, <2>1 DEF Orderly, Grounded
<1>12. Hopeful(q)
  <2> SUFFICES ASSUME NEW n \in Node, q.slot[n].st \in Unstarted,
                      NEW d \in Decl(n).needs, ~ Solid(q, d)
               PROVE  q.slot[d].st \notin Hopeless
    BY DEF Hopeful, Hoped
  <2>1. m.slot[n].st \in Unstarted /\ d \in Node
    BY <1>3, <1>5
  <2>2. m.slot[d].st \notin Hopeless
    BY <1>6, <2>1 DEF Orderly, Hopeful, Hoped
  <2> QED BY <1>5, <2>1, <2>2 DEF Unstarted, Hopeless
<1>13. ASSUME NEW n \in Node
       PROVE  /\ q.slot[n].st = "Waiting" => NeedsReady(q, n)
              /\ q.slot[n].st = "Pending" => ~ NeedsReady(q, n)
  BY <1>1, <1>7 DEF Lost, Joiners, In
<1> QED BY <1>8, <1>9, <1>10, <1>11, <1>12, <1>13 DEF Orderly, q

LEMMA StartIs ==
  ASSUME NEW q, Typed(q), NEW G \in SUBSET In(q, {"Waiting"})
  PROVE  LET x == Start(q, G) IN
         /\ Typed(x) /\ x.scope = q.scope /\ x.report = q.report
         /\ \A n \in Node \ G : /\ x.slot[n] = q.slot[n] /\ x.body[n] = q.body[n]
                                /\ x.ahead[n] = q.ahead[n] \ G
         /\ \A n \in G :
              /\ x.slot[n].st \in {"Ready", "Publishing", "Running"}
              /\ x.slot[n].st = "Ready" => IsService(n) /\ q.slot[n].initialized
              /\ x.slot[n].st = "Running" =>
                   ~ x.slot[n].signalled /\ ~ x.slot[n].cancelling /\ ~ x.body[n].aborted
              /\ x.slot[n].initialized = q.slot[n].initialized
              /\ x.slot[n].publishing => x.slot[n].st = "Publishing" \/ q.slot[n].publishing
              /\ x.slot[n].granted \/ Decl(n).kind = "Join"
<1> DEFINE x == Start(q, G)
           recovered == {n \in G : IsService(n) /\ q.slot[n].initialized}
           spawned   == {n \in G \ recovered : Decl(n).kind # "Join"}
           slots  == [n \in Node |-> IF n \in G THEN StartedSlot(q, n) ELSE q.slot[n]]
           aheads == [n \in Node |-> IF n \in G THEN {} ELSE q.ahead[n] \ G]
           s == [q EXCEPT !.slot = slots, !.ahead = aheads]
           a == Absorb(s, recovered)
           b == Spawn(a, recovered, "serve")
<1>1. G \in SUBSET Node /\ (\A n \in G : n \in Node)
  BY DEF In
<1>2. x = Spawn(b, spawned, "run")
  BY DEF Start
<1>3. Typed(x)
  BY <1>1, StartTyped
<1>4. ASSUME NEW n \in G
      PROVE  LET t == StartedSlot(q, n) IN
             /\ t \in Slot
             /\ t.st \in {"Ready", "Publishing", "Running"}
             /\ t.st = "Ready" => n \in recovered
             /\ t.st = "Running" => n \in spawned /\ ~ t.signalled /\ ~ t.cancelling
             /\ t.initialized = q.slot[n].initialized
             /\ t.publishing => t.st = "Publishing" \/ q.slot[n].publishing
             /\ t.granted \/ Decl(n).kind = "Join"
  <2> DEFINE t == StartedSlot(q, n)
             c == [q.slot[n] EXCEPT !.granted = TRUE, !.held = FALSE, !.cancelling = FALSE,
                             !.signalled = FALSE, !.timingOut = FALSE, !.timedOut = FALSE]
             r == [c EXCEPT !.st = "Ready"]
             p == [c EXCEPT !.st = "Publishing", !.attempt = @ + 1, !.granted = FALSE,
                            !.publishing = TRUE]
             u == [c EXCEPT !.st = "Running", !.attempt = @ + 1,
                            !.timer = IF Decl(n).within THEN "Within" ELSE @]
  <2>1. q.slot[n] \in Slot /\ t \in Slot
    BY <1>1, SlotTyped, StartedSlotTyped
  <2>2. /\ c \in Slot /\ c.granted /\ c.initialized = q.slot[n].initialized
        /\ ~ c.signalled /\ ~ c.cancelling /\ c.publishing = q.slot[n].publishing
    BY <2>1 DEF Slot
  <2>3. \/ IsService(n) /\ c.initialized /\ t = r
        \/ ~ (IsService(n) /\ c.initialized) /\ Decl(n).kind = "Join" /\ t = p
        \/ ~ (IsService(n) /\ c.initialized) /\ Decl(n).kind # "Join" /\ t = u
    <3> HIDE DEF c
    <3>1. t = CASE IsService(n) /\ c.initialized -> r
                [] Decl(n).kind = "Join" -> p
                [] OTHER -> u
      BY DEF StartedSlot, c
    <3> HIDE DEF t, r, p, u
    <3>2. CASE IsService(n) /\ c.initialized
      BY <3>1, <3>2 DEF IsService
    <3>3. CASE Decl(n).kind = "Join"
      BY <3>1, <3>3 DEF IsService
    <3>4. CASE ~ (IsService(n) /\ c.initialized) /\ Decl(n).kind # "Join"
      BY <3>1, <3>4
    <3> QED BY <3>2, <3>3, <3>4 DEF IsService
  <2> HIDE DEF c, t
  <2>4. /\ r.st = "Ready" /\ r.initialized = c.initialized /\ r.granted = c.granted
        /\ r.publishing = c.publishing
        /\ p.st = "Publishing" /\ p.initialized = c.initialized
        /\ u.st = "Running" /\ u.initialized = c.initialized /\ u.granted = c.granted
        /\ u.publishing = c.publishing /\ u.signalled = c.signalled
        /\ u.cancelling = c.cancelling
    BY <2>2 DEF Slot
  <2> HIDE DEF r, p, u
  <2> QED BY <2>1, <2>2, <2>3, <2>4 DEF t
<1>5. slots \in [Node -> Slot]
  BY <1>4, SlotTyped
<1> HIDE DEF slots, aheads
<1>6. /\ s.slot = slots /\ s.ahead = aheads /\ s.scope = q.scope /\ s.report = q.report
      /\ s.body = q.body
  BY DEF Typed, State
<1> HIDE DEF s
<1>7. /\ a.scope = s.scope /\ a.report = s.report /\ a.ahead = s.ahead /\ a.body = s.body
      /\ \A n \in Node : a.slot[n] = IF n \in recovered THEN [s.slot[n] EXCEPT !.parked = {}]
                                     ELSE s.slot[n]
  BY <1>6 DEF Absorb
<1> HIDE DEF a
<1>8. /\ b.scope = a.scope /\ b.report = a.report /\ b.ahead = a.ahead /\ b.slot = a.slot
      /\ \A n \in Node : b.body[n] = IF n \in recovered
                                     THEN [phase |-> "serve", aborted |-> FALSE]
                                     ELSE a.body[n]
  BY DEF Spawn
<1> HIDE DEF b
<1>9. /\ x.scope = b.scope /\ x.report = b.report /\ x.ahead = b.ahead /\ x.slot = b.slot
      /\ \A n \in Node : x.body[n] = IF n \in spawned
                                     THEN [phase |-> "run", aborted |-> FALSE]
                                     ELSE b.body[n]
  BY <1>2 DEF Spawn
<1>10. recovered \subseteq G /\ spawned \subseteq G
  OBVIOUS
<1> HIDE DEF x, recovered, spawned
<1>11. ASSUME NEW n \in Node \ G
       PROVE  /\ x.slot[n] = q.slot[n] /\ x.body[n] = q.body[n]
              /\ x.ahead[n] = q.ahead[n] \ G
  <2>1. n \notin recovered /\ n \notin spawned /\ n \in Node
    BY <1>10
  <2>2. x.slot[n] = slots[n] /\ x.body[n] = q.body[n] /\ x.ahead[n] = aheads[n]
    BY <1>6, <1>7, <1>8, <1>9, <2>1
  <2> QED BY <2>2 DEF slots, aheads
<1>12. ASSUME NEW n \in G
       PROVE  /\ x.slot[n].st \in {"Ready", "Publishing", "Running"}
              /\ x.slot[n].st = "Ready" => IsService(n) /\ q.slot[n].initialized
              /\ x.slot[n].st = "Running" =>
                   ~ x.slot[n].signalled /\ ~ x.slot[n].cancelling /\ ~ x.body[n].aborted
              /\ x.slot[n].initialized = q.slot[n].initialized
              /\ x.slot[n].publishing => x.slot[n].st = "Publishing" \/ q.slot[n].publishing
              /\ x.slot[n].granted \/ Decl(n).kind = "Join"
  <2> DEFINE t == StartedSlot(q, n)
             z == [t EXCEPT !.parked = {}]
  <2>1. s.slot[n] = t /\ t \in Slot /\ n \in Node
    BY <1>1, <1>4, <1>6 DEF slots
  <2>2. /\ t.st \in {"Ready", "Publishing", "Running"}
        /\ t.st = "Ready" => n \in recovered
        /\ t.st = "Running" => n \in spawned /\ ~ t.signalled /\ ~ t.cancelling
        /\ t.initialized = q.slot[n].initialized
        /\ t.publishing => t.st = "Publishing" \/ q.slot[n].publishing
        /\ t.granted \/ Decl(n).kind = "Join"
    BY <1>4
  <2> HIDE DEF t
  <2>3. /\ z.st = t.st /\ z.signalled = t.signalled /\ z.cancelling = t.cancelling
        /\ z.initialized = t.initialized /\ z.publishing = t.publishing
        /\ z.granted = t.granted
    BY <2>1 DEF Slot
  <2> HIDE DEF z
  <2>4. x.slot[n] = t \/ x.slot[n] = z
    BY <1>7, <1>8, <1>9, <2>1 DEF z
  <2>5. n \in spawned => ~ x.body[n].aborted
    BY <1>9, <2>1
  <2>6. n \in recovered => IsService(n) /\ q.slot[n].initialized
    BY DEF recovered
  <2> QED BY <2>2, <2>3, <2>4, <2>5, <2>6
<1>13. x.scope = q.scope /\ x.report = q.report
  BY <1>6, <1>7, <1>8, <1>9
<1> QED BY <1>3, <1>11, <1>12, <1>13 DEF x

LEMMA StartOrderly ==
  ASSUME NEW q, Typed(q), Orderly(q), NEW G \in SUBSET In(q, {"Waiting"}),
         \A n \in Node : /\ q.slot[n].st = "Waiting" => NeedsReady(q, n)
                         /\ q.slot[n].st = "Pending" => ~ NeedsReady(q, n),
         q.scope.st = "Admitting"
  PROVE  LET x == Start(q, G) IN
         /\ Orderly(x)
         /\ \A n \in Node : x.slot[n].st = "Pending" => ~ NeedsReady(x, n)
<1> DEFINE x == Start(q, G)
<1>1. /\ Typed(x) /\ x.scope = q.scope /\ x.report = q.report
      /\ \A n \in Node \ G : x.slot[n] = q.slot[n] /\ x.body[n] = q.body[n]
      /\ \A n \in G :
           /\ x.slot[n].st \in {"Ready", "Publishing", "Running"}
           /\ x.slot[n].st = "Ready" => IsService(n) /\ q.slot[n].initialized
           /\ x.slot[n].st = "Running" =>
                ~ x.slot[n].signalled /\ ~ x.slot[n].cancelling /\ ~ x.body[n].aborted
           /\ x.slot[n].initialized = q.slot[n].initialized
           /\ x.slot[n].publishing => x.slot[n].st = "Publishing" \/ q.slot[n].publishing
  BY StartIs
<1> HIDE DEF x
<1>2. plan \in Plans /\ \A n \in G : n \in Node /\ q.slot[n].st = "Waiting"
  BY DEF Typed, In
<1>3. ASSUME NEW n \in Node PROVE Decl(n).needs \subseteq Node
  BY <1>2, NeedsNodes
<1>4. \A d \in Node : Solid(x, d) <=> Solid(q, d)
  <2> SUFFICES ASSUME NEW d \in Node PROVE Solid(x, d) <=> Solid(q, d)
    OBVIOUS
  <2>1. CASE d \in G
    BY <1>1, <1>2, <2>1 DEF Solid
  <2>2. CASE d \notin G
    BY <1>1, <2>2 DEF Solid
  <2> QED BY <2>1, <2>2
<1>5. \A n \in Node : NeedsReady(x, n) <=> NeedsReady(q, n)
  BY <1>3, <1>4, NeedsSolid
<1>6. ASSUME NEW n \in Node PROVE Unhurt(x, n)
  <2>1. Unhurt(q, n)
    BY DEF Orderly
  <2>2. CASE n \in G
    BY <1>1, <1>2, <2>1, <2>2 DEF Unhurt, Unstarted, Underway
  <2>3. CASE n \notin G
    <3>1. x.slot[n] = q.slot[n] /\ x.body[n] = q.body[n]
      BY <1>1, <2>3
    <3> QED BY <2>1, <3>1 DEF Unhurt
  <2> QED BY <2>2, <2>3
<1>7. \A n \in Node : x.slot[n].st \in Hopeless <=> q.slot[n].st \in Hopeless
  <2> SUFFICES ASSUME NEW n \in Node
               PROVE  x.slot[n].st \in Hopeless <=> q.slot[n].st \in Hopeless
    OBVIOUS
  <2>1. CASE n \in G
    BY <1>1, <1>2, <2>1 DEF Hopeless
  <2>2. CASE n \notin G
    BY <1>1, <2>2
  <2> QED BY <2>1, <2>2
<1>8. Unarmed(x) /\ Unbegun(x) /\ Blameless(x)
  BY <1>1, <1>7 DEF Orderly, Unarmed, Unbegun, Blameless
<1>9. Answered(x)
  <2> SUFFICES ASSUME NEW n \in Node, x.slot[n].st = "Skipped"
               PROVE  \E d \in Decl(n).needs : x.slot[d].st \in Hopeless
    BY DEF Answered
  <2>1. q.slot[n].st = "Skipped"
    BY <1>1
  <2>2. PICK d \in Decl(n).needs : q.slot[d].st \in Hopeless
    BY <2>1 DEF Orderly, Answered
  <2> QED BY <1>3, <1>7, <2>2
<1>10. Grounded(x)
  <2> SUFFICES ASSUME NEW n \in Node, x.slot[n].st \in Underway PROVE NeedsReady(q, n)
    BY <1>5 DEF Grounded
  <2>1. CASE n \in G
    BY <1>2, <2>1
  <2>2. CASE n \notin G
    BY <1>1, <2>2 DEF Orderly, Grounded
  <2> QED BY <2>1, <2>2
<1>11. Hopeful(x)
  <2> SUFFICES ASSUME NEW n \in Node, x.slot[n].st \in Unstarted,
                      NEW d \in Decl(n).needs, ~ Solid(x, d)
               PROVE  x.slot[d].st \notin Hopeless
    BY DEF Hopeful, Hoped
  <2>1. n \notin G
    BY <1>1 DEF Unstarted
  <2>2. q.slot[n].st \in Unstarted /\ d \in Node /\ ~ Solid(q, d)
    BY <1>1, <1>3, <1>4, <2>1
  <2>3. q.slot[d].st \notin Hopeless
    BY <2>2 DEF Orderly, Hopeful, Hoped
  <2> QED BY <1>7, <2>2, <2>3
<1>12. ASSUME NEW n \in Node, x.slot[n].st = "Pending" PROVE ~ NeedsReady(x, n)
  BY <1>1, <1>5, <1>12
<1> QED BY <1>6, <1>8, <1>9, <1>10, <1>11, <1>12 DEF Orderly, x

-----------------------------------------------------------------------------
(* What the theorems say of the state an event leads to.                   *)

Takes(x, n) ==
  x.slot[n].granted /\
    (~ slot[n].granted \/ (x.body[n].phase = "run" /\ x.slot[n].attempt # slot[n].attempt))

(* NoIdleGrant of x, and NoOvertaking of a step to x.                      *)
Busy(x) ==
  Admits(x) =>
    /\ \A n \in Node : x.slot[n].st = "Pending" => ~ NeedsReady(x, n)
    /\ \A w \in Node : x.slot[w].st = "Waiting" =>
         \/ ~ GrantsAvailable(w, Granted(x))
         \/ \E u \in x.ahead[w] : Contend(u, w)

Fair(x) ==
  \A u, w \in Node :
    /\ slot[u].st = "Waiting" /\ x.slot[u].st = "Waiting" /\ Takes(x, w)
    /\ slot[w].st = "Waiting" => u \in ahead[w]
    => ~ Contend(u, w)

Fares(x) == Typed(x) /\ Admission(x) /\ Busy(x) /\ Fair(x)

Proceeds == plan' = plan /\ Admission(Here') /\ Busy(Here') /\ Fair(Here')

LEMMA BecomeProceeds ==
  ASSUME NEW x, Fares(x), Become(x)
  PROVE  Proceeds
<1>1. Here' = x
  BY DEF Become, Here, Fares, Typed, State
<1> QED BY <1>1 DEF Proceeds, Fares, Become

LEMMA StoppedFares ==
  ASSUME NEW x, Typed(x), ~ Up(x), Unqueued(x)
  PROVE  Fares(x)
BY DEF Fares, Admission, Busy, Fair, Up, Admits, Unqueued

(* A node that declares no grants is in nobody's way.                      *)
LEMMA JoinsDoNotCount ==
  ASSUME plan \in Plans, NEW H \in SUBSET Node, NEW G \in SUBSET Node, NEW w \in Node,
         \A h \in H \ G : Decl(h).kind = "Join", GrantsAvailable(w, G)
  PROVE  GrantsAvailable(w, H)
<1>1. ASSUME NEW h \in H, h \notin G PROVE Wants(h) = {} /\ Decl(h).pool = {}
  <2>1. Decl(h).kind = "Join" /\ h \in Node
    BY <1>1
  <2> QED BY <2>1, PlansAssumption DEF Valid, ValidNode, Decl, Wants
<1>2. \A r \in Decl(w).exclusive : \A h \in H : r \notin Wants(h)
  BY <1>1 DEF GrantsAvailable
<1>3. \A r \in Decl(w).shared : \A h \in H : r \notin Decl(h).exclusive
  BY <1>1 DEF GrantsAvailable, Wants
<1>4. ASSUME NEW p \in Decl(w).pool
      PROVE  Cardinality({h \in H : p \in Decl(h).pool}) < plan.limit[p]
  <2>1. Takers(H, p) \subseteq Takers(G, p)
    BY <1>1 DEF Takers
  <2>2. Cardinality(Takers(H, p)) <= Cardinality(Takers(G, p))
    BY <2>1, MoreTakers
  <2>3. Cardinality(Takers(G, p)) < plan.limit[p]
    BY DEF GrantsAvailable, Takers
  <2>4. p \in Pool
    BY PlanTyped DEF NodeDecl
  <2>5. plan.limit[p] \in Nat
    BY <2>4, PlansAssumption DEF PlanType
  <2>6. Cardinality(Takers(H, p)) < plan.limit[p]
    BY <2>2, <2>3, <2>5, TakersFinite
  <2> QED BY <2>6 DEF Takers
<1> QED BY <1>2, <1>3, <1>4 DEF GrantsAvailable

(* Nobody that waited and still waits is overtaken by a pass.              *)
LEMMA PassFares ==
  ASSUME TypeOK, NEW m, Typed(m), Orderly(m), Turn(m),
         NEW G \in SUBSET In(Enqueue(m), {"Waiting"}), GrantPass(Enqueue(m), G),
         NEW y, Typed(y), Admits(y), y.scope.budget = Start(Enqueue(m), G).scope.budget,
         y.scope.zero = Start(Enqueue(m), G).scope.zero,
         y.scope.spent = Start(Enqueue(m), G).scope.spent,
         y.slot = Start(Enqueue(m), G).slot, y.ahead = Start(Enqueue(m), G).ahead,
         y.body = Start(Enqueue(m), G).body, y.report = Start(Enqueue(m), G).report
  PROVE  Fares(y)
<1> DEFINE q == Enqueue(m)
           x == Start(q, G)
<1>1. /\ Typed(q) /\ q.scope.st = "Admitting"
      /\ \A n \in Node :
           /\ q.slot[n] = [m.slot[n] EXCEPT !.st = q.slot[n].st]
           /\ q.slot[n].st = IF n \in Lost(m) THEN "Pending"
                             ELSE IF n \in Joiners(m) THEN "Waiting" ELSE m.slot[n].st
           /\ q.ahead[n] = IF n \in Queued(m) THEN m.ahead[n] \cap Queued(m)
                           ELSE IF n \in Joiners(m)
                                THEN Queued(m) \cup {u \in Joiners(m) : Preferred(u, n)}
                                ELSE {}
  BY EnqueueIs
<1>2. /\ Orderly(q)
      /\ \A n \in Node : /\ q.slot[n].st = "Waiting" => NeedsReady(q, n)
                         /\ q.slot[n].st = "Pending" => ~ NeedsReady(q, n)
  BY EnqueueOrderly
<1>3. GrantPass(q, G) /\ G \in SUBSET In(q, {"Waiting"}) /\ plan \in Plans
  BY DEF TypeOK
<1>4. /\ y.slot = x.slot /\ y.ahead = x.ahead /\ y.body = x.body /\ y.report = x.report
      /\ y.scope.budget = x.scope.budget /\ y.scope.zero = x.scope.zero
      /\ y.scope.spent = x.scope.spent
  OBVIOUS
<1> HIDE DEF q
<1>5. /\ Orderly(x)
      /\ \A n \in Node : x.slot[n].st = "Pending" => ~ NeedsReady(x, n)
  BY <1>1, <1>2, <1>3, StartOrderly
<1>6. /\ \A n \in Node \ G : /\ x.slot[n] = q.slot[n] /\ x.body[n] = q.body[n]
                             /\ x.ahead[n] = q.ahead[n] \ G
      /\ \A n \in G :
           /\ x.slot[n].st \in {"Ready", "Publishing", "Running"}
           /\ x.slot[n].granted \/ Decl(n).kind = "Join"
  BY <1>1, <1>3, StartIs
<1> HIDE DEF x
<1>7. Orderly(y)
  BY <1>4, <1>5 DEF Orderly, Unarmed, Unbegun, Unhurt, Blameless, Answered, Grounded, NeedsReady,
     Hopeful, Hoped, Solid, Admits
<1>8. G \in SUBSET Node
  BY <1>3 DEF In
<1>9. ASSUME NEW w \in Node, y.slot[w].st = "Waiting"
      PROVE  \/ ~ GrantsAvailable(w, Granted(y))
             \/ \E u \in y.ahead[w] : Contend(u, w)
  <2> DEFINE H == Granted(q) \cup (q.ahead[w] \cap G)
  <2> SUFFICES ASSUME \A u \in q.ahead[w] \ G : ~ Contend(u, w),
                      GrantsAvailable(w, Granted(y))
               PROVE  FALSE
    BY <1>4, <1>6, <1>9
  <2>1. w \notin G /\ q.slot[w].st = "Waiting"
    BY <1>4, <1>6, <1>9
  <2>2. ~ GrantsAvailable(w, H)
    BY <1>3, <2>1 DEF GrantPass, In
  <2>3. H \in SUBSET Node /\ Granted(y) \in SUBSET Node
    BY <1>8 DEF Granted
  <2>4. ASSUME NEW h \in H \ Granted(y) PROVE Decl(h).kind = "Join"
    BY <1>4, <1>6, <2>3, <2>4 DEF Granted
  <2> HIDE DEF H
  <2> QED BY <1>3, <2>2, <2>3, <2>4, JoinsDoNotCount
<1>10. Busy(y)
  BY <1>4, <1>5, <1>9 DEF Busy, NeedsReady
<1>11. ASSUME NEW u \in Node, NEW w \in Node,
              slot[u].st = "Waiting", y.slot[u].st = "Waiting", Takes(y, w),
              slot[w].st = "Waiting" => u \in ahead[w]
       PROVE  ~ Contend(u, w)
  <2>1. Here.slot = slot /\ Here.ahead = ahead /\ Quiet(Here, m)
    BY HereNear DEF Turn
  <2>2. w \in G
    <3> SUFFICES ASSUME w \notin G PROVE FALSE
      OBVIOUS
    <3>1. m.slot[w] \in Slot
      BY SlotTyped
    <3>2. y.slot[w] = [m.slot[w] EXCEPT !.st = q.slot[w].st]
      <4>1. q.slot[w] = [m.slot[w] EXCEPT !.st = q.slot[w].st]
        BY <1>1
      <4>2. y.slot[w] = q.slot[w]
        BY <1>4, <1>6
      <4> QED BY <4>1, <4>2
    <3>3. y.slot[w].granted = m.slot[w].granted /\ y.slot[w].attempt = m.slot[w].attempt
      BY <3>1, <3>2 DEF Slot
    <3>4. (m.slot[w].granted => slot[w].granted) /\ m.slot[w].attempt = slot[w].attempt
      BY <2>1 DEF Turn, Quiet, QuietSlot
    <3> QED BY <1>11, <3>3, <3>4 DEF Takes
  <2>3. u \notin G /\ q.slot[u].st = "Waiting"
    BY <1>4, <1>6, <1>11
  <2>4. u \in Queued(m) /\ m.slot[u].st = "Waiting"
    <3>1. m.slot[u].st \in {"Waiting", "Skipped"}
      BY <1>11 DEF Turn
    <3>2. m.slot[u].st # "Pending"
      BY <3>1
    <3> QED BY <1>1, <2>3, <3>1, <3>2 DEF Queued, Lost, Joiners, In
  <2>5. q.slot[w].st = "Waiting" /\ w \in Queued(m) \cup Joiners(m)
    <3>1. q.slot[w].st = "Waiting"
      BY <1>3, <2>2 DEF In
    <3> QED BY <1>1, <3>1 DEF Queued, Lost, Joiners, In
  <2>6. u \in q.ahead[w]
    <3>1. CASE w \in Queued(m)
      <4>1. m.slot[w].st = "Waiting"
        BY <3>1 DEF Queued, In
      <4>2. slot[w].st = "Waiting"
        BY <2>1, <4>1 DEF Quiet, QuietSlot
      <4>3. u \in m.ahead[w]
        BY <1>11, <2>1, <2>4, <4>1, <4>2 DEF Quiet
      <4> QED BY <1>1, <2>4, <3>1, <4>3
    <3>2. CASE w \notin Queued(m)
      <4>1. w \in Joiners(m)
        BY <2>5, <3>2
      <4> QED BY <1>1, <2>4, <3>2, <4>1
    <3> QED BY <3>1, <3>2
  <2> QED BY <1>3, <2>2, <2>3, <2>5, <2>6 DEF GrantPass, In
<1>12. Fair(y)
  BY <1>11 DEF Fair
<1> QED BY <1>7, <1>10, <1>12 DEF Fares, Admission, Up, Admits

-----------------------------------------------------------------------------
(* The three tails of an event.                                            *)

LEMMA StoppedProceeds ==
  ASSUME NEW m, Typed(m), ~ Up(m), Unqueued(m),
         AfterSettle(m) \/ Become(TryCleanup(m)) \/ Become(m)
  PROVE  Proceeds
<1> DEFINE x == TryCleanup(m)
<1>1. Become(x) \/ Become(m)
  BY DEF AfterSettle, Admits, Up
<1>2. Typed(x) /\ ~ Up(x) /\ Quiet(m, x)
  BY TryCleanupTyped, TryCleanupUp, TryCleanupQuiet
<1> HIDE DEF x
<1>3. Unqueued(x)
  BY <1>2 DEF Quiet, QuietSlot, Unqueued
<1> QED BY <1>1, <1>2, <1>3, StoppedFares, BecomeProceeds

(* Before the release graph opens there is nothing to clean up.            *)
LEMMA NothingToClean ==
  ASSUME NEW m, Admits(m)
  PROVE  TryCleanup(m) = m
BY DEF TryCleanup, Admits

LEMMA GivenProceeds ==
  ASSUME TypeOK, NEW m, Given(m), AfterSettle(m)
  PROVE  Proceeds
<1>1. Typed(m)
  BY DEF Given
<1>2. CASE ~ Up(m) /\ Unqueued(m)
  BY <1>1, <1>2, StoppedProceeds
<1>3. CASE Admits(m) /\ Orderly(m) /\ Turn(m)
  <2> DEFINE q == Enqueue(m)
  <2>1. PICK G \in SUBSET In(q, {"Waiting"}) :
          GrantPass(q, G) /\ Become(TryCleanup(CheckSteady(Start(q, G))))
    BY <1>3 DEF AfterSettle
  <2>2. Typed(q) /\ q.scope.st = "Admitting"
    BY <1>1, EnqueueIs
  <2> DEFINE s == Start(q, G)
             t == [s EXCEPT !.scope.st = "Steady"]
             f == Settle(t, "Finite")
  <2> HIDE DEF q
  <2>3. Typed(s) /\ s.scope = q.scope
    BY <2>2, StartIs
  <2>4. \/ CheckSteady(s) = s \/ CheckSteady(s) = t \/ CheckSteady(s) = f
    BY DEF CheckSteady
  <2>5. Become(TryCleanup(CheckSteady(s)))
    BY <2>1
  <2> HIDE DEF s
  <2>6. /\ Typed(t) /\ t.scope.st = "Steady" /\ t.scope.budget = s.scope.budget
        /\ t.scope.zero = s.scope.zero /\ t.scope.spent = s.scope.spent
        /\ t.slot = s.slot /\ t.ahead = s.ahead /\ t.body = s.body /\ t.report = s.report
    BY <2>3 DEF Typed, State, Scope
  <2> HIDE DEF t
  <2>7. Admits(s) /\ Admits(t)
    BY <2>2, <2>3, <2>6 DEF Admits
  <2>8. Fares(s)
    <3>1. GrantPass(Enqueue(m), G) /\ G \in SUBSET In(Enqueue(m), {"Waiting"})
      BY <2>1 DEF q
    <3>2. s = Start(Enqueue(m), G)
      BY DEF s, q
    <3> QED BY <1>1, <1>3, <2>3, <2>7, <3>1, <3>2, PassFares
  <2>9. Fares(t)
    <3>1. GrantPass(Enqueue(m), G) /\ G \in SUBSET In(Enqueue(m), {"Waiting"})
      BY <2>1 DEF q
    <3>2. s = Start(Enqueue(m), G)
      BY DEF s, q
    <3>3. /\ t.slot = Start(Enqueue(m), G).slot /\ t.ahead = Start(Enqueue(m), G).ahead
          /\ t.body = Start(Enqueue(m), G).body /\ t.report = Start(Enqueue(m), G).report
          /\ t.scope.budget = Start(Enqueue(m), G).scope.budget
          /\ t.scope.zero = Start(Enqueue(m), G).scope.zero
          /\ t.scope.spent = Start(Enqueue(m), G).scope.spent
      BY <2>6, <3>2
    <3> QED BY <1>1, <1>3, <2>6, <2>7, <3>1, <3>3, PassFares
  <2>10. Typed(f) /\ ~ Up(f) /\ Unqueued(f)
    BY <2>6, <2>7, SettleGiven DEF Given
  <2> HIDE DEF f
  <2>11. CASE CheckSteady(s) = s
    BY <2>5, <2>7, <2>8, <2>11, NothingToClean, BecomeProceeds
  <2>12. CASE CheckSteady(s) = t
    BY <2>5, <2>7, <2>9, <2>12, NothingToClean, BecomeProceeds
  <2>13. CASE CheckSteady(s) = f
    <3>1. Become(TryCleanup(f))
      BY <2>5, <2>13
    <3> QED BY <2>10, <3>1, StoppedProceeds
  <2> QED BY <2>4, <2>11, <2>12, <2>13
<1> QED BY <1>2, <1>3 DEF Given

(* Nothing happened that the theorems speak of.                            *)
LEMMA AlikeProceeds ==
  ASSUME Rising, Busy(Here), NEW x, Alike(x), x.scope.st = scope.st, Become(x)
  PROVE  Proceeds
<1>1. /\ Here.slot = slot /\ Here.ahead = ahead /\ Here.scope = scope /\ plan \in Plans
  BY HereNear DEF Rising, TypeOK
<1>2. /\ Typed(x) /\ Up(x) /\ x.ahead = ahead
      /\ \A n \in Node : /\ x.slot[n].st = slot[n].st
                         /\ x.slot[n].initialized = slot[n].initialized
                         /\ x.slot[n].granted = slot[n].granted
                         /\ x.slot[n].attempt = slot[n].attempt
  BY DEF Alike
<1>3. Orderly(x)
  BY AlikeOrderly
<1>4. Granted(x) = Granted(Here)
  BY <1>1, <1>2 DEF Granted
<1>5. \A n \in Node : NeedsReady(x, n) <=> NeedsReady(Here, n)
  BY <1>1, <1>2, NeedsNodes DEF NeedsReady
<1>6. Busy(x)
  BY <1>1, <1>2, <1>4, <1>5 DEF Busy, Admits
<1>7. Fair(x)
  BY <1>2 DEF Fair, Takes
<1>8. Fares(x)
  BY <1>2, <1>3, <1>6, <1>7 DEF Fares, Admission
<1> QED BY <1>8, BecomeProceeds

-----------------------------------------------------------------------------
(* The events.                                                             *)

(* What an event finds: a scope that is up.                                *)
Rises == Rising /\ Busy(Here)

LEMMA BeginProceeds ==
  ASSUME Rises, Begin
  PROVE  Proceeds
<1> DEFINE m == [Here EXCEPT !.scope.st = "Admitting"]
<1>1. /\ TypeOK /\ Typed(Here) /\ Here.slot = slot /\ Here.scope = scope /\ Here.ahead = ahead
      /\ Here.body = body /\ Here.report = report /\ Orderly(Here)
  BY HereNear DEF Rises, Rising
<1>2. /\ Typed(m) /\ m.slot = slot /\ m.ahead = ahead /\ m.body = body /\ m.report = report
      /\ m.scope.st = "Admitting" /\ m.scope.budget = scope.budget
      /\ m.scope.zero = scope.zero /\ m.scope.spent = scope.spent
  BY <1>1 DEF Typed, State, Scope
<1>3. AfterSettle(m)
  BY DEF Begin
<1> HIDE DEF m
<1>4. \A n \in Node : Unhurt(m, n)
  BY <1>1, <1>2 DEF Orderly, Unhurt
<1>5. Alike(m) /\ Admits(m)
  BY <1>2, <1>4 DEF Alike, Up, Admits
<1>6. Given(m)
  BY <1>2, <1>5, AlikeOrderly DEF Rises, Given
<1> QED BY <1>1, <1>3, <1>6, GivenProceeds

LEMMA RequestProceeds ==
  ASSUME Rises, NEW cause \in {"Shutdown", "Cancel"}, Request(cause)
  PROVE  Proceeds
<1> DEFINE m == [Here EXCEPT !.scope.cause = cause]
<1>1. /\ TypeOK /\ Typed(Here) /\ Here.slot = slot /\ Here.scope = scope /\ Orderly(Here)
  BY HereNear DEF Rises, Rising
<1>2. CASE scope.st = "Planned" /\ Become(End(m))
  <2>1. Typed(m) /\ m.slot = slot
    BY <1>1 DEF Typed, State, Scope
  <2> HIDE DEF m
  <2>2. Typed(End(m)) /\ End(m).slot = m.slot /\ End(m).scope.st = "Ended"
    <3>1. Typed(End(m))
      BY <2>1, EndTyped
    <3>2. m \in State
      BY <2>1 DEF Typed
    <3>3. m.scope \in Scope
      BY <3>2 DEF State
    <3>4. End(m).slot = m.slot
      BY <3>2 DEF End, State
    <3>5. End(m).scope = [m.scope EXCEPT !.st = "Ended", !.budget = FALSE, !.zero = FALSE]
      BY <3>2 DEF End, State
    <3>6. End(m).scope.st = "Ended"
      BY <3>3, <3>5 DEF Scope
    <3> QED BY <3>1, <3>4, <3>6
  <2>3. Unqueued(End(m)) /\ ~ Up(End(m))
    BY <1>1, <1>2, <2>1, <2>2 DEF Orderly, Unbegun, Unqueued, Up
  <2> QED BY <1>2, <2>2, <2>3, StoppedProceeds
<1>3. CASE Admits(Here) /\ Become(TryCleanup(Settle(Here, cause)))
  <2>1. Typed(Settle(Here, cause)) /\ ~ Up(Settle(Here, cause))
        /\ Unqueued(Settle(Here, cause))
    BY <1>1, <1>3, SettleGiven DEF Given
  <2> QED BY <1>3, <2>1, StoppedProceeds
<1> QED BY <1>2, <1>3 DEF Request

(* While the scope is up, no node is in a state of the release graph.      *)
LEMMA NotStopped ==
  ASSUME Rises, NEW n \in Node
  PROVE  /\ slot[n].st \notin {"Abandoned", "Stopping", "Releasing", "Compensating"}
         /\ Unhurt(Here, n) /\ Here.slot = slot /\ Here.body = body /\ Here.scope = scope
         /\ ~ scope.budget /\ ~ scope.zero
<1>1. Orderly(Here) /\ Here.slot = slot /\ Here.scope = scope /\ Here.body = body
  BY HereNear DEF Rises, Rising
<1>2. Unhurt(Here, n) /\ Unarmed(Here)
  BY <1>1 DEF Orderly
<1> QED BY <1>1, <1>2 DEF Unhurt, Unarmed, Unstarted, Underway

LEMMA ActorHere ==
  ASSUME Rises, NEW n \in Node,
         slot[n].st \in AtWork \/ (slot[n].st = "Ready" /\ IsService(n))
  PROVE  /\ Actor(n) /\ TypeOK /\ Typed(Here) /\ Here.report = report
         /\ slot[n].st # "Publishing" => Acts(Here, n)
<1>1. /\ Typed(Here) /\ Here.slot = slot /\ Here.scope = scope /\ Here.ahead = ahead
      /\ Here.body = body /\ Here.report = report /\ Orderly(Here) /\ Up(Here) /\ TypeOK
  BY HereNear DEF Rises, Rising
<1>2. scope.st # "Planned"
  BY <1>1 DEF Orderly, Unbegun, AtWork
<1>3. Admits(Here)
  BY <1>1, <1>2 DEF Up, Admits
<1>4. Unhurt(Here, n)
  BY NotStopped
<1>5. slot[n].st # "Waiting"
  BY DEF AtWork
<1>6. slot[n].st # "Publishing" => Acts(Here, n)
  BY <1>1, <1>4, <1>5 DEF Acts, Fits, Unhurt
<1> QED BY <1>1, <1>3, <1>6 DEF Actor, Rises

LEMMA ActsDue ==
  ASSUME NEW n \in Node, NEW m, Acts(m, n), NEW x, Typed(x), x.slot = m.slot,
         x.scope = m.scope, x.ahead = m.ahead, x.body = m.body
  PROVE  Acts(x, n)
BY DEF Acts

(* Only the slot and the task of n changed, and nothing of note.           *)
LEMMA NodeAlike ==
  ASSUME Rises, NEW n \in Node, NEW x, Typed(x), x.scope = scope, x.ahead = ahead,
         x.report.faults = report.faults,
         \A d \in Node : d # n => x.slot[d] = slot[d] /\ x.body[d] = body[d],
         x.slot[n].st = slot[n].st, x.slot[n].initialized = slot[n].initialized,
         x.slot[n].granted = slot[n].granted, x.slot[n].attempt = slot[n].attempt,
         Unhurt(x, n), Become(x)
  PROVE  Proceeds
<1>1. \A d \in Node : Unhurt(Here, d) /\ Here.slot = slot /\ Here.body = body
  BY NotStopped
<1>2. \A d \in Node : Unhurt(x, d)
  BY <1>1 DEF Unhurt
<1>3. Up(x)
  BY HereNear DEF Rises, Rising, Up
<1>4. Alike(x)
  BY <1>2, <1>3 DEF Alike
<1> QED BY <1>4, AlikeProceeds DEF Rises

LEMMA BodyHeldProceeds ==
  ASSUME Rises, NEW n \in Node, BodyHeld(n)
  PROVE  Proceeds
<1> DEFINE s == [slot[n] EXCEPT !.held = TRUE]
           d == IF CanOwe(n) THEN due.held \cup {n} ELSE due.held
           c == [Here EXCEPT !.slot[n] = s]
           m == [c EXCEPT !.due.held = d]
<1>1. /\ TypeOK /\ Typed(Here) /\ slot[n] \in Slot /\ slot[n].st \in StatesOf(n)
      /\ Here.slot = slot /\ Here.scope = scope /\ Here.ahead = ahead /\ Here.body = body
      /\ Here.report = report /\ Here.due = due
  BY HereNear DEF Rises, Rising
<1>2. /\ s \in Slot /\ s.st = slot[n].st /\ s.initialized = slot[n].initialized
      /\ s.granted = slot[n].granted /\ s.attempt = slot[n].attempt
      /\ s.publishing = slot[n].publishing /\ s.signalled = slot[n].signalled
      /\ s.cancelling = slot[n].cancelling /\ s.timingOut = slot[n].timingOut
  BY <1>1 DEF Slot
<1>3. d \in SUBSET Node
  BY <1>1 DEF TypeOK, State, Here, Due
<1>4. Become(m)
  BY <1>1 DEF BodyHeld, Here
<1> HIDE DEF s, d
<1>5. /\ Typed(c) /\ c.scope = scope /\ c.ahead = ahead /\ c.body = body /\ c.report = report
      /\ c.slot[n] = s /\ \A e \in Node : e # n => c.slot[e] = slot[e]
  BY <1>1, <1>2, OneSlot DEF Typed, State
<1> HIDE DEF c
<1>6. /\ Typed(m) /\ m.scope = scope /\ m.ahead = ahead /\ m.body = body /\ m.report = report
      /\ m.slot = c.slot
  BY <1>3, <1>5 DEF Typed, State, Due
<1> HIDE DEF m
<1>7. Unhurt(Here, n)
  BY NotStopped
<1>8. Unhurt(m, n)
  BY <1>1, <1>2, <1>5, <1>6, <1>7 DEF Unhurt
<1> QED BY <1>2, <1>4, <1>5, <1>6, <1>8, NodeAlike

LEMMA BodyReturnsProceeds ==
  ASSUME Rises, NEW n \in Node, NEW ok \in BOOLEAN, BodyReturns(n, ok)
  PROVE  Proceeds
<1> DEFINE m == TaskEnds(Here, n)
<1>1. slot[n].st = "Running" /\ ~ slot[n].signalled
  <2>1. slot[n].st = "Running"
    BY DEF BodyReturns, RunInFlight
  <2> QED BY <2>1, NotStopped DEF Unhurt
<1>2. Actor(n) /\ Acts(Here, n) /\ Here.report = report /\ TypeOK
  BY <1>1, ActorHere DEF AtWork
<1>3. "Backoff" \in StatesOf(n)
  BY <1>1, <1>2, TaskStates
<1>4. Acts(m, n) /\ m.report.faults = report.faults
  BY <1>2, TaskEndsActs DEF Leads
<1>5. \/ AfterSettle(AfterFailedAttempt(m, n))
      \/ AfterSettle(MakeReady(m, n)) \/ AfterSettle(FailAttempt(m, n))
  <2> SUFFICES ASSUME ~ AfterSettle(AfterFailedAttempt(m, n))
               PROVE  AfterSettle(MakeReady(m, n)) \/ AfterSettle(FailAttempt(m, n))
    OBVIOUS
  <2>1. AfterSettle(IF ok THEN MakeReady(m, n) ELSE FailAttempt(m, n))
    BY <1>1 DEF BodyReturns
  <2>2. CASE ok
    BY <2>1, <2>2
  <2>3. CASE ~ ok
    BY <2>1, <2>3
  <2> QED BY <2>2, <2>3
<1> HIDE DEF m
<1>6. Given(AfterFailedAttempt(m, n)) /\ Given(MakeReady(m, n)) /\ Given(FailAttempt(m, n))
  BY <1>2, <1>3, <1>4, FailedAttemptGiven, ReadyGiven, FailAttemptGiven
<1> QED BY <1>2, <1>5, <1>6, GivenProceeds

LEMMA BodyCancelledProceeds ==
  ASSUME Rises, NEW n \in Node, NEW held \in BOOLEAN, BodyCancelled(n, held)
  PROVE  Proceeds
<1> DEFINE h == slot[n].held \/ held
           e == TaskEnds(Here, n)
           s == [e.slot[n] EXCEPT !.held = h]
           d == IF h /\ CanOwe(n) THEN e.due.held \cup {n} ELSE e.due.held
           c == [e EXCEPT !.slot[n] = s]
           m == [c EXCEPT !.due.held = d]
<1>1. slot[n].st = "Running" /\ slot[n].timingOut
  <2>1. slot[n].st = "Running" /\ body[n].aborted
    BY DEF BodyCancelled, RunInFlight
  <2> QED BY <2>1, NotStopped DEF Unhurt
<1>2. Actor(n) /\ Acts(Here, n) /\ Here.report = report /\ TypeOK
  BY <1>1, ActorHere DEF AtWork
<1>3. "Backoff" \in StatesOf(n)
  BY <1>1, <1>2, TaskStates
<1>4. Acts(e, n) /\ e.report.faults = report.faults /\ e.slot = slot /\ Typed(e)
  BY <1>2, TaskEndsActs, HereNear DEF Leads, Acts
<1>5. AfterSettle(FinishInterrupted(m, n))
  BY DEF BodyCancelled
<1> HIDE DEF e
<1>6. h \in BOOLEAN
  OBVIOUS
<1>7. s \in Slot /\ s.st \in StatesOf(n) /\ Fits(n, s) /\ s.timingOut
  <2> HIDE DEF h
  <2>1. e.slot[n] \in Slot /\ e.slot[n].st \in StatesOf(n) /\ Fits(n, e.slot[n])
    BY <1>4, SlotTyped DEF Acts
  <2>2. e.slot[n].timingOut
    BY <1>1, <1>4
  <2> QED BY <1>6, <2>1, <2>2 DEF Slot, Fits
<1>8. d \in SUBSET Node
  BY <1>4 DEF Typed, State, Due
<1> HIDE DEF s, d
<1>9. Acts(c, n) /\ c.slot[n] = s /\ c.report = e.report
  BY <1>4, <1>7, ActsSlot
<1> HIDE DEF c
<1>10. Acts(m, n) /\ m.slot = c.slot /\ m.report = c.report
  <2>1. Typed(c)
    BY <1>9 DEF Acts
  <2>2. /\ Typed(m) /\ m.slot = c.slot /\ m.ahead = c.ahead
        /\ m.body = c.body /\ m.scope = c.scope /\ m.report = c.report
    BY <2>1, <1>8 DEF Typed, State, Due
  <2> HIDE DEF m
  <2> QED BY <1>9, <2>2, ActsDue
<1> HIDE DEF m
<1>11. Given(FinishInterrupted(m, n))
  BY <1>2, <1>3, <1>4, <1>7, <1>9, <1>10, InterruptedGiven
<1> QED BY <1>2, <1>5, <1>11, GivenProceeds

LEMMA AcknowledgedProceeds ==
  ASSUME Rises, NEW n \in Node, NEW ok \in BOOLEAN, Acknowledged(n, ok)
  PROVE  Proceeds
<1> DEFINE s == [slot[n] EXCEPT !.publishing = FALSE]
           m == [Here EXCEPT !.slot[n] = s]
           k == {<<n, slot[n].attempt>>}
           t == [s EXCEPT !.st = "Ready"]
           r == [m EXCEPT !.slot[n] = t]
           f == [m EXCEPT !.report.faults = @ \cup k, !.due.faults = @ \cup k]
<1>1. slot[n].st = "Publishing"
  BY NotStopped DEF Acknowledged, Unhurt
<1>2. Actor(n) /\ Here.report = report /\ TypeOK /\ Typed(Here)
  BY <1>1, ActorHere DEF AtWork
<1>3. /\ slot[n] \in Slot /\ slot[n].st \in StatesOf(n) /\ slot[n].attempt \in Nat
      /\ Here.slot = slot /\ Here.scope = scope /\ Here.ahead = ahead /\ Here.body = body
      /\ plan \in Plans
  BY <1>2, HereNear, Counters DEF TypeOK
<1>4. Decl(n).kind = "Join"
  BY <1>1, <1>3, StatesKind
<1>5. s \in Slot /\ s.st = "Publishing" /\ s.st \in StatesOf(n) /\ Fits(n, s)
  BY <1>1, <1>3 DEF Slot, Fits
<1>6. t \in Slot /\ t.st = "Ready" /\ t.st \in StatesOf(n) /\ Fits(n, t)
  <2> HIDE DEF s
  <2> QED BY <1>5, CommonStates DEF Slot, NodeStates, Fits
<1>7. k \in SUBSET (Node \X Nat)
  BY <1>3
<1>8. AfterSettle(r) \/ AfterSettle(NodeFailed(f, n))
  <2>1. [Here EXCEPT !.slot[n].publishing = FALSE] = m
    BY HereNear DEF Here
  <2>2. [m EXCEPT !.slot[n].st = "Ready"] = r
    <3> HIDE DEF s
    <3> QED BY <1>2 DEF Typed, State
  <2>3. CASE ok
    <3>1. AfterSettle([m EXCEPT !.slot[n].st = "Ready"])
      BY <1>1, <2>1, <2>3 DEF Acknowledged
    <3> QED BY <2>2, <3>1
  <2>4. CASE ~ ok
    <3>1. AfterSettle(NodeFailed(f, n))
      BY <1>1, <2>1, <2>4 DEF Acknowledged
    <3> QED BY <3>1
  <2> QED BY <2>3, <2>4
<1> HIDE DEF s, k
<1>9. Acts(m, n) /\ m.report = report /\ m.slot[n] = s
  <2>1. Typed(m)
    BY <1>2, <1>5, OneSlot
  <2>2. /\ m.slot[n] = s /\ (\A d \in Node : d # n => m.slot[d] = slot[d])
        /\ m.scope = scope /\ m.ahead = ahead /\ m.body = body /\ m.report = report
    BY <1>2, <1>3 DEF Typed, State
  <2> HIDE DEF m
  <2> QED BY <1>5, <2>1, <2>2 DEF Acts
<1> HIDE DEF m, t
<1>10. Given(r)
  <2>1. Acts(r, n) /\ r.slot[n] = t /\ r.report = m.report
    BY <1>6, <1>9, ActsSlot
  <2> HIDE DEF r
  <2>2. Stays(r, n)
    BY <1>4, <1>6, <1>9, <2>1 DEF Stays, IsService
  <2> QED BY <1>2, <2>2, StaysGiven
<1>11. Given(NodeFailed(f, n))
  <2>1. Typed(m)
    BY <1>9 DEF Acts
  <2>2. /\ Typed(f) /\ f.slot = m.slot /\ f.ahead = m.ahead
        /\ f.body = m.body /\ f.scope = m.scope
    BY <2>1, <1>7 DEF Typed, State, Report, Due
  <2> HIDE DEF f
  <2>3. Acts(f, n)
    BY <1>9, <2>2, ActsDue
  <2> QED BY <1>2, <2>3, FailedGiven
<1> QED BY <1>2, <1>8, <1>10, <1>11, GivenProceeds

LEMMA ServingEndsProceeds ==
  ASSUME Rises, NEW n \in Node, NEW ok \in BOOLEAN, ServingEnds(n, ok)
  PROVE  Proceeds
<1> DEFINE e == TaskEnds(Here, n)
           s == [e.slot[n] EXCEPT !.granted = FALSE]
           t == [s EXCEPT !.st = "Finished"]
           m == [e EXCEPT !.slot[n] = s]
           f == [e EXCEPT !.slot[n] = t]
           p == ParkFault(m, n, slot[n].restarts + 1)
           r == [p.slot[n] EXCEPT !.restarts = @ + 1]
           q == [p EXCEPT !.slot[n] = r]
<1>0. slot[n].st = "Ready" /\ IsService(n)
  BY DEF ServingEnds, Rises, Rising, TypeOK
<1>1. Actor(n) /\ Acts(Here, n) /\ Here.report = report /\ TypeOK /\ slot[n] \in Slot
  BY <1>0, ActorHere, HereNear
<1>2. {"Backoff", "Finished"} \subseteq StatesOf(n)
  <2>1. plan \in Plans
    BY <1>1 DEF TypeOK
  <2> QED BY <1>0, <2>1, KindStates DEF IsService
<1>3. Acts(e, n) /\ e.report.faults = report.faults /\ e.slot = slot /\ Typed(e)
  BY <1>1, TaskEndsActs, HereNear DEF Leads, Acts
<1>4. \/ AfterSettle(f) \/ AfterSettle(Settle(f, "Terminal"))
      \/ AfterSettle(Backoff([p EXCEPT !.slot[n].restarts = @ + 1], n))
      \/ AfterSettle(NodeFailed(p, n))
  <2>1. [e EXCEPT !.slot[n].granted = FALSE] = m
    <3> HIDE DEF e
    <3> QED BY <1>3 DEF Typed, State
  <2>2. [m EXCEPT !.slot[n].st = "Finished"] = f
    <3> HIDE DEF e, s
    <3> QED BY <1>3 DEF Typed, State
  <2>3. CASE ok
    <3>1. AfterSettle(IF Decl(n).terminal THEN Settle(f, "Terminal") ELSE f)
      BY <2>1, <2>2, <2>3 DEF ServingEnds
    <3>2. CASE Decl(n).terminal
      BY <3>1, <3>2
    <3>3. CASE ~ Decl(n).terminal
      BY <3>1, <3>3
    <3> QED BY <3>2, <3>3
  <2>4. CASE ~ ok
    <3>1. AfterSettle(IF slot[n].restarts < Decl(n).restarts /\ Admits(m)
                      THEN Backoff([p EXCEPT !.slot[n].restarts = @ + 1], n)
                      ELSE NodeFailed(p, n))
      BY <2>1, <2>4 DEF ServingEnds
    <3>2. CASE slot[n].restarts < Decl(n).restarts /\ Admits(m)
      BY <3>1, <3>2
    <3>3. CASE ~ (slot[n].restarts < Decl(n).restarts /\ Admits(m))
      BY <3>1, <3>3
    <3> QED BY <3>2, <3>3
  <2> QED BY <2>3, <2>4
<1> HIDE DEF e
<1>5. e.slot[n] \in Slot /\ e.slot[n].st \in StatesOf(n) /\ Fits(n, e.slot[n])
  BY <1>3, SlotTyped DEF Acts
<1>6. s \in Slot /\ s.st = e.slot[n].st /\ Fits(n, s) /\ s.initialized = e.slot[n].initialized
  BY <1>5 DEF Slot, Fits
<1>7. t \in Slot /\ t.st = "Finished" /\ Fits(n, t) /\ t.initialized = s.initialized
  <2> HIDE DEF s
  <2> QED BY <1>6 DEF Slot, NodeStates, Fits
<1>8. slot[n].initialized /\ slot[n].restarts + 1 \in Nat
  <2>1. Unhurt(Here, n) /\ Here.slot = slot
    BY NotStopped
  <2> QED BY <1>0, <1>1, <2>1, Counters DEF Unhurt
<1> HIDE DEF s, t
<1>9. /\ Acts(m, n) /\ m.report = e.report
      /\ Acts(f, n) /\ f.slot[n] = t /\ f.report = e.report
  BY <1>2, <1>3, <1>5, <1>6, <1>7, ActsSlot
<1> HIDE DEF m, f
<1>10. Acts(p, n) /\ p.report.faults = report.faults
  <2> DEFINE k == slot[n].restarts + 1
             x == ParkFault(m, n, k)
  <2>1. k \in Nat
    BY <1>8
  <2> HIDE DEF k
  <2>2. Leads(m, x, n)
    BY <1>9, <2>1, ParkFaultActs
  <2> HIDE DEF x
  <2>3. Acts(x, n) /\ x.report.faults = report.faults
    BY <1>3, <1>9, <2>2 DEF Leads
  <2> QED BY <2>3 DEF x, k
<1> HIDE DEF p
<1>11. r \in Slot /\ r.st \in StatesOf(n) /\ Fits(n, r)
  <2>1. p.slot[n] \in Slot /\ p.slot[n].st \in StatesOf(n) /\ Fits(n, p.slot[n])
    BY <1>10, SlotTyped DEF Acts
  <2> QED BY <2>1, Counters DEF Slot, Fits
<1>12. [p EXCEPT !.slot[n].restarts = @ + 1] = q
  BY <1>10 DEF Acts, Typed, State
<1> HIDE DEF r
<1>13. Acts(q, n) /\ q.report = p.report
  BY <1>10, <1>11, ActsSlot
<1> HIDE DEF q
<1>14. Given(Backoff(q, n)) /\ Given(NodeFailed(p, n))
  BY <1>1, <1>2, <1>10, <1>13, BackoffGiven, FailedGiven
<1>15. Given(f)
  <2>1. Stays(f, n)
    BY <1>3, <1>6, <1>7, <1>8, <1>9 DEF Stays
  <2> QED BY <1>1, <2>1, StaysGiven
<1>16. Given(Settle(f, "Terminal"))
  BY <1>1, <1>9, ActsAdmits, SettleGiven
<1> QED BY <1>1, <1>4, <1>12, <1>14, <1>15, <1>16, GivenProceeds

LEMMA RetryReleaseReturnsProceeds ==
  ASSUME Rises, NEW n \in Node, NEW ok \in BOOLEAN, RetryReleaseReturns(n, ok)
  PROVE  Proceeds
<1> DEFINE h == TaskEnds(Here, n)
           s == [h.slot[n] EXCEPT !.held = FALSE]
           c == [h EXCEPT !.slot[n] = s]
           e == [c EXCEPT !.due.held = @ \ {n}]
           m == IF ok THEN e ELSE CleanupFails(e, n)
<1>0. slot[n].st = "RetryRelease"
  BY DEF RetryReleaseReturns
<1>1. Actor(n) /\ Acts(Here, n) /\ Here.report = report /\ TypeOK
  BY <1>0, ActorHere DEF AtWork
<1>2. "Backoff" \in StatesOf(n)
  BY <1>0, <1>1, TaskStates
<1>3. Acts(h, n) /\ h.report.faults = report.faults /\ Typed(h)
  BY <1>1, TaskEndsActs DEF Leads, Acts
<1>4. AfterSettle(IF Admits(m) THEN Backoff(m, n)
                  ELSE FlushFaults([m EXCEPT !.slot[n].st = "Interrupted",
                                             !.slot[n].attempt = @ + 1], {n}))
  <2> DEFINE f == [h EXCEPT !.slot[n].held = FALSE, !.due.held = @ \ {n}]
             l == IF ok THEN f ELSE CleanupFails(f, n)
  <2>1. f = e
    <3> HIDE DEF h
    <3> QED BY <1>3 DEF Typed, State
  <2>2. AfterSettle(IF Admits(l) THEN Backoff(l, n)
                    ELSE FlushFaults([l EXCEPT !.slot[n].st = "Interrupted",
                                               !.slot[n].attempt = @ + 1], {n}))
    BY DEF RetryReleaseReturns
  <2> HIDE DEF e, f, h
  <2>3. l = m
    BY <2>1
  <2> HIDE DEF l, m
  <2> QED BY <2>2, <2>3
<1> HIDE DEF h
<1>5. s \in Slot /\ s.st \in StatesOf(n) /\ Fits(n, s)
  <2>1. h.slot[n] \in Slot /\ h.slot[n].st \in StatesOf(n) /\ Fits(n, h.slot[n])
    BY <1>3, SlotTyped DEF Acts
  <2> QED BY <2>1 DEF Slot, Fits
<1> HIDE DEF s
<1>6. Acts(c, n) /\ c.report = h.report
  BY <1>3, <1>5, ActsSlot
<1> HIDE DEF c
<1>7. Acts(e, n) /\ e.report = c.report
  <2>1. Typed(c)
    BY <1>6 DEF Acts
  <2>2. /\ Typed(e) /\ e.slot = c.slot /\ e.ahead = c.ahead
        /\ e.body = c.body /\ e.scope = c.scope /\ e.report = c.report
    BY <2>1 DEF Typed, State, Due
  <2> HIDE DEF e
  <2> QED BY <1>6, <2>2, ActsDue
<1> HIDE DEF e
<1>8. Acts(m, n) /\ m.report.faults = report.faults
  <2>1. Acts(CleanupFails(e, n), n) /\ CleanupFails(e, n).report.faults = e.report.faults
    BY <1>7, CleanupFailsActs DEF Leads
  <2> QED BY <1>3, <1>6, <1>7, <2>1
<1> HIDE DEF m
<1>9. Admits(m) /\ Given(Backoff(m, n))
  BY <1>1, <1>2, <1>8, ActsAdmits, BackoffGiven
<1>10. AfterSettle(Backoff(m, n))
  BY <1>4, <1>9
<1> QED BY <1>1, <1>9, <1>10, GivenProceeds

LEMMA WithinExpiresProceeds ==
  ASSUME Rises, NEW n \in Node, WithinExpires(n)
  PROVE  Proceeds
<1> DEFINE s == [slot[n] EXCEPT !.timer = "none"]
           m == [Here EXCEPT !.slot[n] = s]
           p == ParkFault(m, n, slot[n].attempt)
           t == [p.slot[n] EXCEPT !.timedOut = TRUE]
           late == [p EXCEPT !.slot[n] = t]
           a == Abort(m, {n})
           u == [a.slot[n] EXCEPT !.cancelling = TRUE, !.timingOut = TRUE]
           cut == [a EXCEPT !.slot[n] = u]
<1>1. /\ TypeOK /\ Typed(Here) /\ slot[n] \in Slot /\ slot[n].st \in StatesOf(n)
      /\ slot[n].attempt \in Nat
      /\ Here.slot = slot /\ Here.scope = scope /\ Here.ahead = ahead /\ Here.body = body
      /\ Here.report = report
  BY HereNear, Counters DEF Rises, Rising
<1>2. \/ Become(m)
      \/ slot[n].st = "Running" /\ Become([p EXCEPT !.slot[n].timedOut = TRUE])
      \/ /\ slot[n].st = "Running"
         /\ Become([a EXCEPT !.slot[n].cancelling = TRUE, !.slot[n].timingOut = TRUE])
  <2>1. [Here EXCEPT !.slot[n].timer = "none"] = m
    BY HereNear DEF Here
  <2>2. CASE slot[n].st # "Running" \/ slot[n].cancelling
    <3>1. Become(m)
      BY <2>1, <2>2 DEF WithinExpires
    <3> QED BY <3>1
  <2>3. CASE ~ (slot[n].st # "Running" \/ slot[n].cancelling)
    <3>1. Become(IF Decl(n).kind = "BlockingStep"
                 THEN [p EXCEPT !.slot[n].timedOut = TRUE]
                 ELSE [a EXCEPT !.slot[n].cancelling = TRUE, !.slot[n].timingOut = TRUE])
      BY <2>1, <2>3 DEF WithinExpires
    <3>2. CASE Decl(n).kind = "BlockingStep"
      BY <2>3, <3>1, <3>2
    <3>3. CASE Decl(n).kind # "BlockingStep"
      BY <2>3, <3>1, <3>3
    <3> QED BY <3>2, <3>3
  <2> QED BY <2>2, <2>3
<1>3. /\ s \in Slot /\ Kin(slot[n], s)
      /\ s.signalled = slot[n].signalled /\ s.cancelling = slot[n].cancelling
  BY <1>1 DEF Slot, Kin
<1> HIDE DEF s
<1>4. /\ Typed(m) /\ m.scope = scope /\ m.ahead = ahead /\ m.body = body /\ m.report = report
      /\ m.slot[n] = s /\ \A e \in Node : e # n => m.slot[e] = slot[e]
  BY <1>1, <1>3, OneSlot DEF Typed, State, Kin
<1> HIDE DEF m
<1>5. Unhurt(Here, n)
  BY NotStopped
<1>6. CASE Become(m)
  <2>1. Unhurt(m, n)
    BY <1>1, <1>3, <1>4, <1>5 DEF Unhurt, Kin
  <2> QED BY <1>3, <1>4, <1>6, <2>1, NodeAlike DEF Kin
<1>7. CASE slot[n].st = "Running" /\ Become([p EXCEPT !.slot[n].timedOut = TRUE])
  <2> DEFINE b == [s EXCEPT !.parked = @ \cup {slot[n].attempt}]
  <2>1. Typed(p)
    BY <1>1, <1>4, ParkFaultTyped
  <2>2. /\ p.scope = scope /\ p.ahead = ahead /\ p.body = body /\ p.report = report
        /\ p.slot[n] = b /\ \A e \in Node : e # n => p.slot[e] = slot[e]
    BY <1>4, <2>1 DEF ParkFault, Typed, State
  <2>3. Kin(s, b) /\ b.signalled = s.signalled /\ b.cancelling = s.cancelling
    BY <1>3 DEF Kin, Slot
  <2> HIDE DEF p, b
  <2>4. [p EXCEPT !.slot[n].timedOut = TRUE] = late
    BY <2>1 DEF Typed, State
  <2>5. p.slot[n] \in Slot /\ p.slot[n].st \in StatesOf(n)
    BY <2>1, SlotTyped
  <2>6. /\ t \in Slot /\ t.st \in StatesOf(n) /\ Kin(p.slot[n], t)
        /\ t.signalled = p.slot[n].signalled /\ t.cancelling = p.slot[n].cancelling
    BY <2>5 DEF Kin, Slot
  <2> HIDE DEF t
  <2>7. /\ Typed(late) /\ late.scope = scope /\ late.ahead = ahead /\ late.body = body
        /\ late.report = report /\ late.slot[n] = t
        /\ \A e \in Node : e # n => late.slot[e] = slot[e]
    BY <2>1, <2>2, <2>6, OneSlot DEF Typed, State
  <2> HIDE DEF late
  <2>8. Kin(slot[n], t) /\ t.signalled = slot[n].signalled /\ t.cancelling = slot[n].cancelling
    BY <1>3, <2>2, <2>3, <2>6 DEF Kin
  <2>9. Unhurt(late, n)
    BY <1>1, <1>5, <2>7, <2>8 DEF Unhurt, Kin
  <2>10. Become(late)
    BY <1>7, <2>4
  <2> QED BY <2>7, <2>8, <2>9, <2>10, NodeAlike DEF Kin
<1>8. CASE /\ slot[n].st = "Running"
           /\ Become([a EXCEPT !.slot[n].cancelling = TRUE, !.slot[n].timingOut = TRUE])
  <2>1. Typed(a)
    BY <1>4, AbortTyped
  <2>2. /\ a.scope = scope /\ a.ahead = ahead /\ a.report = report /\ a.slot = m.slot
        /\ \A e \in Node : e # n => a.body[e] = body[e]
    BY <1>4, <2>1 DEF Abort, Typed, State
  <2> HIDE DEF a
  <2>3. [a EXCEPT !.slot[n].cancelling = TRUE, !.slot[n].timingOut = TRUE] = cut
    BY <2>1 DEF Typed, State
  <2>4. a.slot[n] \in Slot /\ a.slot[n].st \in StatesOf(n)
    BY <2>1, SlotTyped
  <2>5. /\ u \in Slot /\ u.st = a.slot[n].st /\ u.attempt = a.slot[n].attempt
        /\ u.granted = a.slot[n].granted /\ u.initialized = a.slot[n].initialized
        /\ u.publishing = a.slot[n].publishing /\ u.signalled = a.slot[n].signalled
        /\ u.timingOut
    BY <2>4 DEF Slot
  <2> HIDE DEF u
  <2>6. /\ Typed(cut) /\ cut.scope = scope /\ cut.ahead = ahead /\ cut.report = report
        /\ cut.slot[n] = u /\ cut.body = a.body
        /\ \A e \in Node : e # n => cut.slot[e] = slot[e] /\ cut.body[e] = body[e]
    <3>1. Typed(cut)
      BY <2>1, <2>4, <2>5, OneSlot
    <3>2. /\ cut.scope = a.scope /\ cut.ahead = a.ahead /\ cut.report = a.report
          /\ cut.slot[n] = u /\ cut.body = a.body
          /\ \A e \in Node : e # n => cut.slot[e] = a.slot[e]
      BY <2>1 DEF Typed, State
    <3> HIDE DEF cut
    <3> QED BY <1>4, <2>2, <3>1, <3>2
  <2> HIDE DEF cut
  <2>7. Unhurt(cut, n)
    BY <1>1, <1>3, <1>4, <1>5, <1>8, <2>2, <2>5, <2>6 DEF Unhurt, Kin
  <2>8. Become(cut)
    BY <1>8, <2>3
  <2>9. /\ cut.slot[n].st = slot[n].st /\ cut.slot[n].initialized = slot[n].initialized
        /\ cut.slot[n].granted = slot[n].granted /\ cut.slot[n].attempt = slot[n].attempt
    BY <1>3, <1>4, <2>2, <2>5, <2>6 DEF Kin
  <2> QED BY <2>6, <2>7, <2>8, <2>9, NodeAlike
<1> QED BY <1>2, <1>6, <1>7, <1>8

LEMMA GraceExpiresProceeds ==
  ASSUME Rises, NEW n \in Node, GraceExpires(n)
  PROVE  Proceeds
<1> DEFINE a == Abort(Here, {n})
           s == [a.slot[n] EXCEPT !.timer = "none"]
           m == [a EXCEPT !.slot[n] = s]
<1>1. /\ Typed(Here) /\ slot[n] \in Slot /\ slot[n].st \in StatesOf(n)
      /\ Here.slot = slot /\ Here.scope = scope /\ Here.ahead = ahead /\ Here.body = body
      /\ Here.report = report
  BY HereNear DEF Rises, Rising
<1>2. Typed(a)
  BY <1>1, AbortTyped
<1>3. Become(m)
  <2>1. Become([a EXCEPT !.slot[n].timer = "none"])
    BY DEF GraceExpires
  <2> HIDE DEF a
  <2>2. [a EXCEPT !.slot[n].timer = "none"] = m
    BY <1>2 DEF Typed, State
  <2> QED BY <2>1, <2>2
<1>4. /\ a.scope = scope /\ a.ahead = ahead /\ a.report = report /\ a.slot = slot
      /\ \A e \in Node : e # n => a.body[e] = body[e]
  BY <1>1, <1>2 DEF Abort, Typed, State
<1> HIDE DEF a
<1>5. /\ s \in Slot /\ Kin(slot[n], s)
      /\ s.signalled = slot[n].signalled /\ s.cancelling = slot[n].cancelling
  BY <1>1, <1>4 DEF Slot, Kin
<1> HIDE DEF s
<1>6. /\ Typed(m) /\ m.scope = scope /\ m.ahead = ahead /\ m.body = a.body
      /\ m.report = report /\ m.slot[n] = s
      /\ \A e \in Node : e # n => m.slot[e] = slot[e]
  BY <1>1, <1>2, <1>4, <1>5, OneSlot DEF Typed, State, Kin
<1> HIDE DEF m
<1>7. Unhurt(m, n)
  <2>1. Unhurt(Here, n) /\ slot[n].cancelling /\ slot[n].st = "Running"
    BY NotStopped DEF GraceExpires
  <2> QED BY <1>1, <1>5, <1>6, <2>1 DEF Unhurt, Kin
<1>8. \A e \in Node : e # n => m.slot[e] = slot[e] /\ m.body[e] = body[e]
  BY <1>4, <1>6
<1> QED BY <1>3, <1>5, <1>6, <1>7, <1>8, NodeAlike DEF Kin

LEMMA BackoffExpiresProceeds ==
  ASSUME Rises, NEW n \in Node, BackoffExpires(n)
  PROVE  Proceeds
<1> DEFINE s == [slot[n] EXCEPT !.st = "Pending", !.timer = "none"]
           m == [Here EXCEPT !.slot[n] = s]
<1>0. slot[n].st = "Backoff"
  BY DEF BackoffExpires
<1>1. Actor(n) /\ Acts(Here, n) /\ Here.report = report /\ TypeOK /\ slot[n] \in Slot
      /\ Here.slot = slot
  BY <1>0, ActorHere, HereNear DEF AtWork
<1>2. s \in Slot /\ s.st = "Pending" /\ s.st \in StatesOf(n) /\ Fits(n, s)
  <2>1. Fits(n, slot[n]) /\ slot[n] \in Slot
    BY <1>1 DEF Acts
  <2>2. "Pending" \in StatesOf(n)
    BY CommonStates
  <2> QED BY <2>1, <2>2 DEF Slot, NodeStates, Fits
<1>3. AfterSettle(m)
  <2>1. [Here EXCEPT !.slot[n].st = "Pending", !.slot[n].timer = "none"] = m
    BY HereNear, <1>1 DEF Here
  <2> QED BY <2>1 DEF BackoffExpires
<1> HIDE DEF s
<1>4. Acts(m, n) /\ m.slot[n] = s /\ m.report = Here.report
  BY <1>1, <1>2, ActsSlot
<1> HIDE DEF m
<1>5. Stays(m, n)
  BY <1>1, <1>2, <1>4 DEF Stays
<1>6. Given(m)
  BY <1>1, <1>5, StaysGiven
<1> QED BY <1>1, <1>3, <1>6, GivenProceeds

-----------------------------------------------------------------------------
(* The theorems.                                                           *)

LEMMA StepProceeds ==
  ASSUME Rises, [Next]_vars
  PROVE  Proceeds
<1>1. CASE Begin
  BY <1>1, BeginProceeds
<1>2. ASSUME NEW cause \in {"Shutdown", "Cancel"}, Request(cause) PROVE Proceeds
  BY <1>2, RequestProceeds
<1>3. ASSUME NEW n \in Node, Tasks(n) PROVE Proceeds
  <2>1. CASE BodyHeld(n)
    BY <2>1, BodyHeldProceeds
  <2>2. CASE AbandonedTaskEnds(n)
    BY <2>2, NotStopped DEF AbandonedTaskEnds
  <2>3. ASSUME NEW ok \in BOOLEAN,
               BodyReturns(n, ok) \/ BodyCancelled(n, ok) \/ Acknowledged(n, ok)
               \/ ServingEnds(n, ok) \/ RetryReleaseReturns(n, ok)
        PROVE  Proceeds
    BY <2>3, BodyReturnsProceeds, BodyCancelledProceeds, AcknowledgedProceeds,
       ServingEndsProceeds, RetryReleaseReturnsProceeds
  <2>4. ASSUME NEW ok \in BOOLEAN, ServiceStops(n, ok) \/ CleanupReturns(n, ok)
        PROVE  Proceeds
    BY <2>4, NotStopped DEF ServiceStops, CleanupReturns
  <2> QED BY <1>3, <2>1, <2>2, <2>3, <2>4 DEF Tasks
<1>4. ASSUME NEW n \in Node, Timers(n) PROVE Proceeds
  <2>1. ~ StopDeadline(n)
    BY NotStopped DEF StopDeadline
  <2> QED BY <1>4, <2>1, WithinExpiresProceeds, GraceExpiresProceeds, BackoffExpiresProceeds
          DEF Timers
<1>5. ~ BudgetExpires /\ ~ ZeroExpires
  BY HereNear DEF Rises, Rising, Orderly, Unarmed, BudgetExpires, ZeroExpires
<1>6. CASE UNCHANGED vars
  <2>1. Typed(Here) /\ Become(Here) /\ Here.scope = scope /\ Here.slot = slot
        /\ Here.ahead = ahead /\ Here.report = report /\ Up(Here) /\ Orderly(Here)
    BY <1>6, HereNear DEF Rises, Rising, Become, vars
  <2>2. \A n \in Node : Unhurt(Here, n)
    BY <2>1 DEF Orderly
  <2>3. Alike(Here)
    BY <2>1, <2>2 DEF Alike
  <2> QED BY <2>1, <2>3, AlikeProceeds DEF Rises
<1>7. CASE Terminated
  BY <1>6, <1>7 DEF Terminated
<1> QED BY <1>1, <1>2, <1>3, <1>4, <1>5, <1>6, <1>7 DEF Next

Admitted == Admission(Here) /\ Busy(Here)

LEMMA InitAdmitted == Init => Admitted
<1> SUFFICES ASSUME Init PROVE Admitted
  OBVIOUS
<1>1. /\ Here.slot = slot /\ Here.scope = scope /\ Here.report = report /\ Here.body = body
      /\ \A n \in Node : /\ slot[n].st = "Pending" /\ ~ slot[n].initialized
                         /\ ~ slot[n].publishing
      /\ scope.st = "Planned" /\ ~ scope.budget /\ ~ scope.zero /\ ~ scope.spent
      /\ report.faults = {} /\ plan \in Plans
  BY DEF Init, Here
<1>2. ASSUME NEW n \in Node PROVE Unhurt(Here, n)
  BY <1>1 DEF Unhurt, Unstarted
<1>3. Unarmed(Here) /\ Unbegun(Here) /\ Blameless(Here) /\ Answered(Here) /\ Grounded(Here)
  BY <1>1 DEF Unarmed, Unbegun, Blameless, Answered, Grounded, Hopeless, Underway
<1>4. Hopeful(Here)
  BY <1>1, NeedsNodes DEF Hopeful, Hoped, Hopeless
<1>5. ~ Admits(Here) /\ Up(Here)
  BY <1>1 DEF Admits, Up
<1> QED BY <1>2, <1>3, <1>4, <1>5 DEF Admitted, Admission, Orderly, Busy

(* A step from a scope that was stopped lets nobody in, and one from a     *)
(* scope that is up keeps the order.                                       *)
LEMMA StepAdmits ==
  ASSUME TypeOK, HereSafe, Admitted, [Next]_vars
  PROVE  Admitted' /\ Fair(Here')
<1>1. CASE ~ Up(Here)
  <2>1. ~ Up(Here') /\ Quiet(Here, Here')
    BY <1>1, StepKeeps DEF Preserved, Hushed, Onward
  <2>2. Unqueued(Here) /\ Here.slot = slot
    BY <1>1, HereNear DEF Admitted, Admission
  <2>3. \A n \in Node : Here'.slot[n].st # "Waiting"
    BY <2>1, <2>2 DEF Quiet, QuietSlot, Unqueued
  <2>4. ~ Up(Here)' /\ Unqueued(Here)'
    BY <2>1, <2>3 DEF Up, Unqueued
  <2>5. Admitted'
    BY <2>4 DEF Admitted, Admission, Busy, Up, Admits
  <2>6. Fair(Here')
    BY <2>3 DEF Fair
  <2> QED BY <2>5, <2>6
<1>2. CASE Up(Here)
  <2>1. Rises
    BY <1>2 DEF Rises, Rising, Admitted, Admission
  <2>2. plan' = plan /\ Admission(Here') /\ Busy(Here') /\ Fair(Here')
    BY <2>1, StepProceeds DEF Proceeds
  <2>3. \A n : /\ Decl(n)' = Decl(n) /\ IsService(n)' = IsService(n)
               /\ Wants(n)' = Wants(n)
    BY <2>2 DEF Decl, IsService, Wants
  <2>4. \A n : NeedsReady(Here, n)' <=> NeedsReady(Here', n)
    BY <2>3 DEF NeedsReady
  <2>5. Admission(Here)'
    <3>1. CASE Up(Here')
      <4>1. Orderly(Here')
        BY <2>2, <3>1 DEF Admission
      <4>2. Unarmed(Here)' /\ Unbegun(Here)' /\ \A n \in Node : Unhurt(Here, n)'
        BY <2>3, <4>1 DEF Orderly, Unarmed, Unbegun, Unhurt
      <4>3. Blameless(Here)' /\ Answered(Here)'
        BY <2>2, <2>3, <4>1 DEF Orderly, Blameless, Answered
      <4>4. Grounded(Here)'
        BY <2>4, <4>1 DEF Orderly, Grounded
      <4>5. Hopeful(Here)'
        BY <2>3, <4>1 DEF Orderly, Hopeful, Hoped, Solid
      <4>6. Orderly(Here)'
        BY <4>2, <4>3, <4>4, <4>5 DEF Orderly
      <4>7. Up(Here)'
        BY <3>1 DEF Up
      <4> QED BY <4>6, <4>7 DEF Admission
    <3>2. CASE ~ Up(Here')
      BY <2>2, <3>2 DEF Admission, Up, Unqueued
    <3> QED BY <3>1, <3>2
  <2>6. Busy(Here)'
    <3>1. \A w, H : GrantsAvailable(w, H)' <=> GrantsAvailable(w, H)
      BY <2>2, <2>3 DEF GrantsAvailable
    <3>2. \A u, w : Contend(u, w)' <=> Contend(u, w)
      BY <2>3 DEF Contend
    <3>3. Granted(Here)' = Granted(Here')
      BY DEF Granted
    <3> QED BY <2>2, <2>4, <3>1, <3>2, <3>3 DEF Busy, Admits
  <2> QED BY <2>2, <2>5, <2>6 DEF Admitted
<1> QED BY <1>1, <1>2

(* The inductive invariant of the three theorems.                          *)
LEMMA Admittance == Spec => [](TypeOK /\ HereSafe /\ Admitted)
<1>1. Init => TypeOK /\ HereSafe /\ Admitted
  BY InitTyped, InitSafe, InitAdmitted
<1>2. TypeOK /\ HereSafe /\ Admitted /\ [Next]_vars => (TypeOK /\ HereSafe /\ Admitted)'
  BY StepKeeps, StepAdmits DEF Preserved
<1> QED BY <1>1, <1>2, PTL DEF Spec

(* For every number of nodes and every set of valid plans, a waiter always *)
(* has a reason (contract section 2): no handler that frees a grant or     *)
(* settles a need leaves out the pass over the queue, and one pass is      *)
(* enough, since what it serves settles nobody's need and frees nothing.   *)
THEOREM WaitersHaveReasons == Spec => []NoIdleGrant
<1>1. TypeOK /\ HereSafe /\ Admitted => NoIdleGrant
  <2> SUFFICES ASSUME TypeOK, Admitted, Admits(Here) PROVE NoIdleGrant
    BY DEF NoIdleGrant
  <2>1. Here.slot = slot /\ Here.ahead = ahead
    BY HereNear
  <2> QED BY <2>1 DEF Admitted, Busy, NoIdleGrant, In
<1> QED BY <1>1, Admittance, PTL

(* For every number of nodes and every set of valid plans, the policy of   *)
(* the scope holds whenever it admits (T4): under FailFast no fault is in  *)
(* the report, under Isolate who is skipped lost a need and who is not yet *)
(* started, or between two attempts, may still get all of its needs.       *)
THEOREM PolicyIsKept == Spec => []PolicyHolds
<1>1. TypeOK /\ HereSafe /\ Admitted => PolicyHolds
  <2> SUFFICES ASSUME TypeOK, Admitted, Admits(Here) PROVE PolicyHolds
    BY DEF PolicyHolds
  <2>1. /\ Here.slot = slot /\ Here.report = report /\ plan \in Plans
        /\ Up(Here) /\ Orderly(Here)
    BY HereNear DEF Admitted, Admission, Admits, Up, TypeOK
  <2>2. plan.policy = "FailFast" => report.faults = {}
    BY <2>1 DEF Orderly, Blameless
  <2>3. \A n \in In(Here, {"Skipped"}) :
          \E d \in Decl(n).needs : slot[d].st \in {"Failed", "Ambiguous", "Skipped"}
    BY <2>1 DEF Orderly, Answered, In, Hopeless
  <2>4. ASSUME NEW n \in In(Here, Unstarted \cup {"Backoff"}), NEW d \in Decl(n).needs
        PROVE  \/ IsService(d) /\ slot[d].initialized
               \/ slot[d].st \notin {"Failed", "Interrupted", "Ambiguous", "Skipped", "Abandoned"}
    <3>1. n \in Node /\ d \in Node /\ slot[n].st \in Unstarted \cup {"Backoff"}
      BY <2>1, <2>4, NeedsNodes DEF In
    <3>2. Unhurt(Here, d)
      BY <2>1, <3>1 DEF Orderly
    <3>3. CASE slot[n].st \in Unstarted
      <4>1. Solid(Here, d) \/ slot[d].st \notin Hopeless
        BY <2>1, <3>1, <3>3 DEF Orderly, Hopeful, Hoped
      <4> QED BY <2>1, <3>2, <4>1 DEF Solid, Hopeless, Unhurt, Unstarted, Underway
    <3>4. CASE slot[n].st = "Backoff"
      <4>1. NeedsReady(Here, n)
        BY <2>1, <3>1, <3>4 DEF Orderly, Grounded, Underway
      <4> QED BY <2>1, <4>1 DEF NeedsReady
    <3> QED BY <3>1, <3>3, <3>4
  <2> QED BY <2>2, <2>3, <2>4 DEF PolicyHolds
<1> QED BY <1>1, Admittance, PTL

(* For every number of nodes and every set of valid plans, nobody starts   *)
(* past an earlier waiter that stays queued for a grant they both declare  *)
(* (T1): the order of the queue outlives every event, and the pass serves  *)
(* by it.                                                                  *)
THEOREM NobodyIsOvertaken == Spec => NoOvertaking
<1>1. TypeOK /\ HereSafe /\ Admitted /\ [Next]_vars =>
        [\A u, w \in Node :
           /\ slot[u].st = "Waiting" /\ slot'[u].st = "Waiting" /\ TakesGrants(w)
           /\ slot[w].st = "Waiting" => u \in ahead[w]
           => Wants(u) \cap Wants(w) = {} /\ Decl(u).pool \cap Decl(w).pool = {}]_vars
  <2> SUFFICES ASSUME TypeOK, HereSafe, Admitted, [Next]_vars,
                      NEW u \in Node, NEW w \in Node,
                      slot[u].st = "Waiting", slot'[u].st = "Waiting", TakesGrants(w),
                      slot[w].st = "Waiting" => u \in ahead[w]
               PROVE  Wants(u) \cap Wants(w) = {} /\ Decl(u).pool \cap Decl(w).pool = {}
    OBVIOUS
  <2>1. Fair(Here')
    BY StepAdmits
  <2>2. Here'.slot = slot' /\ Here'.body = body'
    BY DEF Here
  <2>3. Takes(Here', w)
    BY <2>2 DEF TakesGrants, StartsAttempt, Takes
  <2>4. ~ Contend(u, w)
    BY <2>1, <2>2, <2>3 DEF Fair
  <2> QED BY <2>4 DEF Contend
<1> QED BY <1>1, Admittance, PTL DEF Spec, NoOvertaking
=============================================================================
