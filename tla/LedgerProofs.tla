---------------------------- MODULE LedgerProofs ----------------------------
(***************************************************************************)
(* Theorems about what the engine owes: nothing is lost at the end, no     *)
(* attempt overlaps its predecessor, no body runs that was not earned.     *)
(* All of them speak of one node at a time, so a stage is described by     *)
(* what it does to the account of each node.                               *)
(***************************************************************************)
EXTENDS MachineProofs

(* The entries a set of records has for one node.                          *)
Of(R, n) == {k \in Nat : <<n, k>> \in R}

(* All the ledger knows of n.                                              *)
Account(m, n) ==
  [slot |-> m.slot[n], phase |-> m.body[n].phase,
   faults |-> Of(m.report.faults, n), ambiguous |-> Of(m.report.ambiguous, n),
   failed |-> n \in m.report.cleanupFailures, left |-> n \in m.report.incomplete,
   dueFaults |-> Of(m.due.faults, n), dueAmbiguous |-> Of(m.due.ambiguous, n),
   owed |-> n \in m.due.held, twice |-> n \in m.due.overlaps]

Accounts ==
  [slot : Slot, phase : {"none", "run", "serve", "cleanup"},
   faults : SUBSET Nat, ambiguous : SUBSET Nat, failed : BOOLEAN, left : BOOLEAN,
   dueFaults : SUBSET Nat, dueAmbiguous : SUBSET Nat, owed : BOOLEAN, twice : BOOLEAN]

LEMMA AccountTyped ==
  ASSUME NEW m, Typed(m), NEW n \in Node
  PROVE  Account(m, n) \in Accounts
<1>1. m.slot[n] \in Slot /\ m.body[n].phase \in {"none", "run", "serve", "cleanup"}
  BY DEF Typed, State, Body
<1> QED BY <1>1 DEF Account, Accounts, Of

(* x differs from m in the account of n only, which is b.                  *)
Edits(m, x, n, b) ==
  /\ x.scope.st = m.scope.st
  /\ \A d \in Node : Account(x, d) = IF d = n THEN b ELSE Account(m, d)

-----------------------------------------------------------------------------
(* What the stages do to the accounts.                                     *)

(* The books are the same but for the slots.                               *)
LEMMA SlotsAccount ==
  ASSUME NEW m, NEW x, NEW n \in Node, x.body[n].phase = m.body[n].phase,
         x.report.faults = m.report.faults, x.report.ambiguous = m.report.ambiguous,
         x.report.cleanupFailures = m.report.cleanupFailures,
         x.report.incomplete = m.report.incomplete, x.due = m.due
  PROVE  Account(x, n) = [Account(m, n) EXCEPT !.slot = x.slot[n]]
BY DEF Account

LEMMA SlotAccount ==
  ASSUME NEW m, Typed(m), NEW n \in Node, NEW s
  PROVE  Edits(m, [m EXCEPT !.slot[n] = s], n, [Account(m, n) EXCEPT !.slot = s])
<1> DEFINE x == [m EXCEPT !.slot[n] = s]
<1>1. /\ x.body = m.body /\ x.scope = m.scope /\ x.report = m.report /\ x.due = m.due
      /\ \A d \in Node : x.slot[d] = IF d = n THEN s ELSE m.slot[d]
  BY DEF Typed, State
<1> HIDE DEF x
<1>2. Edits(m, x, n, [Account(m, n) EXCEPT !.slot = s])
  BY <1>1 DEF Edits, Account
<1> QED BY <1>2 DEF x

(* A node gets a task.                                                     *)
Spawned(a, phase) == [a EXCEPT !.phase = phase, !.twice = @ \/ a.phase # "none"]

LEMMA SpawnAccount ==
  ASSUME NEW m, Typed(m), NEW S \in SUBSET Node, NEW phase, NEW n \in Node
  PROVE  /\ Spawn(m, S, phase).scope = m.scope
         /\ Account(Spawn(m, S, phase), n) =
              IF n \in S THEN Spawned(Account(m, n), phase) ELSE Account(m, n)
<1> DEFINE x == Spawn(m, S, phase)
<1>1. /\ x.slot = m.slot /\ x.scope = m.scope /\ x.report = m.report
      /\ x.due.faults = m.due.faults /\ x.due.ambiguous = m.due.ambiguous
      /\ x.due.held = m.due.held
      /\ x.due.overlaps = m.due.overlaps \cup {d \in S : m.body[d].phase # "none"}
      /\ x.body[n] = IF n \in S THEN [phase |-> phase, aborted |-> FALSE] ELSE m.body[n]
  BY DEF Typed, State, Due, Spawn
<1> HIDE DEF x
<1>2. x.body[n].phase = IF n \in S THEN phase ELSE m.body[n].phase
  BY <1>1
<1>3. (n \in x.due.overlaps) = (n \in m.due.overlaps \/ (n \in S /\ m.body[n].phase # "none"))
  BY <1>1
<1>4. /\ x.scope = m.scope
      /\ Account(x, n) = IF n \in S
              THEN [Account(m, n) EXCEPT !.phase = phase,
                      !.twice = @ \/ Account(m, n).phase # "none"]
              ELSE Account(m, n)
  <2>1. CASE n \in S
    <3>1. (n \in x.due.overlaps) = (n \in m.due.overlaps \/ m.body[n].phase # "none")
      BY <1>3, <2>1
    <3>2. x.body[n].phase = phase
      BY <1>2, <2>1
    <3> QED BY <1>1, <2>1, <3>1, <3>2 DEF Account
  <2>2. CASE n \notin S
    <3>1. (n \in x.due.overlaps) = (n \in m.due.overlaps)
      BY <1>3, <2>2
    <3>2. x.body[n].phase = m.body[n].phase
      BY <1>2, <2>2
    <3> QED BY <1>1, <2>2, <3>1, <3>2 DEF Account
  <2> QED BY <2>1, <2>2
<1> QED BY <1>4 DEF x, Spawned

LEMMA TaskEndsAccount ==
  ASSUME NEW m, Typed(m), NEW n \in Node
  PROVE  Edits(m, TaskEnds(m, n), n, [Account(m, n) EXCEPT !.phase = "none"])
<1> DEFINE x == TaskEnds(m, n)
<1>1. /\ x.slot = m.slot /\ x.scope = m.scope /\ x.report = m.report /\ x.due = m.due
      /\ \A d \in Node : x.body[d] = IF d = n THEN [phase |-> "none", aborted |-> FALSE]
                                     ELSE m.body[d]
  BY DEF Typed, State, TaskEnds
<1> HIDE DEF x
<1>2. \A d \in Node : x.body[d].phase = IF d = n THEN "none" ELSE m.body[d].phase
  BY <1>1
<1>3. Edits(m, x, n, [Account(m, n) EXCEPT !.phase = "none"])
  BY <1>1, <1>2 DEF Edits, Account
<1> QED BY <1>3 DEF x

LEMMA AbortAccount ==
  ASSUME NEW m, Typed(m), NEW S, NEW n \in Node
  PROVE  Abort(m, S).scope = m.scope /\ Account(Abort(m, S), n) = Account(m, n)
<1> DEFINE x == Abort(m, S)
<1>1. /\ x.slot = m.slot /\ x.scope = m.scope /\ x.report = m.report /\ x.due = m.due
      /\ x.body[n] = IF n \in S THEN [m.body[n] EXCEPT !.aborted = TRUE] ELSE m.body[n]
  BY DEF Typed, State, Abort
<1>2. m.body[n] \in Body
  BY DEF Typed, State
<1> HIDE DEF x
<1>3. x.body[n].phase = m.body[n].phase
  BY <1>1, <1>2 DEF Body
<1>4. Account(x, n) = Account(m, n)
  BY <1>1, <1>3 DEF Account
<1> QED BY <1>1, <1>4 DEF x

(* The parked records of an account move to its report.                    *)
Flushed(a) ==
  [a EXCEPT !.slot = [@ EXCEPT !.parked = {}, !.ambiguity = {}],
            !.faults = @ \cup a.slot.parked, !.ambiguous = @ \cup a.slot.ambiguity]

LEMMA FlushAccount ==
  ASSUME NEW m, Typed(m), NEW S \in SUBSET Node, NEW n \in Node
  PROVE  /\ FlushFaults(m, S).scope = m.scope
         /\ Account(FlushFaults(m, S), n) =
              IF n \in S THEN Flushed(Account(m, n)) ELSE Account(m, n)
<1> DEFINE x == FlushFaults(m, S)
           t == [m.slot[n] EXCEPT !.parked = {}, !.ambiguity = {}]
           fs == UNION {{<<d, k>> : k \in m.slot[d].parked} : d \in S}
           as == UNION {{<<d, k>> : k \in m.slot[d].ambiguity} : d \in S}
<1>1. /\ x.body = m.body /\ x.scope = m.scope /\ x.due = m.due
      /\ x.report.faults = m.report.faults \cup fs
      /\ x.report.ambiguous = m.report.ambiguous \cup as
      /\ x.report.cleanupFailures = m.report.cleanupFailures
      /\ x.report.incomplete = m.report.incomplete
      /\ x.slot[n] = IF n \in S THEN t ELSE m.slot[n]
  <2> HIDE DEF t, fs, as
  <2>1. x = [m EXCEPT !.slot = [d \in Node |->
                        IF d \in S THEN [m.slot[d] EXCEPT !.parked = {}, !.ambiguity = {}]
                        ELSE m.slot[d]],
                      !.report.faults = @ \cup fs, !.report.ambiguous = @ \cup as]
    BY DEF FlushFaults, fs, as
  <2> HIDE DEF x
  <2> QED BY <2>1 DEF Typed, State, Report, t
<1>2. m.slot[n].parked \subseteq Nat /\ m.slot[n].ambiguity \subseteq Nat
  BY SlotTyped DEF Slot
<1>3. /\ Of(fs, n) = IF n \in S THEN m.slot[n].parked ELSE {}
      /\ Of(as, n) = IF n \in S THEN m.slot[n].ambiguity ELSE {}
  BY <1>2 DEF Of
<1> HIDE DEF x, t, fs, as
<1>4. /\ Of(x.report.faults, n) = Of(m.report.faults, n) \cup Of(fs, n)
      /\ Of(x.report.ambiguous, n) = Of(m.report.ambiguous, n) \cup Of(as, n)
  BY <1>1 DEF Of
<1>5. Account(x, n) = IF n \in S THEN Flushed(Account(m, n)) ELSE Account(m, n)
  <2>1. CASE n \in S
    <3>1. x.slot[n] = t
      BY <1>1, <2>1
    <3>2. /\ Of(x.report.faults, n) = Of(m.report.faults, n) \cup m.slot[n].parked
          /\ Of(x.report.ambiguous, n) = Of(m.report.ambiguous, n) \cup m.slot[n].ambiguity
      BY <1>3, <1>4, <2>1
    <3> QED BY <1>1, <2>1, <3>1, <3>2 DEF Account, Flushed, t
  <2>2. CASE n \notin S
    <3>1. x.slot[n] = m.slot[n]
      BY <1>1, <2>2
    <3>2. /\ Of(x.report.faults, n) = Of(m.report.faults, n)
          /\ Of(x.report.ambiguous, n) = Of(m.report.ambiguous, n)
      BY <1>3, <1>4, <2>2
    <3> QED BY <1>1, <2>2, <3>1, <3>2 DEF Account
  <2> QED BY <2>1, <2>2
<1> QED BY <1>1, <1>5 DEF x

Parked(a, k) == [a EXCEPT !.slot = [a.slot EXCEPT !.parked = a.slot.parked \cup {k}],
                          !.dueFaults = @ \cup {k}]

LEMMA ParkAccount ==
  ASSUME NEW m, Typed(m), NEW n \in Node, NEW k \in Nat
  PROVE  Edits(m, ParkFault(m, n, k), n, Parked(Account(m, n), k))
<1> DEFINE x == ParkFault(m, n, k)
           t == [m.slot[n] EXCEPT !.parked = m.slot[n].parked \cup {k}]
<1>1. /\ x.body = m.body /\ x.scope = m.scope /\ x.report = m.report
      /\ x.due.faults = m.due.faults \cup {<<n, k>>}
      /\ x.due.ambiguous = m.due.ambiguous /\ x.due.held = m.due.held
      /\ x.due.overlaps = m.due.overlaps
      /\ \A d \in Node : x.slot[d] = IF d = n THEN t ELSE m.slot[d]
  BY DEF Typed, State, Due, ParkFault
<1> HIDE DEF x, t
<1>2. /\ Of(x.due.faults, n) = Of(m.due.faults, n) \cup {k}
      /\ \A d \in Node : d # n => Of(x.due.faults, d) = Of(m.due.faults, d)
  BY <1>1 DEF Of
<1>3. \A d \in Node : d # n => Account(x, d) = Account(m, d)
  BY <1>1, <1>2 DEF Account
<1>4. Account(x, n) = Parked(Account(m, n), k)
  <2> DEFINE f == Of(m.due.faults, n) \cup {k}
  <2>1. /\ x.slot[n] = t /\ Of(x.due.faults, n) = f
        /\ x.body = m.body /\ x.report = m.report /\ x.due.ambiguous = m.due.ambiguous
        /\ x.due.held = m.due.held /\ x.due.overlaps = m.due.overlaps
    BY <1>1, <1>2
  <2>2. Account(m, n).slot = m.slot[n] /\ Account(m, n).dueFaults = Of(m.due.faults, n)
    BY DEF Account
  <2>3. Parked(Account(m, n), k) = [Account(m, n) EXCEPT !.slot = t, !.dueFaults = f]
    BY <2>2 DEF Parked, t
  <2> HIDE DEF f
  <2> DEFINE y == [m EXCEPT !.slot[n] = t]
  <2>4. Edits(m, y, n, [Account(m, n) EXCEPT !.slot = t])
    BY SlotAccount
  <2>5. /\ y.slot[n] = t /\ y.body = m.body /\ y.report = m.report /\ y.due = m.due
    BY DEF Typed, State
  <2> HIDE DEF y
  <2>6. Account(x, n) = [Account(y, n) EXCEPT !.dueFaults = f]
    BY <2>1, <2>5 DEF Account
  <2> QED BY <2>3, <2>4, <2>6 DEF Edits
<1>5. Edits(m, x, n, Parked(Account(m, n), k))
  BY <1>1, <1>3, <1>4 DEF Edits
<1> QED BY <1>5 DEF x

Absorbed(a) == [a EXCEPT !.slot = [@ EXCEPT !.parked = {}], !.dueFaults = {}]

LEMMA AbsorbAccount ==
  ASSUME NEW m, Typed(m), NEW S \in SUBSET Node, NEW n \in Node
  PROVE  /\ Absorb(m, S).scope = m.scope
         /\ Account(Absorb(m, S), n) =
              IF n \in S THEN Absorbed(Account(m, n)) ELSE Account(m, n)
<1> DEFINE x == Absorb(m, S)
           t == [m.slot[n] EXCEPT !.parked = {}]
<1>1. /\ x.body = m.body /\ x.scope = m.scope /\ x.report = m.report
      /\ x.due.faults = {f \in m.due.faults : f[1] \notin S}
      /\ x.due.ambiguous = m.due.ambiguous /\ x.due.held = m.due.held
      /\ x.due.overlaps = m.due.overlaps
      /\ x.slot[n] = IF n \in S THEN t ELSE m.slot[n]
  BY DEF Typed, State, Due, Absorb
<1> HIDE DEF x, t
<1>2. Of(x.due.faults, n) = IF n \in S THEN {} ELSE Of(m.due.faults, n)
  BY <1>1 DEF Of
<1>3. Account(x, n) = IF n \in S THEN Absorbed(Account(m, n)) ELSE Account(m, n)
  <2>1. CASE n \in S
    <3>1. x.slot[n] = t /\ Of(x.due.faults, n) = {}
      BY <1>1, <1>2, <2>1
    <3> QED BY <1>1, <2>1, <3>1 DEF Account, Absorbed, t
  <2>2. CASE n \notin S
    <3>1. x.slot[n] = m.slot[n] /\ Of(x.due.faults, n) = Of(m.due.faults, n)
      BY <1>1, <1>2, <2>2
    <3> QED BY <1>1, <2>2, <3>1 DEF Account
  <2> QED BY <2>1, <2>2
<1> QED BY <1>1, <1>3 DEF x

LEMMA CleanupFailsAccount ==
  ASSUME NEW m, Typed(m), NEW n \in Node
  PROVE  Edits(m, CleanupFails(m, n), n, [Account(m, n) EXCEPT !.failed = TRUE])
<1> DEFINE x == CleanupFails(m, n)
<1>1. /\ x.slot = m.slot /\ x.scope = m.scope /\ x.body = m.body /\ x.due = m.due
      /\ x.report.faults = m.report.faults /\ x.report.ambiguous = m.report.ambiguous
      /\ x.report.incomplete = m.report.incomplete
      /\ x.report.cleanupFailures = m.report.cleanupFailures \cup {n}
  BY DEF Typed, State, Report, CleanupFails
<1> HIDE DEF x
<1>3. ASSUME NEW d \in Node, d # n PROVE Account(x, d) = Account(m, d)
  <2>1. (d \in x.report.cleanupFailures) = (d \in m.report.cleanupFailures)
    BY <1>1, <1>3
  <2> QED BY <1>1, <2>1 DEF Account
<1>4. Account(x, n) = [Account(m, n) EXCEPT !.failed = TRUE]
  <2> DEFINE c == n \in x.report.cleanupFailures
  <2>1. c = TRUE
    BY <1>1
  <2>2. Account(x, n) = [Account(m, n) EXCEPT !.failed = c]
    BY <1>1 DEF Account
  <2> HIDE DEF c
  <2> QED BY <2>1, <2>2
<1>5. Edits(m, x, n, [Account(m, n) EXCEPT !.failed = TRUE])
  BY <1>1, <1>3, <1>4 DEF Edits
<1> QED BY <1>5 DEF x

-----------------------------------------------------------------------------
(* The invariant.                                                          *)

(* The states in which parked records wait for the next attempt, those in  *)
(* which an acquisition is on somebody's books, those after an attempt of  *)
(* unknown outcome that is not done again, and those no attempt follows.   *)
Undecided == Unstarted \cup {"Running", "Backoff", "RetryRelease"}
Holding == {"Running", "RetryRelease", "Ready", "Failed", "Interrupted", "Releasing",
            "Compensating"}
Doubtful == {"Ambiguous", "Compensating", "Compensated", "ReleaseFailed", "Abandoned"}
Past == {"Failed", "Interrupted", "Ambiguous", "Skipped", "Abandoned", "Releasing",
         "Compensating", "Stopping", "Released", "Compensated", "Stopped", "ReleaseFailed",
         "Finished"}

(* What was observed is parked or reported, what was acquired is owed      *)
(* where it is held.                                                       *)
Balanced(n, a) ==
  /\ a.dueFaults = a.faults \cup a.slot.parked
  /\ a.dueAmbiguous = {} <=> a.slot.ambiguity = {} /\ a.ambiguous = {}
  /\ a.owed <=> CanOwe(n) /\ a.slot.held /\ a.slot.st \in Holding
  /\ a.left <=> a.slot.st = "Abandoned"
  /\ a.slot.st = "ReleaseFailed" => a.failed

(* The task of a node fits its state, and it never got a second one.       *)
Tasked(a) ==
  /\ a.phase = "run" => a.slot.st \in {"Running", "Abandoned"}
  /\ a.phase = "serve" => a.slot.st \in {"Ready", "Stopping", "Abandoned"}
  /\ a.phase = "cleanup" =>
       a.slot.st \in {"Releasing", "Compensating", "RetryRelease", "Abandoned"}
  /\ ~ a.twice

(* An obligation was acquired, or recovers what is unknown; and only an    *)
(* effect that asked for it goes on after an unknown outcome.              *)
Earned(n, a) ==
  /\ CanOwe(n) /\ a.slot.held => a.slot.st \notin Unstarted \cup {"Backoff"}
  /\ a.slot.st \in {"Releasing", "RetryRelease"} => CanOwe(n) /\ a.slot.held
  /\ a.slot.st = "Compensating" /\ ~ a.slot.recovering => CanOwe(n) /\ a.slot.held
  /\ a.slot.recovering => RecoversAmbiguity(n)
  /\ a.slot.recovering /\ a.slot.st = "Compensating" => a.dueAmbiguous # {} /\ ~ a.slot.held
  /\ a.slot.st = "Ambiguous" => a.dueAmbiguous # {} /\ ~ a.slot.held
  /\ a.slot.ambiguity # {} => Decl(n).kind = "Effect"
  /\ Decl(n).ambiguity # "retry" =>
       /\ a.dueAmbiguous \cup a.ambiguous \cup a.slot.ambiguity \subseteq {a.slot.attempt}
       /\ a.dueAmbiguous # {} => a.slot.st \in Doubtful

Draft(n, a) == Balanced(n, a) /\ Tasked(a) /\ Earned(n, a)

(* Records are parked on a node that may still absorb them, and listed of  *)
(* one that will not.                                                      *)
Parks(n, a) ==
  a.slot.parked \cup a.slot.ambiguity # {} => a.slot.st \in Undecided /\ Decl(n).kind # "Join"
Lists(a) == a.faults \cup a.ambiguous # {} => a.slot.st \in Past

Entry(n, a) == Draft(n, a) /\ Parks(n, a) /\ Lists(a)

(* A body that runs where nothing starts was told to go.                   *)
Told(m, n) ==
  m.slot[n].st = "Running" =>
    /\ Up(m) \/ m.slot[n].cancelling
    /\ IsService(n) /\ m.slot[n].cancelling => m.slot[n].signalled \/ m.slot[n].timingOut

Books(m) == \A n \in Node : Entry(n, Account(m, n)) /\ Told(m, n)

(* The books of the other nodes are in order.                              *)
Others(m, n) == \A d \in Node : d # n => Entry(d, Account(m, d)) /\ Told(m, d)

(* Nothing is left to do for n but to list what is parked on it.           *)
Closing(m, n) == Others(m, n) /\ Draft(n, Account(m, n)) /\ m.slot[n].st \in Past

(* What a stage that starts nothing may do to an account, and to the scope.*)
Goes(a, b) ==
  /\ b.phase = "run" => /\ a.phase = "run" /\ b.slot.attempt = a.slot.attempt
                        /\ b.slot.held = a.slot.held
  /\ b.phase = "serve" => a.phase = "serve" /\ b.slot.restarts = a.slot.restarts
  /\ b.slot.st = "Abandoned" =>
       a.slot.st = "Abandoned" /\ (b.phase = "cleanup" => a.phase = "cleanup")
  /\ a.slot.st \in Past => b.slot.st \in Past

Steps(m, x) ==
  /\ \A n \in Node : Goes(Account(m, n), Account(x, n))
  /\ x.scope.st = m.scope.st \/ (Admits(m) /\ x.scope.st = "Settling")

(* A stage that keeps the books and starts nothing.                        *)
Sound(m, x) == Typed(x) /\ Books(x) /\ Steps(m, x)

LEMMA StepsRefl == ASSUME NEW m PROVE Steps(m, m)
BY DEF Steps, Goes

LEMMA StepsTrans ==
  ASSUME NEW m, NEW x, NEW y, Steps(m, x), Steps(x, y)
  PROVE  Steps(m, y)
BY DEF Steps, Goes, Admits

LEMMA AccountFields ==
  ASSUME NEW a \in Accounts
  PROVE  /\ a.slot \in Slot /\ a.faults \subseteq Nat /\ a.ambiguous \subseteq Nat
         /\ a.slot.parked \subseteq Nat /\ a.slot.ambiguity \subseteq Nat
         /\ a.phase \in {"none", "run", "serve", "cleanup"}
BY DEF Accounts, Slot

(* One account changes.                                                    *)
LEMMA EditsTrans ==
  ASSUME NEW m, NEW x, NEW y, NEW n, NEW b, NEW c, Edits(m, x, n, b), Edits(x, y, n, c)
  PROVE  Edits(m, y, n, c)
BY DEF Edits

LEMMA EditOthers ==
  ASSUME NEW m, NEW n \in Node, Others(m, n), NEW x, NEW b, Edits(m, x, n, b)
  PROVE  Others(x, n) /\ Account(x, n) = b /\ x.slot[n] = b.slot
<1>1. \A d \in Node : Account(m, d).slot = m.slot[d] /\ Account(x, d).slot = x.slot[d]
  BY DEF Account
<1>2. ASSUME NEW d \in Node, d # n PROVE Entry(d, Account(x, d)) /\ Told(x, d)
  <2>1. Account(x, d) = Account(m, d)
    BY <1>2 DEF Edits
  <2>2. x.slot[d] = m.slot[d] /\ Up(x) = Up(m)
    BY <1>1, <2>1 DEF Edits, Up
  <2> QED BY <1>2, <2>1, <2>2 DEF Others, Told
<1> QED BY <1>1, <1>2 DEF Others, Edits

LEMMA EditSteps ==
  ASSUME NEW m, NEW n \in Node, NEW x, NEW b, Edits(m, x, n, b), Goes(Account(m, n), b)
  PROVE  Steps(m, x)
BY DEF Edits, Steps, Goes

LEMMA EditSound ==
  ASSUME NEW m, NEW n \in Node, Others(m, n), NEW x, Typed(x), NEW b, Edits(m, x, n, b),
         Entry(n, b), b.slot.st # "Running" \/ Told(x, n), Goes(Account(m, n), b)
  PROVE  Sound(m, x)
<1>1. Others(x, n) /\ Account(x, n) = b /\ x.slot[n] = b.slot
  BY EditOthers
<1>2. Steps(m, x)
  BY EditSteps
<1>3. ASSUME NEW d \in Node PROVE Entry(d, Account(x, d)) /\ Told(x, d)
  <2>1. CASE d = n
    BY <1>1, <2>1 DEF Told
  <2>2. CASE d # n
    BY <1>1, <2>2 DEF Others
  <2> QED BY <2>1, <2>2
<1> QED BY <1>2, <1>3 DEF Sound, Books

LEMMA FlushedDraft ==
  ASSUME NEW n \in Node, NEW a \in Accounts, Draft(n, a)
  PROVE  /\ Flushed(a) \in Accounts /\ Draft(n, Flushed(a))
         /\ Flushed(a).slot = [a.slot EXCEPT !.parked = {}, !.ambiguity = {}]
         /\ Flushed(a).phase = a.phase
         /\ Parks(n, Flushed(a))
         /\ a.slot.st \in Past => Entry(n, Flushed(a))
<1> DEFINE b == Flushed(a)
           s == [a.slot EXCEPT !.parked = {}, !.ambiguity = {}]
<1>1. a.slot \in Slot
  BY AccountFields
<1>2. /\ s \in Slot /\ s.parked = {} /\ s.ambiguity = {} /\ s.st = a.slot.st
      /\ s.attempt = a.slot.attempt /\ s.held = a.slot.held /\ s.recovering = a.slot.recovering
  BY <1>1 DEF Slot
<1>3. /\ b \in Accounts /\ b.slot = s /\ b.phase = a.phase /\ b.failed = a.failed
      /\ b.faults = a.faults \cup a.slot.parked
      /\ b.ambiguous = a.ambiguous \cup a.slot.ambiguity
      /\ b.left = a.left /\ b.dueFaults = a.dueFaults /\ b.dueAmbiguous = a.dueAmbiguous
      /\ b.owed = a.owed /\ b.twice = a.twice
  <2> HIDE DEF s
  <2> QED BY <1>2, AccountFields DEF Flushed, Accounts, s
<1> HIDE DEF s, b
<1>4. Balanced(n, b)
  BY <1>2, <1>3 DEF Draft, Balanced
<1>5. Tasked(b) /\ Parks(n, b) /\ (a.slot.st \in Past => Lists(b))
  BY <1>2, <1>3 DEF Draft, Tasked, Parks, Lists
<1>6. Earned(n, b)
  BY <1>2, <1>3 DEF Draft, Earned, Balanced
<1> QED BY <1>3, <1>4, <1>5, <1>6 DEF Draft, Entry, b, s

LEMMA FlushedSlot ==
  ASSUME NEW a \in Accounts
  PROVE  LET s == [a.slot EXCEPT !.parked = {}, !.ambiguity = {}] IN
         /\ s.st = a.slot.st /\ s.parked = {} /\ s.ambiguity = {}
         /\ s.attempt = a.slot.attempt /\ s.held = a.slot.held
         /\ s.recovering = a.slot.recovering /\ s.restarts = a.slot.restarts
BY AccountFields DEF Slot

(* The slot t says of records and acquisitions what s says.                *)
Kept(s, t) ==
  /\ t.held = s.held /\ t.recovering = s.recovering
  /\ t.parked = s.parked /\ t.ambiguity = s.ambiguity
  /\ t.restarts = s.restarts

(* What a settle, or the failure of a need, makes of a state.              *)
Stops(s, t) ==
  \/ s.st \in Unstarted \cup {"Publishing"} /\ t.st = "Skipped" /\ t.attempt = s.attempt
  \/ s.st = "Backoff" /\ t.st = "Interrupted"

LEMMA StoppedEntry ==
  ASSUME NEW n \in Node, NEW a \in Accounts, Entry(n, a), a.slot.st \in Unstarted \cup {"Backoff"},
         NEW t \in Slot, Kept(Flushed(a).slot, t), Stops(a.slot, t)
  PROVE  Entry(n, [Flushed(a) EXCEPT !.slot = t]) /\ Goes(a, [Flushed(a) EXCEPT !.slot = t])
<1> DEFINE b == Flushed(a)
           c == [b EXCEPT !.slot = t]
<1>1. b \in Accounts /\ Draft(n, b) /\ b.slot.st = a.slot.st /\ b.phase = a.phase
      /\ b.slot.parked = {} /\ b.slot.ambiguity = {} /\ b.slot.attempt = a.slot.attempt
      /\ b.slot.held = a.slot.held
  BY FlushedDraft, FlushedSlot DEF Entry
<1>2. Kept(b.slot, t)
  OBVIOUS
<1> HIDE DEF b
<1>3. /\ c.slot = t /\ c.phase = b.phase /\ c.failed = b.failed /\ c.faults = b.faults
      /\ c.ambiguous = b.ambiguous /\ c.left = b.left /\ c.dueFaults = b.dueFaults
      /\ c.dueAmbiguous = b.dueAmbiguous /\ c.owed = b.owed /\ c.twice = b.twice
  BY <1>1 DEF Accounts
<1> HIDE DEF c
<1>4. t.st \in {"Skipped", "Interrupted"}
  BY DEF Stops
<1>5. Tasked(c) /\ Parks(n, c) /\ Lists(c) /\ c.phase = "none"
  BY <1>1, <1>2, <1>3, <1>4 DEF Draft, Tasked, Parks, Lists, Kept, Past, Unstarted, Accounts
<1>6. ~ (CanOwe(n) /\ b.slot.held)
  BY <1>1 DEF Draft, Earned
<1>7. Balanced(n, c)
  BY <1>1, <1>2, <1>3, <1>4, <1>6 DEF Draft, Balanced, Kept, Unstarted
<1>8. Earned(n, c)
  BY <1>1, <1>2, <1>3, <1>4, <1>6 DEF Draft, Earned, Kept, Unstarted, Balanced, Doubtful
<1>9. Goes(a, c)
  BY <1>3, <1>4, <1>5 DEF Goes, Past, Unstarted
<1> QED BY <1>5, <1>7, <1>8, <1>9 DEF Draft, Entry, c, b

(* A slot that keeps its state keeps its account.                          *)
LEMMA KeptEntry ==
  ASSUME NEW n \in Node, NEW a \in Accounts, Entry(n, a), NEW t \in Slot, Kept(a.slot, t),
         t.attempt = a.slot.attempt,
         \/ t.st = a.slot.st
         \/ a.slot.st = "Publishing" /\ t.st = "Skipped"
         \/ a.slot.st \in Unstarted /\ t.st \in Unstarted
  PROVE  Entry(n, [a EXCEPT !.slot = t]) /\ Goes(a, [a EXCEPT !.slot = t])
<1> DEFINE c == [a EXCEPT !.slot = t]
<1>1. /\ c.slot = t /\ c.phase = a.phase /\ c.failed = a.failed /\ c.faults = a.faults
      /\ c.ambiguous = a.ambiguous /\ c.left = a.left /\ c.dueFaults = a.dueFaults
      /\ c.dueAmbiguous = a.dueAmbiguous /\ c.owed = a.owed /\ c.twice = a.twice
  BY DEF Accounts
<1> HIDE DEF c
<1>2. Tasked(c) /\ Parks(n, c) /\ Lists(c)
  BY <1>1 DEF Entry, Draft, Tasked, Parks, Lists, Kept, Past, Unstarted, Undecided, Accounts
<1>3. Balanced(n, c)
  BY <1>1 DEF Entry, Draft, Balanced, Kept, Unstarted, Holding
<1>4. Earned(n, c)
  BY <1>1 DEF Entry, Draft, Earned, Kept, Unstarted, Doubtful
<1>5. Goes(a, c)
  BY <1>1 DEF Goes, Past, Unstarted, Kept
<1> QED BY <1>2, <1>3, <1>4, <1>5 DEF Draft, Entry, c

LEMMA SettledSlotKept ==
  ASSUME NEW f, Typed(f), NEW n \in Node
  PROVE  /\ Kept(f.slot[n], SettledSlot(f, n))
         /\ f.slot[n].st \in Unstarted \cup {"Backoff"} => Stops(f.slot[n], SettledSlot(f, n))
         /\ f.slot[n].st \notin Unstarted \cup {"Backoff"} =>
              /\ SettledSlot(f, n).attempt = f.slot[n].attempt
              /\ \/ SettledSlot(f, n).st = f.slot[n].st
                 \/ f.slot[n].st = "Publishing" /\ SettledSlot(f, n).st = "Skipped"
              /\ f.slot[n].st = "Running" /\ ~ f.slot[n].cancelling =>
                   /\ SettledSlot(f, n).cancelling
                   /\ IsService(n) => SettledSlot(f, n).signalled
              /\ f.slot[n].st = "Running" /\ f.slot[n].cancelling => SettledSlot(f, n) = f.slot[n]
<1> DEFINE s == f.slot[n]
           skipped == [s EXCEPT !.st = "Skipped"]
           cut == [s EXCEPT !.st = "Interrupted", !.timer = "none",
                     !.attempt = IF IsService(n) /\ s.initialized THEN @ ELSE @ + 1]
           told == InterruptedSlot(f, n)
<1>1. s \in Slot
  BY SlotTyped
<1>2. skipped.st = "Skipped" /\ Kept(s, skipped) /\ skipped.attempt = s.attempt
  BY <1>1 DEF Slot, Kept
<1>3. cut.st = "Interrupted" /\ Kept(s, cut)
  BY <1>1 DEF Slot, Kept
<1>4. /\ told.st = s.st /\ Kept(s, told) /\ told.attempt = s.attempt /\ told.cancelling
      /\ IsService(n) => told.signalled
  <2> DEFINE r == [s EXCEPT !.cancelling = TRUE]
             grace == IF Decl(n).stopWithin \/ plan.bounded THEN "Grace" ELSE "none"
             t1 == [r EXCEPT !.signalled = TRUE]
             t2 == [r EXCEPT !.signalled = TRUE, !.timer = grace]
             t3 == [r EXCEPT !.signalled = TRUE, !.timer = "Grace"]
             t4 == [r EXCEPT !.timer = "none"]
  <2>1. /\ \/ told = t1 \/ told = t2 \/ told = t3
           \/ told = t4 /\ ~ IsService(n)
    BY DEF InterruptedSlot, IsService
  <2>2. /\ r.st = s.st /\ Kept(s, r) /\ r.attempt = s.attempt /\ r.cancelling
        /\ DOMAIN r = DOMAIN s
    BY <1>1 DEF Slot, Kept
  <2>3. r \in Slot
    BY <1>1 DEF Slot
  <2> HIDE DEF r, grace
  <2>4. /\ t1.st = r.st /\ Kept(r, t1) /\ t1.attempt = r.attempt /\ t1.cancelling = r.cancelling
        /\ t1.signalled
    BY <2>3 DEF Slot, Kept
  <2>5. /\ t2.st = r.st /\ Kept(r, t2) /\ t2.attempt = r.attempt /\ t2.cancelling = r.cancelling
        /\ t2.signalled
    BY <2>3 DEF Slot, Kept
  <2>6. /\ t3.st = r.st /\ Kept(r, t3) /\ t3.attempt = r.attempt /\ t3.cancelling = r.cancelling
        /\ t3.signalled
    BY <2>3 DEF Slot, Kept
  <2>7. /\ t4.st = r.st /\ Kept(r, t4) /\ t4.attempt = r.attempt /\ t4.cancelling = r.cancelling
    BY <2>3 DEF Slot, Kept
  <2> HIDE DEF t1, t2, t3, t4, told
  <2> QED BY <2>1, <2>2, <2>4, <2>5, <2>6, <2>7 DEF Kept
<1>5. Kept(s, s)
  BY DEF Kept
<1>6. \/ SettledSlot(f, n) = skipped /\ s.st \in Unstarted
      \/ SettledSlot(f, n) = skipped /\ s.st = "Publishing"
      \/ SettledSlot(f, n) = cut /\ s.st = "Backoff"
      \/ SettledSlot(f, n) = told /\ s.st = "Running" /\ ~ s.cancelling
      \/ SettledSlot(f, n) = s /\ s.st \notin Unstarted \cup {"Backoff"}
           /\ (s.st = "Running" => s.cancelling)
  BY DEF SettledSlot, Interruptible
<1> HIDE DEF s, skipped, cut, told
<1>7. /\ Kept(s, SettledSlot(f, n))
      /\ s.st \in Unstarted \cup {"Backoff"} => Stops(s, SettledSlot(f, n))
      /\ s.st \notin Unstarted \cup {"Backoff"} =>
              /\ SettledSlot(f, n).attempt = s.attempt
              /\ \/ SettledSlot(f, n).st = s.st
                 \/ s.st = "Publishing" /\ SettledSlot(f, n).st = "Skipped"
              /\ s.st = "Running" /\ ~ s.cancelling =>
                   /\ SettledSlot(f, n).cancelling
                   /\ IsService(n) => SettledSlot(f, n).signalled
              /\ s.st = "Running" /\ s.cancelling => SettledSlot(f, n) = s
  BY <1>2, <1>3, <1>4, <1>5, <1>6 DEF Unstarted, Stops
<1> QED BY <1>7 DEF s

LEMMA SettleSound ==
  ASSUME NEW m, Typed(m), Books(m),
         NEW cause \in {"Fault", "Cancel", "Shutdown", "Finite", "Terminal"}
  PROVE  Sound(m, Settle(m, cause))
<1> DEFINE g == FlushFaults(m, CutShort(m))
           f == Abort(g, Dropped(m))
           x == [f EXCEPT !.scope.st = "Settling", !.scope.cause = cause,
                       !.scope.budget = plan.bounded,
                       !.slot = [n \in Node |-> SettledSlot(f, n)],
                       !.ahead = [n \in Node |-> {}]]
<1>1. CutShort(m) \in SUBSET Node /\ Dropped(m) \in SUBSET Node
  BY DEF CutShort, Dropped, In
<1>2. Typed(g) /\ Typed(f)
  BY <1>1, FlushFaultsTyped, AbortTyped
<1>3. ASSUME NEW n \in Node
      PROVE  Account(f, n) = IF m.slot[n].st \in Unstarted \cup {"Backoff"}
                             THEN Flushed(Account(m, n)) ELSE Account(m, n)
  <2>1. Account(f, n) = Account(g, n)
    BY <1>2, AbortAccount
  <2>2. Account(g, n) = IF n \in CutShort(m) THEN Flushed(Account(m, n)) ELSE Account(m, n)
    BY <1>1, FlushAccount
  <2> QED BY <2>1, <2>2 DEF CutShort, In
<1>4. Settle(m, cause) = IF ~ Admits(m) THEN m ELSE x
  BY DEF Settle
<1>5. Typed(Settle(m, cause))
  BY SettleTyped
<1> HIDE DEF f
<1>6. /\ x.body = f.body /\ x.scope.st = "Settling" /\ x.report = f.report /\ x.due = f.due
      /\ \A n \in Node : x.slot[n] = SettledSlot(f, n)
  BY <1>2 DEF Typed, State, Scope
<1> HIDE DEF x
<1>7. ASSUME NEW n \in Node
      PROVE  /\ Entry(n, Account(x, n)) /\ Goes(Account(m, n), Account(x, n)) /\ Told(x, n)
  <2> DEFINE a == Account(m, n)
             b == Account(f, n)
             t == SettledSlot(f, n)
  <2>1. a \in Accounts /\ b \in Accounts /\ Entry(n, a) /\ a.slot = m.slot[n] /\ Told(m, n)
        /\ b.slot = f.slot[n]
    BY <1>2, AccountTyped DEF Books, Account
  <2>2. Account(x, n) = [b EXCEPT !.slot = t]
    BY <1>6, SlotsAccount
  <2>3. t \in Slot
    BY <1>2, SettledSlotTyped
  <2>4. Kept(b.slot, t)
    BY <1>2, <2>1, SettledSlotKept
  <2>5. CASE a.slot.st \in Unstarted \cup {"Backoff"}
    <3>1. b = Flushed(a)
      BY <1>3, <2>1, <2>5
    <3>2. b.slot.st = a.slot.st /\ b.slot.attempt = a.slot.attempt
      <4> HIDE DEF a, b
      <4> QED BY <2>1, <3>1, FlushedDraft, FlushedSlot DEF Entry
    <3>3. Stops(b.slot, t)
      BY <1>2, <2>1, <2>5, <3>2, SettledSlotKept
    <3>4. Stops(a.slot, t)
      BY <3>2, <3>3 DEF Stops
    <3> HIDE DEF a, b, t
    <3>5. Entry(n, Account(x, n)) /\ Goes(a, Account(x, n))
      BY <2>1, <2>2, <2>3, <2>4, <2>5, <3>1, <3>4, StoppedEntry
    <3>6. Told(x, n)
      BY <1>6, <3>4 DEF Told, Stops, t
    <3> QED BY <3>5, <3>6 DEF a
  <2>6. CASE a.slot.st \notin Unstarted \cup {"Backoff"}
    <3>1. b = a
      BY <1>3, <2>1, <2>6
    <3>2. /\ t.attempt = b.slot.attempt
          /\ t.st = b.slot.st \/ (b.slot.st = "Publishing" /\ t.st = "Skipped")
          /\ b.slot.st = "Running" /\ ~ b.slot.cancelling =>
                   t.cancelling /\ (IsService(n) => t.signalled)
          /\ b.slot.st = "Running" /\ b.slot.cancelling => t = b.slot
      BY <1>2, <2>1, <2>6, <3>1, SettledSlotKept
    <3> HIDE DEF a, b, t
    <3>3. Entry(n, Account(x, n)) /\ Goes(a, Account(x, n))
      BY <2>1, <2>2, <2>3, <2>4, <3>1, <3>2, KeptEntry
    <3>4. Told(x, n)
      <4>1. x.slot[n] = t /\ m.slot[n] = b.slot
        BY <1>6, <2>1, <3>1 DEF t
      <4> QED BY <2>1, <3>2, <4>1 DEF Told
    <3> QED BY <3>3, <3>4 DEF a
  <2> QED BY <2>5, <2>6
<1>8. CASE Admits(m)
  BY <1>4, <1>5, <1>6, <1>7, <1>8 DEF Sound, Books, Steps
<1>9. CASE ~ Admits(m)
  BY <1>4, <1>9, StepsRefl DEF Sound
<1> QED BY <1>8, <1>9

-----------------------------------------------------------------------------
(* A node fails.                                                           *)

LEMMA FlushSound ==
  ASSUME NEW m, Typed(m), NEW n \in Node, Closing(m, n)
  PROVE  Sound(m, FlushFaults(m, {n}))
<1> DEFINE x == FlushFaults(m, {n})
           a == Account(m, n)
           b == Flushed(a)
<1>1. Edits(m, x, n, b)
  BY FlushAccount DEF Edits
<1>2. Typed(x)
  BY FlushFaultsTyped
<1>3. a \in Accounts /\ a.slot = m.slot[n]
  BY AccountTyped DEF Account
<1> HIDE DEF x, a
<1>4. Entry(n, b) /\ b.slot.st = a.slot.st /\ Goes(a, b)
  <2>1. /\ Entry(n, b) /\ b.slot.st = a.slot.st /\ b.slot.attempt = a.slot.attempt
        /\ b.slot.held = a.slot.held /\ b.slot.restarts = a.slot.restarts
        /\ b.phase = a.phase
    BY <1>3, FlushedDraft, FlushedSlot DEF Closing, a
  <2> HIDE DEF b
  <2> QED BY <2>1 DEF Goes
<1>5. b.slot.st # "Running"
  BY <1>3, <1>4 DEF Closing, Past
<1> HIDE DEF b
<1>6. Sound(m, x)
  BY <1>1, <1>2, <1>4, <1>5, EditSound DEF Closing, a
<1> QED BY <1>6 DEF x

LEMMA SoundTrans ==
  ASSUME NEW m, NEW x, NEW y, Steps(m, x), Sound(x, y)
  PROVE  Sound(m, y)
BY StepsTrans DEF Sound

LEMMA SkipSound ==
  ASSUME NEW m, Typed(m), Books(m), NEW n \in Node
  PROVE  Sound(m, SkipDependents(m, n))
<1> DEFINE S == SkippedBy(m, n)
           f == FlushFaults(m, S)
           skipped(d) == [f.slot[d] EXCEPT !.st = "Skipped"]
           x == SkipDependents(m, n)
<1>1. S \in SUBSET Node /\ \A d \in S : m.slot[d].st \in Unstarted
  BY HitUnstarted DEF SkippedBy
<1>2. Typed(f) /\ Typed(x) /\ f.scope = m.scope
  <2>1. Typed(f)
    BY <1>1, FlushFaultsTyped
  <2>2. Typed(x)
    BY SkipDependentsTyped
  <2>3. f.scope = m.scope
    BY <1>1, FlushAccount
  <2> QED BY <2>1, <2>2, <2>3
<1>3. /\ x.body = f.body /\ x.scope = f.scope /\ x.report = f.report /\ x.due = f.due
      /\ \A d \in Node : x.slot[d] = IF d \in S THEN skipped(d) ELSE f.slot[d]
  BY <1>2 DEF SkipDependents, Typed, State
<1>4. \A d \in Node : Account(f, d) = IF d \in S THEN Flushed(Account(m, d)) ELSE Account(m, d)
  BY <1>1, FlushAccount
<1> HIDE DEF S, f, x
<1>5. ASSUME NEW d \in Node
      PROVE  Entry(d, Account(x, d)) /\ Goes(Account(m, d), Account(x, d)) /\ Told(x, d)
  <2> DEFINE a == Account(m, d)
             b == Account(f, d)
  <2>1. /\ a \in Accounts /\ b \in Accounts /\ Entry(d, a) /\ a.slot = m.slot[d]
        /\ b.slot = f.slot[d] /\ Told(m, d)
    BY <1>2, AccountTyped DEF Books, Account
  <2>2. Account(x, d) = [b EXCEPT !.slot = x.slot[d]]
    BY <1>3, SlotsAccount
  <2> HIDE DEF a, b
  <2>3. CASE d \in S
    <3> DEFINE t == skipped(d)
    <3>1. b = Flushed(a) /\ x.slot[d] = t
      BY <1>3, <1>4, <2>3 DEF a, b
    <3>2. b.slot \in Slot /\ b.slot.attempt = a.slot.attempt
      BY <2>1, <3>1, AccountFields, FlushedDraft, FlushedSlot DEF Entry
    <3>3. t \in Slot /\ t.st = "Skipped" /\ Kept(b.slot, t) /\ t.attempt = b.slot.attempt
      BY <2>1, <3>2 DEF Slot, NodeStates, Kept
    <3>4. a.slot.st \in Unstarted
      BY <1>1, <2>1, <2>3
    <3> HIDE DEF t
    <3>5. Stops(a.slot, t)
      BY <3>2, <3>3, <3>4 DEF Stops
    <3>6. Entry(d, Account(x, d)) /\ Goes(a, Account(x, d))
      BY <2>1, <2>2, <3>1, <3>3, <3>4, <3>5, StoppedEntry
    <3> QED BY <3>1, <3>3, <3>6 DEF Told, a
  <2>4. CASE d \notin S
    <3>1. x.slot[d] = f.slot[d] /\ b = a
      BY <1>3, <1>4, <2>4 DEF a, b
    <3>2. [b EXCEPT !.slot = x.slot[d]] = b
      BY <2>1, <3>1 DEF Accounts
    <3>3. Up(x) = Up(m) /\ x.slot[d] = m.slot[d]
      BY <1>2, <1>3, <2>1, <3>1 DEF Up
    <3> QED BY <2>1, <2>2, <3>1, <3>2, <3>3 DEF Goes, Told, a
  <2> QED BY <2>3, <2>4
<1>6. Sound(m, x)
  BY <1>2, <1>3, <1>5 DEF Sound, Books, Steps
<1> QED BY <1>6 DEF x

LEMMA PolicySound ==
  ASSUME NEW m, Typed(m), NEW n \in Node, Closing(m, n)
  PROVE  Sound(m, ApplyPolicy(m, n))
<1> DEFINE f == FlushFaults(m, {n})
<1>1. Sound(m, f)
  BY FlushSound
<1>2. ApplyPolicy(m, n) \in {Settle(f, "Fault"), SkipDependents(f, n)}
  BY DEF ApplyPolicy
<1> HIDE DEF f
<1>3. Sound(f, Settle(f, "Fault")) /\ Sound(f, SkipDependents(f, n))
  BY <1>1, SettleSound, SkipSound DEF Sound
<1> QED BY <1>1, <1>2, <1>3, SoundTrans DEF Sound

(* The attempt or the serving of n has failed for good.                    *)
LEMMA FailedDraft ==
  ASSUME NEW n \in Node, NEW a \in Accounts, Draft(n, a), a.phase = "none",
         a.slot.st \in {"Running", "Publishing", "Ready"}, a.slot.st \in Holding \/ ~ CanOwe(n),
         NEW t \in Slot, Kept(a.slot, t), t.attempt = a.slot.attempt,
         t.st \in {"Failed", "Interrupted"}
  PROVE  Draft(n, [a EXCEPT !.slot = t]) /\ Goes(a, [a EXCEPT !.slot = t])
<1> DEFINE c == [a EXCEPT !.slot = t]
<1>1. /\ c.slot = t /\ c.phase = a.phase /\ c.failed = a.failed /\ c.faults = a.faults
      /\ c.ambiguous = a.ambiguous /\ c.left = a.left /\ c.dueFaults = a.dueFaults
      /\ c.dueAmbiguous = a.dueAmbiguous /\ c.owed = a.owed /\ c.twice = a.twice
  BY DEF Accounts
<1> HIDE DEF c
<1>2. Balanced(n, c)
  BY <1>1 DEF Draft, Balanced, Kept, Holding
<1>3. Tasked(c) /\ Goes(a, c)
  BY <1>1 DEF Draft, Tasked, Goes, Past
<1>4. Earned(n, c)
  BY <1>1 DEF Draft, Earned, Kept, Unstarted, Doubtful, Balanced
<1> QED BY <1>2, <1>3, <1>4 DEF Draft, c

-----------------------------------------------------------------------------
(* An event, from the state it finds to the state its tail leaves.         *)

(* The books say the same of the two accounts.                             *)
Same(a, c) ==
  /\ c.faults = a.faults /\ c.ambiguous = a.ambiguous /\ c.failed = a.failed
  /\ c.left = a.left /\ c.dueFaults = a.dueFaults /\ c.dueAmbiguous = a.dueAmbiguous
  /\ c.owed = a.owed /\ c.twice = a.twice

LEMMA SlotField ==
  ASSUME NEW a \in Accounts, NEW t \in Slot
  PROVE  LET c == [a EXCEPT !.slot = t] IN
         c \in Accounts /\ c.slot = t /\ c.phase = a.phase /\ Same(a, c)
BY DEF Accounts, Same

LEMMA PhaseField ==
  ASSUME NEW a \in Accounts, NEW p \in {"none", "run", "serve", "cleanup"}
  PROVE  LET c == [a EXCEPT !.phase = p] IN
         c \in Accounts /\ c.slot = a.slot /\ c.phase = p /\ Same(a, c)
BY DEF Accounts, Same

LEMMA SlotEdit ==
  ASSUME NEW m, Typed(m), NEW n \in Node, NEW s \in Slot, s.st \in StatesOf(n)
  PROVE  LET x == [m EXCEPT !.slot[n] = s]
             b == [Account(m, n) EXCEPT !.slot = s]
         IN /\ Typed(x) /\ Edits(m, x, n, b) /\ x.body = m.body /\ x.scope = m.scope
            /\ x.slot[n] = s /\ b \in Accounts /\ b.slot = s /\ b.phase = Account(m, n).phase
            /\ Same(Account(m, n), b)
<1> DEFINE x == [m EXCEPT !.slot[n] = s]
           a == Account(m, n)
<1>1. Typed(x)
  BY OneSlot
<1>2. Edits(m, x, n, [a EXCEPT !.slot = s])
  BY SlotAccount
<1>3. x.body = m.body /\ x.scope = m.scope /\ x.slot[n] = s
  BY DEF Typed, State
<1>4. a \in Accounts
  BY AccountTyped
<1> HIDE DEF x, a
<1>5. LET c == [a EXCEPT !.slot = s] IN
      c \in Accounts /\ c.slot = s /\ c.phase = a.phase /\ Same(a, c)
  BY <1>4, SlotField
<1> QED BY <1>1, <1>2, <1>3, <1>5 DEF x, a

(* What an event may do to an account: Goes, from the state the event      *)
(* finds, and the starts of a pass over the queue and of a first episode.  *)
Led(n, a, b) ==
  /\ b.phase = "run" =>
       \/ a.phase = "run" /\ b.slot.attempt = a.slot.attempt
       \/ Up(Here) /\ ~ b.slot.held /\ a.slot.st \notin Past
  /\ b.phase = "serve" =>
       \/ a.phase = "serve" /\ b.slot.restarts = a.slot.restarts
       \/ Up(Here)
       \/ a.slot.st = "Running" /\ a.slot.timingOut
  /\ b.slot.st = "Abandoned" /\ b.phase = "cleanup" => a.phase = "cleanup"
  /\ a.slot.st \in Past => b.slot.st \in Past

Untouched(a) ==
  /\ a.slot.st = "Pending" /\ a.slot.parked = {} /\ a.slot.ambiguity = {}
  /\ ~ a.slot.publishing /\ a.phase = "none"

Rests(m) == m.scope.st \in {"Planned", "Ended"}

(* A scope that never began has nothing to show, and one that ended has    *)
(* nothing left to do.                                                     *)
Rested(m) ==
  /\ Rests(m) => ~ m.scope.budget /\ ~ m.scope.zero
  /\ m.scope.st = "Planned" => \A n \in Node : Untouched(Account(m, n))
  /\ m.scope.st = "Ended" => \/ \A n \in Node : Untouched(Account(m, n))
                             \/ \A n \in Node : ~ BlocksRelease(m, n)

Ledger(m) == Books(m) /\ Rested(m)

(* m is on the way of an event to its end, with the books in order.        *)
Path(m) ==
  /\ Typed(m) /\ Books(m)
  /\ \A n \in Node : Led(n, Account(Here, n), Account(m, n))
  /\ ~ Rests(m) /\ (Admits(m) => Up(Here))

(* m is where an event may end.                                            *)
Landed(m) ==
  /\ Typed(m) /\ Ledger(m)
  /\ \A n \in Node : Led(n, Account(Here, n), Account(m, n))

(* The event finds a scope at work with its books in order.                *)
Ongoing == TypeOK /\ Books(Here) /\ ~ Rests(Here)

(* So far only the account of n has changed.                               *)
Begun(m, n) == Typed(m) /\ Edits(Here, m, n, Account(m, n))

LEMMA LedGoes ==
  ASSUME NEW n, NEW a, NEW b, NEW c, Led(n, a, b), Goes(b, c)
  PROVE  Led(n, a, c)
BY DEF Led, Goes

LEMMA GoesLed == ASSUME NEW n, NEW a, NEW b, Goes(a, b) PROVE Led(n, a, b)
BY DEF Led, Goes

(* A node at rest.                                                         *)
LEMMA RestLed ==
  ASSUME NEW n, NEW a, NEW b, b.phase = "none", a.slot.st \in Past => b.slot.st \in Past
  PROVE  Led(n, a, b)
BY DEF Led

LEMMA PathSound ==
  ASSUME NEW m, NEW x, Path(m), Sound(m, x)
  PROVE  Path(x)
<1>1. x.scope.st = m.scope.st \/ (Admits(m) /\ x.scope.st = "Settling")
  BY DEF Sound, Steps
<1>2. ~ Rests(x) /\ (Admits(x) => Up(Here))
  BY <1>1 DEF Rests, Admits, Path
<1>3. \A n \in Node : Led(n, Account(Here, n), Account(x, n))
  BY LedGoes DEF Path, Sound, Steps
<1> QED BY <1>2, <1>3 DEF Path, Sound

LEMMA BegunHere ==
  ASSUME Ongoing, NEW n \in Node
  PROVE  Begun(Here, n) /\ Account(Here, n).slot = slot[n]
BY HereNear DEF Ongoing, Begun, Edits, Account

LEMMA BegunEdit ==
  ASSUME NEW m, NEW n \in Node, Begun(m, n), NEW x, Typed(x), NEW b, Edits(m, x, n, b)
  PROVE  Begun(x, n) /\ Account(x, n) = b /\ x.slot[n] = b.slot
<1>1. Edits(Here, x, n, b)
  BY EditsTrans DEF Begun
<1>2. Account(x, n) = b /\ Account(x, n).slot = x.slot[n]
  BY <1>1 DEF Edits, Account
<1> QED BY <1>1, <1>2 DEF Begun

LEMMA BegunOthers ==
  ASSUME Ongoing, NEW m, NEW n \in Node, Begun(m, n)
  PROVE  Others(m, n) /\ Up(m) = Up(Here) /\ ~ Rests(m) /\ (Admits(m) => Up(Here))
<1>1. Others(Here, n)
  BY DEF Ongoing, Books, Others
<1>2. Others(m, n)
  BY <1>1, EditOthers DEF Begun
<1> QED BY <1>2 DEF Begun, Edits, Up, Ongoing, Rests, Admits

(* A sound stage follows the change of the account.                        *)
LEMMA Follows ==
  ASSUME Ongoing, NEW m, NEW n \in Node, Begun(m, n),
         Led(n, Account(Here, n), Account(m, n)), NEW x, Sound(m, x)
  PROVE  Path(x)
<1>1. ~ Rests(m) /\ (Admits(m) => Up(Here))
  BY BegunOthers
<1>2. ASSUME NEW d \in Node PROVE Led(d, Account(Here, d), Account(m, d))
  <2>1. d # n => Account(m, d) = Account(Here, d)
    BY DEF Begun, Edits
  <2> QED BY <2>1, GoesLed DEF Goes
<1>3. x.scope.st = m.scope.st \/ (Admits(m) /\ x.scope.st = "Settling")
  BY DEF Sound, Steps
<1>4. ~ Rests(x) /\ (Admits(x) => Up(Here))
  BY <1>1, <1>3 DEF Rests, Admits
<1>5. \A d \in Node : Led(d, Account(Here, d), Account(x, d))
  BY <1>2, LedGoes DEF Sound, Steps
<1> QED BY <1>4, <1>5 DEF Path, Sound

(* The change of the account is all there is.                              *)
LEMMA Arrives ==
  ASSUME Ongoing, NEW m, NEW n \in Node, Begun(m, n), Entry(n, Account(m, n)),
         m.slot[n].st = "Running" => Told(m, n),
         Led(n, Account(Here, n), Account(m, n))
  PROVE  Path(m)
<1>1. Others(m, n)
  BY BegunOthers
<1>2. ASSUME NEW d \in Node PROVE Entry(d, Account(m, d)) /\ Told(m, d)
  <2>1. CASE d = n
    BY <2>1 DEF Told
  <2>2. CASE d # n
    BY <1>1, <2>2 DEF Others
  <2> QED BY <2>1, <2>2
<1>3. Sound(m, m)
  BY <1>2, StepsRefl DEF Sound, Books, Begun
<1> QED BY <1>3, Follows

-----------------------------------------------------------------------------
(* What becomes of one account.                                            *)

(* Nothing runs for n, nothing is owed, and the next attempt may come.     *)
Idle(n, a) ==
  /\ Balanced(n, a) /\ a.phase = "none" /\ ~ a.twice
  /\ ~ (CanOwe(n) /\ a.slot.held) /\ a.slot.st # "Abandoned"
  /\ a.slot.recovering => RecoversAmbiguity(n)
  /\ a.slot.ambiguity # {} => Decl(n).kind = "Effect"
  /\ Decl(n).ambiguity # "retry" => a.dueAmbiguous = {}

LEMMA IdleWaits ==
  ASSUME NEW n \in Node, NEW a \in Accounts, Idle(n, a), a.faults \cup a.ambiguous = {},
         Decl(n).kind # "Join", NEW t \in Slot, Kept(a.slot, t), t.st \in {"Pending", "Backoff"}
  PROVE  Entry(n, [a EXCEPT !.slot = t])
<1> DEFINE c == [a EXCEPT !.slot = t]
<1>1. c \in Accounts /\ c.slot = t /\ c.phase = a.phase /\ Same(a, c)
  BY SlotField
<1> HIDE DEF c
<1>2. Tasked(c) /\ Parks(n, c) /\ Lists(c)
  BY <1>1 DEF Idle, Tasked, Parks, Lists, Kept, Same, Undecided, Unstarted
<1>3. Balanced(n, c)
  BY <1>1 DEF Idle, Balanced, Kept, Same, Holding
<1>4. Earned(n, c)
  BY <1>1, <1>3 DEF Idle, Earned, Balanced, Kept, Same
<1> QED BY <1>2, <1>3, <1>4 DEF Entry, Draft, c

LEMMA IdleInterrupted ==
  ASSUME NEW n \in Node, NEW a \in Accounts, Idle(n, a),
         Decl(n).ambiguity = "retry" \/ a.dueAmbiguous = {},
         NEW t \in Slot, Kept(a.slot, t), t.st = "Interrupted"
  PROVE  Draft(n, [a EXCEPT !.slot = t])
<1> DEFINE c == [a EXCEPT !.slot = t]
<1>1. c \in Accounts /\ c.slot = t /\ c.phase = a.phase /\ Same(a, c)
  BY SlotField
<1> HIDE DEF c
<1>2. Tasked(c)
  BY <1>1 DEF Idle, Tasked, Same
<1>3. Balanced(n, c)
  BY <1>1 DEF Idle, Balanced, Kept, Same, Holding
<1>4. Earned(n, c)
  BY <1>1, <1>3 DEF Idle, Earned, Balanced, Kept, Same, Unstarted
<1> QED BY <1>2, <1>3, <1>4 DEF Draft, c

LEMMA DraftIdle ==
  ASSUME NEW n \in Node, NEW a \in Accounts, Draft(n, a), a.phase = "none",
         ~ (CanOwe(n) /\ a.slot.held), a.slot.st # "Abandoned",
         a.slot.st \notin Doubtful \/ Decl(n).ambiguity = "retry"
  PROVE  Idle(n, a)
BY DEF Idle, Draft, Tasked, Earned

(* The task of a node ends.                                                *)
LEMMA EndedTask ==
  ASSUME NEW n \in Node, NEW a \in Accounts, Entry(n, a)
  PROVE  LET c == [a EXCEPT !.phase = "none"] IN
         c \in Accounts /\ Entry(n, c) /\ c.slot = a.slot /\ c.phase = "none" /\ Same(a, c)
<1> DEFINE c == [a EXCEPT !.phase = "none"]
<1>1. c \in Accounts /\ c.slot = a.slot /\ c.phase = "none" /\ Same(a, c)
  BY PhaseField
<1> HIDE DEF c
<1>2. Tasked(c) /\ Parks(n, c) /\ Lists(c)
  BY <1>1 DEF Entry, Draft, Tasked, Parks, Lists, Same
<1>3. Balanced(n, c) /\ Earned(n, c)
  BY <1>1 DEF Entry, Draft, Balanced, Earned, Same
<1> QED BY <1>1, <1>2, <1>3 DEF Entry, Draft, c

(* A fault is observed.                                                    *)
LEMMA ParkedDraft ==
  ASSUME NEW n \in Node, NEW a \in Accounts, NEW k \in Nat, Draft(n, a)
  PROVE  LET c == Parked(a, k) IN
         /\ c \in Accounts /\ Draft(n, c) /\ c.phase = a.phase
         /\ c.slot = [a.slot EXCEPT !.parked = a.slot.parked \cup {k}]
         /\ c.faults = a.faults /\ c.ambiguous = a.ambiguous
<1> DEFINE c == Parked(a, k)
           s == [a.slot EXCEPT !.parked = a.slot.parked \cup {k}]
<1>1. a.slot \in Slot
  BY AccountFields
<1>2. /\ s \in Slot /\ s.parked = a.slot.parked \cup {k} /\ s.ambiguity = a.slot.ambiguity
      /\ s.st = a.slot.st /\ s.attempt = a.slot.attempt /\ s.held = a.slot.held
      /\ s.recovering = a.slot.recovering
  BY <1>1 DEF Slot
<1>3. /\ c \in Accounts /\ c.slot = s /\ c.phase = a.phase
      /\ c.faults = a.faults /\ c.ambiguous = a.ambiguous
      /\ c.failed = a.failed /\ c.left = a.left /\ c.dueFaults = a.dueFaults \cup {k}
      /\ c.dueAmbiguous = a.dueAmbiguous /\ c.owed = a.owed /\ c.twice = a.twice
  <2>1. c = [a EXCEPT !.slot = s, !.dueFaults = a.dueFaults \cup {k}]
    BY DEF Parked
  <2> HIDE DEF s, c
  <2> QED BY <1>2, <2>1 DEF Accounts
<1> HIDE DEF s, c
<1>4. Balanced(n, c)
  BY <1>2, <1>3 DEF Draft, Balanced
<1>5. Tasked(c)
  BY <1>2, <1>3 DEF Draft, Tasked
<1>6. Earned(n, c)
  BY <1>2, <1>3 DEF Draft, Earned
<1> QED BY <1>3, <1>4, <1>5, <1>6 DEF Draft, c, s

LEMMA ParkedSlot ==
  ASSUME NEW a \in Accounts, NEW k \in Nat
  PROVE  LET s == [a.slot EXCEPT !.parked = a.slot.parked \cup {k}] IN
         /\ s.st = a.slot.st /\ s.attempt = a.slot.attempt /\ s.held = a.slot.held
         /\ s.restarts = a.slot.restarts /\ s.recovering = a.slot.recovering
         /\ s.cancelling = a.slot.cancelling /\ s.signalled = a.slot.signalled
         /\ s.timingOut = a.slot.timingOut /\ s.ambiguity = a.slot.ambiguity
BY AccountFields DEF Slot

(* The outcome of an attempt is unknown.                                   *)
Doubted(a) ==
  [a EXCEPT !.slot = [a.slot EXCEPT !.st = "Ambiguous", !.ambiguity = {a.slot.attempt}],
            !.dueAmbiguous = @ \cup {a.slot.attempt}]

LEMMA DoubtAccount ==
  ASSUME NEW m, Typed(m), NEW n \in Node
  PROVE  Edits(m, BecomeAmbiguous(m, n), n, Doubted(Account(m, n)))
<1> DEFINE x == BecomeAmbiguous(m, n)
           k == m.slot[n].attempt
           t == [m.slot[n] EXCEPT !.st = "Ambiguous", !.ambiguity = {k}]
<1>0. k \in Nat
  BY SlotTyped, Counters
<1>1. /\ x.body = m.body /\ x.scope = m.scope /\ x.report = m.report
      /\ x.due.ambiguous = m.due.ambiguous \cup {<<n, k>>}
      /\ x.due.faults = m.due.faults /\ x.due.held = m.due.held
      /\ x.due.overlaps = m.due.overlaps
      /\ \A d \in Node : x.slot[d] = IF d = n THEN t ELSE m.slot[d]
  BY DEF Typed, State, Due, BecomeAmbiguous
<1>7. Account(m, n).slot = m.slot[n] /\ Account(m, n).dueAmbiguous = Of(m.due.ambiguous, n)
  BY DEF Account
<1> HIDE DEF x
<1>2. /\ Of(x.due.ambiguous, n) = Of(m.due.ambiguous, n) \cup {k}
      /\ \A d \in Node : d # n => Of(x.due.ambiguous, d) = Of(m.due.ambiguous, d)
  BY <1>0, <1>1 DEF Of
<1>3. \A d \in Node : d # n => Account(x, d) = Account(m, d)
  BY <1>1, <1>2 DEF Account
<1>4. Account(x, n) = Doubted(Account(m, n))
  <2> DEFINE f == Of(m.due.ambiguous, n) \cup {k}
  <2>1. /\ x.slot[n] = t /\ Of(x.due.ambiguous, n) = f
        /\ x.body = m.body /\ x.report = m.report /\ x.due.faults = m.due.faults
        /\ x.due.held = m.due.held /\ x.due.overlaps = m.due.overlaps
    BY <1>1, <1>2
  <2>3. Doubted(Account(m, n)) = [Account(m, n) EXCEPT !.slot = t, !.dueAmbiguous = f]
    BY <1>7 DEF Doubted
  <2> HIDE DEF f, t
  <2> DEFINE y == [m EXCEPT !.slot[n] = t]
  <2>4. Edits(m, y, n, [Account(m, n) EXCEPT !.slot = t])
    BY SlotAccount
  <2>5. /\ y.slot[n] = t /\ y.body = m.body /\ y.report = m.report /\ y.due = m.due
    BY DEF Typed, State
  <2> HIDE DEF y
  <2>6. Account(x, n) = [Account(y, n) EXCEPT !.dueAmbiguous = f]
    BY <2>1, <2>5 DEF Account
  <2> QED BY <2>3, <2>4, <2>6 DEF Edits
<1>5. Edits(m, x, n, Doubted(Account(m, n)))
  BY <1>1, <1>3, <1>4 DEF Edits
<1> QED BY <1>5 DEF x

LEMMA DoubtedDraft ==
  ASSUME NEW n \in Node, NEW a \in Accounts, Draft(n, a), a.phase = "none",
         a.slot.st = "Running", ~ a.slot.held, Decl(n).kind = "Effect"
  PROVE  LET c == Doubted(a) IN
         /\ c \in Accounts /\ Draft(n, c) /\ c.phase = "none" /\ c.slot.st = "Ambiguous"
         /\ c.slot.held = a.slot.held /\ c.slot.attempt = a.slot.attempt
         /\ c.faults = a.faults /\ c.ambiguous = a.ambiguous
<1> DEFINE c == Doubted(a)
           k == a.slot.attempt
           s == [a.slot EXCEPT !.st = "Ambiguous", !.ambiguity = {k}]
<1>1. a.slot \in Slot
  BY AccountFields
<1>2. /\ s \in Slot /\ s.parked = a.slot.parked /\ s.ambiguity = {k}
      /\ s.st = "Ambiguous" /\ s.attempt = k /\ s.held = a.slot.held
      /\ s.recovering = a.slot.recovering /\ k \in Nat
  BY <1>1 DEF Slot, NodeStates
<1>3. /\ c \in Accounts /\ c.slot = s /\ c.phase = a.phase
      /\ c.faults = a.faults /\ c.ambiguous = a.ambiguous
      /\ c.failed = a.failed /\ c.left = a.left /\ c.dueFaults = a.dueFaults
      /\ c.dueAmbiguous = a.dueAmbiguous \cup {k} /\ c.owed = a.owed /\ c.twice = a.twice
  <2>1. c = [a EXCEPT !.slot = s, !.dueAmbiguous = a.dueAmbiguous \cup {k}]
    BY DEF Doubted
  <2> HIDE DEF s, c, k
  <2> QED BY <1>2, <2>1 DEF Accounts
<1>4. k = a.slot.attempt
  OBVIOUS
<1> HIDE DEF s, c, k
<1>5. Balanced(n, c)
  BY <1>2, <1>3 DEF Draft, Balanced, Holding
<1>6. Tasked(c)
  BY <1>2, <1>3 DEF Draft, Tasked
<1>7. Earned(n, c)
  BY <1>2, <1>3, <1>4 DEF Draft, Earned, Doubtful, Unstarted
<1> QED BY <1>2, <1>3, <1>4, <1>5, <1>6, <1>7 DEF Draft, c

-----------------------------------------------------------------------------
(* What a failed or an interrupted attempt leads to.                       *)

LEMMA BegunSlot ==
  ASSUME NEW m, NEW n \in Node, Begun(m, n), NEW s \in Slot, s.st \in StatesOf(n)
  PROVE  LET x == [m EXCEPT !.slot[n] = s]
             b == [Account(m, n) EXCEPT !.slot = s]
         IN /\ Begun(x, n) /\ Account(x, n) = b /\ x.slot[n] = s /\ x.scope = m.scope
            /\ b \in Accounts /\ b.slot = s /\ b.phase = Account(m, n).phase
            /\ Same(Account(m, n), b)
BY SlotEdit, BegunEdit DEF Begun

LEMMA BegunSlotIs == ASSUME NEW m, NEW n, Begun(m, n), NEW d \in Node
                     PROVE  Account(m, d) \in Accounts /\ Account(m, d).slot = m.slot[d]
BY AccountTyped DEF Begun, Account

LEMMA PolicyPath ==
  ASSUME Ongoing, NEW m, NEW n \in Node, Begun(m, n), Draft(n, Account(m, n)),
         Account(m, n).phase = "none", m.slot[n].st \in Past
  PROVE  Path(ApplyPolicy(m, n)) /\ Path(FlushFaults(m, {n}))
<1>1. Closing(m, n) /\ Typed(m)
  BY BegunOthers DEF Closing, Begun
<1>2. Sound(m, ApplyPolicy(m, n)) /\ Sound(m, FlushFaults(m, {n}))
  BY <1>1, PolicySound, FlushSound
<1>3. Led(n, Account(Here, n), Account(m, n))
  BY BegunSlotIs, RestLed
<1> QED BY <1>2, <1>3, Follows

LEMMA FailedPath ==
  ASSUME Ongoing, NEW m, NEW n \in Node, Begun(m, n), Draft(n, Account(m, n)),
         Account(m, n).phase = "none", m.slot[n].st \in {"Running", "Publishing", "Ready"},
         m.slot[n].st \in Holding \/ ~ CanOwe(n)
  PROVE  Path(NodeFailed(m, n))
<1> DEFINE s == [m.slot[n] EXCEPT !.st = "Failed"]
           x == [m EXCEPT !.slot[n] = s]
           a == Account(m, n)
<1>1. Typed(m) /\ a \in Accounts /\ a.slot = m.slot[n] /\ m.slot[n] \in Slot
  BY BegunSlotIs, SlotTyped DEF Begun
<1>2. s \in Slot /\ s.st = "Failed" /\ s.st \in StatesOf(n) /\ Kept(m.slot[n], s)
      /\ s.attempt = m.slot[n].attempt
  BY <1>1, CommonStates DEF Slot, NodeStates, Kept
<1>3. NodeFailed(m, n) = ApplyPolicy(x, n)
  BY <1>1 DEF NodeFailed, Typed, State
<1> HIDE DEF s
<1>4. LET b == [a EXCEPT !.slot = s] IN
      Begun(x, n) /\ Account(x, n) = b /\ x.slot[n] = s /\ b.phase = a.phase
  BY <1>2, BegunSlot
<1> HIDE DEF x
<1>5. Draft(n, Account(x, n))
  <2>1. Draft(n, a) /\ a.phase = "none"
    OBVIOUS
  <2> HIDE DEF a
  <2> QED BY <1>1, <1>2, <1>4, <2>1, FailedDraft
<1>6. Account(x, n).phase = "none" /\ x.slot[n].st \in Past
  BY <1>2, <1>4 DEF Past
<1>7. Begun(x, n)
  BY <1>4
<1>8. Path(ApplyPolicy(x, n))
  BY <1>5, <1>6, <1>7, PolicyPath
<1> QED BY <1>3, <1>8

LEMMA BackoffPath ==
  ASSUME Ongoing, NEW m, NEW n \in Node, Begun(m, n), Idle(n, Account(m, n)),
         Account(m, n).faults \cup Account(m, n).ambiguous = {}, Decl(n).kind # "Join",
         slot[n].st \notin Past
  PROVE  Path(Backoff(m, n))
<1> DEFINE a == Account(m, n)
<1>1. Typed(m) /\ a \in Accounts /\ a.slot = m.slot[n] /\ m.slot[n] \in Slot
      /\ "Backoff" \in StatesOf(n)
  BY BegunSlotIs, SlotTyped, KindStates DEF Begun, Typed
<1>2. Account(Here, n).slot = slot[n]
  BY BegunHere
<1>3. ASSUME NEW s \in Slot, s.st \in {"Pending", "Backoff"}, Kept(m.slot[n], s)
      PROVE  Path([m EXCEPT !.slot[n] = s])
  <2> DEFINE x == [m EXCEPT !.slot[n] = s]
  <2>1. s.st \in StatesOf(n)
    BY <1>1, <1>3, CommonStates
  <2>2. LET b == [a EXCEPT !.slot = s] IN
        Begun(x, n) /\ Account(x, n) = b /\ x.slot[n] = s /\ b.phase = a.phase
    BY <1>3, <2>1, BegunSlot
  <2> HIDE DEF x, a
  <2>3. Entry(n, Account(x, n)) /\ Account(x, n).phase = "none"
    BY <1>1, <1>3, <2>2, IdleWaits DEF Idle, a
  <2>4. Path(x)
    BY <1>2, <1>3, <2>2, <2>3, RestLed, Arrives
  <2> QED BY <2>4 DEF x
<1> DEFINE s == [m.slot[n] EXCEPT !.st = "Pending"]
           t == [m.slot[n] EXCEPT !.st = "Backoff", !.timer = "Backoff"]
<1>4. Backoff(m, n) \in {[m EXCEPT !.slot[n] = s], [m EXCEPT !.slot[n] = t]}
  BY <1>1 DEF Backoff, Typed, State
<1>5. /\ s \in Slot /\ s.st = "Pending" /\ Kept(m.slot[n], s)
      /\ t \in Slot /\ t.st = "Backoff" /\ Kept(m.slot[n], t)
  BY <1>1 DEF Slot, NodeStates, Kept
<1> HIDE DEF s, t
<1> QED BY <1>3, <1>4, <1>5

(* The acquisition of a failed attempt is released first.                  *)
LEMMA RetryEntry ==
  ASSUME NEW n \in Node, NEW a \in Accounts, Entry(n, a), a.phase = "none",
         a.slot.st = "Running", CanOwe(n), a.slot.held,
         NEW t \in Slot, Kept(a.slot, t), t.attempt = a.slot.attempt, t.st = "RetryRelease",
         NEW c \in Accounts, c.slot = t, c.phase = "cleanup", Same(a, c)
  PROVE  Entry(n, c)
<1>1. Tasked(c) /\ Parks(n, c) /\ Lists(c)
  BY DEF Entry, Draft, Tasked, Parks, Lists, Kept, Same, Undecided, Past
<1>2. Balanced(n, c)
  BY DEF Entry, Draft, Balanced, Kept, Same, Holding
<1>3. Earned(n, c)
  BY DEF Entry, Draft, Earned, Kept, Same, Unstarted, Doubtful
<1> QED BY <1>1, <1>2, <1>3 DEF Entry, Draft

LEMMA SpawnOne ==
  ASSUME NEW m, Typed(m), NEW n \in Node, Account(m, n).phase = "none",
         NEW p \in {"run", "serve", "cleanup"}
  PROVE  LET b == Account(Spawn(m, {n}, p), n) IN
         /\ Edits(m, Spawn(m, {n}, p), n, b) /\ b \in Accounts
         /\ b.slot = m.slot[n] /\ b.phase = p /\ Same(Account(m, n), b)
<1> DEFINE x == Spawn(m, {n}, p)
           a == Account(m, n)
           c == [a EXCEPT !.phase = p]
<1>1. /\ x.scope = m.scope /\ Account(x, n) = Spawned(a, p)
      /\ \A d \in Node : d # n => Account(x, d) = Account(m, d)
  BY SpawnAccount
<1>2. a \in Accounts /\ a.slot = m.slot[n] /\ a.phase = "none"
  BY AccountTyped DEF Account
<1>3. c \in Accounts /\ c.slot = a.slot /\ c.phase = p /\ Same(a, c)
  <2>1. p \in {"none", "run", "serve", "cleanup"}
    OBVIOUS
  <2> HIDE DEF a
  <2> QED BY <1>2, <2>1, PhaseField
<1>4. Account(x, n) = c
  <2> HIDE DEF a, x
  <2>1. (a.twice \/ a.phase # "none") = a.twice
    BY <1>2 DEF Accounts
  <2> QED BY <1>1, <1>2, <2>1 DEF Accounts, Spawned
<1> HIDE DEF x, c
<1>5. Edits(m, x, n, Account(x, n))
  BY <1>1 DEF Edits
<1> QED BY <1>2, <1>3, <1>4, <1>5 DEF x, a

LEMMA FailedAttemptPath ==
  ASSUME Ongoing, NEW m, NEW n \in Node, Begun(m, n), Draft(n, Account(m, n)),
         Lists(Account(m, n)), Account(m, n).phase = "none", m.slot[n].st = "Running",
         Decl(n).kind # "Join", slot[n].st \notin Past
  PROVE  Path(AfterFailedAttempt(m, n))
<1> DEFINE s == [m.slot[n] EXCEPT !.granted = FALSE, !.timer = "none",
                   !.cancelling = FALSE, !.timingOut = FALSE, !.timedOut = FALSE]
           f == [m EXCEPT !.slot[n] = s]
           a == Account(m, n)
           b == Account(f, n)
           t == [f.slot[n] EXCEPT !.st = "RetryRelease"]
           y == [f EXCEPT !.slot[n] = t]
           x == Spawn(y, {n}, "cleanup")
<1>1. Typed(m) /\ a \in Accounts /\ a.slot = m.slot[n] /\ m.slot[n] \in Slot
      /\ m.slot[n].st \in StatesOf(n) /\ plan \in Plans /\ "Backoff" \in StatesOf(n)
  BY BegunSlotIs, SlotTyped, KindStates DEF Begun, Typed
<1>2. s \in Slot /\ s.st = "Running" /\ Kept(m.slot[n], s) /\ s.attempt = m.slot[n].attempt
  BY <1>1 DEF Slot, Kept
<1>3. \/ AfterFailedAttempt(m, n) = NodeFailed(f, n)
      \/ AfterFailedAttempt(m, n) = Backoff(f, n) /\ ~ (CanOwe(n) /\ f.slot[n].held)
      \/ /\ CanOwe(n) /\ f.slot[n].held
         /\ AfterFailedAttempt(m, n) = x
  BY <1>1 DEF AfterFailedAttempt, Typed, State
<1> HIDE DEF s
<1>4. LET c == [a EXCEPT !.slot = s] IN
      Begun(f, n) /\ Account(f, n) = c /\ f.slot[n] = s /\ c.phase = a.phase
      /\ c \in Accounts /\ c.slot = s /\ Same(a, c)
  BY <1>1, <1>2, BegunSlot
<1> HIDE DEF f
<1>5. Begun(f, n) /\ f.slot[n] = s /\ b \in Accounts /\ b.slot = s /\ Same(a, b)
      /\ b.phase = "none"
  BY <1>4
<1>6. Draft(n, b) /\ Lists(b)
  <2> HIDE DEF a, b
  <2>1. Tasked(b) /\ Lists(b)
    BY <1>1, <1>2, <1>5 DEF Draft, Tasked, Lists, Kept, Same, Past, a
  <2>2. Balanced(n, b)
    BY <1>1, <1>2, <1>5 DEF Draft, Balanced, Kept, Same, a
  <2>3. Earned(n, b)
    BY <1>1, <1>2, <1>5 DEF Draft, Earned, Kept, Same, a
  <2> QED BY <2>1, <2>2, <2>3 DEF Draft
<1>7. CASE AfterFailedAttempt(m, n) = NodeFailed(f, n)
  BY <1>2, <1>5, <1>6, <1>7, FailedPath DEF Holding
<1>8. CASE AfterFailedAttempt(m, n) = Backoff(f, n) /\ ~ (CanOwe(n) /\ f.slot[n].held)
  <2> HIDE DEF a, b
  <2>1. Idle(n, b) /\ b.faults \cup b.ambiguous = {}
    BY <1>2, <1>5, <1>6, <1>8, DraftIdle DEF Doubtful, Lists, Past
  <2> QED BY <1>5, <1>8, <2>1, BackoffPath DEF b
<1>9. CASE CanOwe(n) /\ f.slot[n].held /\ AfterFailedAttempt(m, n) = x
  <2>1. t \in Slot /\ t.st = "RetryRelease" /\ Kept(s, t) /\ t.attempt = s.attempt
    BY <1>2, <1>5 DEF Slot, NodeStates, Kept
  <2>2. t.st \in StatesOf(n)
    BY <1>1, <1>9, <2>1, KindStates DEF CanOwe
  <2> HIDE DEF t
  <2>3. LET c == [b EXCEPT !.slot = t] IN
        Begun(y, n) /\ Account(y, n) = c /\ y.slot[n] = t /\ c.phase = b.phase
        /\ c \in Accounts /\ c.slot = t /\ Same(b, c)
    BY <1>5, <2>1, <2>2, BegunSlot
  <2> HIDE DEF y
  <2>4. Typed(y) /\ Account(y, n).phase = "none" /\ Same(b, Account(y, n))
    BY <1>5, <2>3 DEF Begun
  <2>5. LET c == Account(Spawn(y, {n}, "cleanup"), n) IN
         /\ Edits(y, Spawn(y, {n}, "cleanup"), n, c) /\ c \in Accounts
         /\ c.slot = y.slot[n] /\ c.phase = "cleanup" /\ Same(Account(y, n), c)
    BY <2>4, SpawnOne
  <2>6. Typed(x)
    BY <2>4, SpawnTyped
  <2> HIDE DEF x
  <2>7. Begun(x, n) /\ x.slot[n] = t
    BY <2>3, <2>5, <2>6, BegunEdit DEF x
  <2> DEFINE c == Account(x, n)
  <2>8. c \in Accounts /\ c.slot = t /\ c.phase = "cleanup" /\ Same(b, c)
    BY <2>3, <2>4, <2>5 DEF x, Same
  <2>9. Entry(n, c)
    <3>1. Parks(n, b)
      BY <1>2, <1>5 DEF Parks, Undecided
    <3> HIDE DEF b, c
    <3> QED BY <1>2, <1>5, <1>6, <1>9, <2>1, <2>8, <3>1, RetryEntry DEF Entry
  <2>10. Led(n, Account(Here, n), c)
    BY <2>1, <2>8, BegunHere DEF Led
  <2> QED BY <1>9, <2>1, <2>7, <2>9, <2>10, Arrives
<1> QED BY <1>3, <1>7, <1>8, <1>9

LEMMA FailAttemptPath ==
  ASSUME Ongoing, NEW m, NEW n \in Node, Begun(m, n), Draft(n, Account(m, n)),
         Lists(Account(m, n)), Account(m, n).phase = "none", m.slot[n].st = "Running",
         Decl(n).kind # "Join", slot[n].st \notin Past
  PROVE  Path(FailAttempt(m, n))
<1> DEFINE k == m.slot[n].attempt
           p == ParkFault(m, n, k)
           a == Account(m, n)
<1>1. Typed(m) /\ k \in Nat /\ a \in Accounts /\ a.slot = m.slot[n]
  BY SlotTyped, Counters, BegunSlotIs DEF Begun
<1>2. Typed(p) /\ Edits(m, p, n, Parked(a, k))
  BY <1>1, ParkFaultTyped, ParkAccount
<1> HIDE DEF p, k
<1>3. Begun(p, n) /\ Account(p, n) = Parked(a, k) /\ p.slot[n] = Parked(a, k).slot
  BY <1>2, BegunEdit
<1> HIDE DEF a
<1>4. LET c == Parked(a, k) IN
         /\ c \in Accounts /\ Draft(n, c) /\ c.phase = a.phase
         /\ c.slot = [a.slot EXCEPT !.parked = a.slot.parked \cup {k}]
         /\ c.faults = a.faults /\ c.ambiguous = a.ambiguous
  BY <1>1, ParkedDraft DEF a
<1>5. p.slot[n].st = "Running"
  BY <1>1, <1>3, <1>4, ParkedSlot
<1>6. Lists(Account(p, n)) /\ Draft(n, Account(p, n)) /\ Account(p, n).phase = "none"
  BY <1>1, <1>3, <1>4, <1>5 DEF Lists, Past, a
<1> QED BY <1>3, <1>5, <1>6, FailedAttemptPath DEF FailAttempt, p, k

(* The effect's outcome is unknown; whether it is done again or not.       *)
LEMMA DoubtPath ==
  ASSUME Ongoing, NEW m, NEW n \in Node, Begun(m, n), Entry(n, Account(m, n)),
         Account(m, n).phase = "none", m.slot[n].st = "Running", slot[n].st \notin Past,
         Decl(n).kind = "Effect", ~ m.slot[n].held
  PROVE  LET d == BecomeAmbiguous(m, n)
             a == ParkFault(d, n, m.slot[n].attempt)
         IN Path(FlushFaults(d, {n})) /\ Path(ApplyPolicy(a, n))
            /\ (Decl(n).ambiguity = "retry" => Path(Backoff(a, n)))
<1> DEFINE k == m.slot[n].attempt
           d == BecomeAmbiguous(m, n)
           p == ParkFault(d, n, k)
           a == Account(m, n)
           b == Account(d, n)
           c == Account(p, n)
<1>1. Typed(m) /\ k \in Nat /\ a \in Accounts /\ a.slot = m.slot[n] /\ plan \in Plans
  BY SlotTyped, Counters, BegunSlotIs DEF Begun, Typed
<1>2. Typed(d) /\ Edits(m, d, n, Doubted(a))
  BY <1>1, KindStates, BecomeAmbiguousTyped, DoubtAccount
<1>3. Begun(d, n) /\ b = Doubted(a) /\ d.slot[n] = b.slot
  <2> HIDE DEF d
  <2> QED BY <1>2, BegunEdit
<1>4. /\ b \in Accounts /\ Draft(n, b) /\ b.phase = "none" /\ b.slot.st = "Ambiguous"
      /\ ~ b.slot.held /\ b.faults = a.faults /\ b.ambiguous = a.ambiguous
  <2>1. Draft(n, a) /\ a.phase = "none"
    BY DEF Entry
  <2> HIDE DEF a, b, d
  <2> QED BY <1>1, <1>3, <2>1, DoubtedDraft
<1>5. Lists(a) /\ a.faults \cup a.ambiguous = {}
  BY <1>1 DEF Entry, Lists, Past
<1> HIDE DEF d, a, k
<1>6. Typed(p) /\ Edits(d, p, n, Parked(b, k))
  BY <1>1, <1>2, ParkFaultTyped, ParkAccount
<1>7. Begun(p, n) /\ c = Parked(b, k) /\ p.slot[n] = c.slot
  <2> HIDE DEF p
  <2> QED BY <1>3, <1>6, BegunEdit
<1> HIDE DEF p, b, c
<1>8. /\ c \in Accounts /\ Draft(n, c) /\ c.phase = "none" /\ c.slot.st = "Ambiguous"
      /\ ~ c.slot.held /\ c.faults = b.faults /\ c.ambiguous = b.ambiguous
  <2>1. LET x == Parked(b, k) IN
         /\ x \in Accounts /\ Draft(n, x) /\ x.phase = b.phase
         /\ x.slot = [b.slot EXCEPT !.parked = b.slot.parked \cup {k}]
         /\ x.faults = b.faults /\ x.ambiguous = b.ambiguous
    BY <1>1, <1>4, ParkedDraft
  <2>2. c.slot.st = b.slot.st /\ c.slot.held = b.slot.held
    BY <1>1, <1>4, <1>7, <2>1, ParkedSlot
  <2> QED BY <1>4, <1>7, <2>1, <2>2
<1>9. Path(FlushFaults(d, {n}))
  BY <1>3, <1>4, PolicyPath DEF b, Past
<1>10. Path(ApplyPolicy(p, n))
  BY <1>7, <1>8, PolicyPath DEF c, Past
<1>11. ASSUME Decl(n).ambiguity = "retry" PROVE Path(Backoff(p, n))
  <2>1. Idle(n, c)
    BY <1>8, <1>11, DraftIdle
  <2> QED BY <1>4, <1>5, <1>7, <1>8, <2>1, BackoffPath DEF c
<1> QED BY <1>9, <1>10, <1>11 DEF d, p, k

LEMMA InterruptedPath ==
  ASSUME Ongoing, NEW m, NEW n \in Node, Begun(m, n), Entry(n, Account(m, n)),
         Account(m, n).phase = "none", m.slot[n].st = "Running", Decl(n).kind # "Join",
         slot[n].st \notin Past
  PROVE  Path(FinishInterrupted(m, n))
<1> DEFINE s == m.slot[n]
           t == [s EXCEPT !.timer = "none", !.cancelling = FALSE,
                   !.timingOut = FALSE, !.signalled = s.timingOut /\ s.signalled]
           j == [m EXCEPT !.slot[n] = t]
           u == [t EXCEPT !.granted = FALSE]
           g == [m EXCEPT !.slot[n] = u]
           i == [u EXCEPT !.st = "Interrupted"]
           h == [m EXCEPT !.slot[n] = i]
           unknown == Decl(n).kind = "Effect" /\ ~ s.held
           d == BecomeAmbiguous(g, n)
           p == ParkFault(d, n, s.attempt)
           a == Account(m, n)
<1>1. /\ s \in Slot /\ s.st \in StatesOf(n) /\ s.st = "Running" /\ Typed(m) /\ plan \in Plans
      /\ a \in Accounts /\ a.slot = s /\ Entry(n, a) /\ a.phase = "none"
  BY SlotTyped, BegunSlotIs DEF Begun, Typed
<1>2. t \in Slot /\ t.st = s.st /\ Kept(s, t) /\ t.attempt = s.attempt
  <2> DEFINE told == s.timingOut /\ s.signalled
             r == [s EXCEPT !.timer = "none", !.cancelling = FALSE, !.timingOut = FALSE]
  <2>1. t = [r EXCEPT !.signalled = told]
    OBVIOUS
  <2>2. told \in BOOLEAN
    OBVIOUS
  <2> HIDE DEF s, told, t
  <2>3. r \in Slot /\ r.st = s.st /\ Kept(s, r) /\ r.attempt = s.attempt
    BY <1>1 DEF Slot, Kept
  <2> HIDE DEF r
  <2>4. t \in Slot /\ t.st = r.st /\ Kept(r, t) /\ t.attempt = r.attempt
    BY <2>1, <2>2, <2>3 DEF Slot, Kept
  <2> QED BY <2>3, <2>4 DEF Kept
<1>3. u \in Slot /\ u.st = s.st /\ Kept(s, u) /\ u.attempt = s.attempt
  <2> HIDE DEF t
  <2>1. u \in Slot /\ u.st = t.st /\ Kept(t, u) /\ u.attempt = t.attempt
    BY <1>2 DEF Slot, Kept
  <2> QED BY <1>2, <2>1 DEF Kept
<1>4. i \in Slot /\ i.st = "Interrupted" /\ Kept(s, i) /\ i.attempt = s.attempt
  <2> HIDE DEF u
  <2>1. i \in Slot /\ i.st = "Interrupted" /\ Kept(u, i) /\ i.attempt = u.attempt
    BY <1>3 DEF Slot, NodeStates, Kept
  <2> QED BY <1>3, <2>1 DEF Kept
<1>5. \/ /\ unknown
         /\ \/ FinishInterrupted(m, n) = Backoff(p, n) /\ Decl(n).ambiguity = "retry"
            \/ FinishInterrupted(m, n) \in {ApplyPolicy(p, n), FlushFaults(d, {n})}
      \/ FinishInterrupted(m, n) = FailAttempt(j, n)
      \/ ~ unknown /\ FinishInterrupted(m, n) = FlushFaults(h, {n})
  <2>1. [m EXCEPT !.slot[n] = [@ EXCEPT !.timer = "none", !.cancelling = FALSE,
              !.timingOut = FALSE, !.signalled = s.timingOut /\ s.signalled]] = j
    BY <1>1 DEF Typed, State
  <2>2. [j EXCEPT !.slot[n].granted = FALSE] = g
    <3> HIDE DEF t
    <3> QED BY <1>1 DEF Typed, State
  <2>3. [g EXCEPT !.slot[n].st = "Interrupted"] = h
    <3> HIDE DEF u
    <3> QED BY <1>1 DEF Typed, State
  <2> QED BY <2>1, <2>2, <2>3 DEF FinishInterrupted, RetriesAmbiguity
<1>6. Kept(a.slot, t) /\ Kept(a.slot, u) /\ Kept(a.slot, i) /\ u.held = s.held
  BY <1>1, <1>2, <1>3, <1>4 DEF Kept
<1>12. "Interrupted" \in StatesOf(n)
  BY <1>1, KindStates
<1> HIDE DEF t, u, i, s
<1>7. LET b == [a EXCEPT !.slot = t]
          c == [a EXCEPT !.slot = u]
          e == [a EXCEPT !.slot = i]
      IN /\ Begun(j, n) /\ Account(j, n) = b /\ j.slot[n] = t /\ b.phase = a.phase
         /\ Begun(g, n) /\ Account(g, n) = c /\ g.slot[n] = u /\ c.phase = a.phase
         /\ Begun(h, n) /\ Account(h, n) = e /\ h.slot[n] = i /\ e.phase = a.phase
  BY <1>1, <1>2, <1>3, <1>4, <1>12, BegunSlot
<1> HIDE DEF j, g, h, a
<1>8. Entry(n, Account(j, n)) /\ Entry(n, Account(g, n)) /\ Draft(n, Account(h, n))
  <2>1. Entry(n, [a EXCEPT !.slot = t])
    BY <1>1, <1>2, <1>6, KeptEntry
  <2>2. Entry(n, [a EXCEPT !.slot = u])
    BY <1>1, <1>3, <1>6, KeptEntry
  <2>3. Draft(n, [a EXCEPT !.slot = i])
    BY <1>1, <1>4, <1>6, FailedDraft DEF Entry, Holding
  <2> QED BY <1>7, <2>1, <2>2, <2>3
<1>9. /\ Begun(j, n) /\ Begun(g, n) /\ Begun(h, n)
      /\ Account(j, n).phase = "none" /\ Account(g, n).phase = "none"
      /\ Account(h, n).phase = "none"
      /\ j.slot[n].st = "Running" /\ g.slot[n].st = "Running" /\ h.slot[n].st = "Interrupted"
      /\ g.slot[n].held = s.held /\ g.slot[n].attempt = s.attempt
  BY <1>1, <1>2, <1>3, <1>4, <1>6, <1>7
<1>10. Path(FailAttempt(j, n)) /\ Path(FlushFaults(h, {n}))
  BY <1>8, <1>9, FailAttemptPath, PolicyPath DEF Entry, Past
<1>11. CASE unknown
  <2>1. /\ Path(FlushFaults(d, {n})) /\ Path(ApplyPolicy(p, n))
        /\ Decl(n).ambiguity = "retry" => Path(Backoff(p, n))
    <3>1. LET e == BecomeAmbiguous(g, n)
              q == ParkFault(e, n, g.slot[n].attempt)
          IN Path(FlushFaults(e, {n})) /\ Path(ApplyPolicy(q, n))
             /\ (Decl(n).ambiguity = "retry" => Path(Backoff(q, n)))
      BY <1>8, <1>9, <1>11, DoubtPath
    <3> QED BY <1>9, <3>1
  <2> HIDE DEF d, p
  <2> QED BY <1>5, <1>10, <1>11, <2>1
<1> HIDE DEF d, p
<1> QED BY <1>5, <1>10, <1>11

-----------------------------------------------------------------------------
(* A node becomes ready.                                                   *)

LEMMA ReadyEntry ==
  ASSUME NEW n \in Node, NEW a \in Accounts, Entry(n, a), a.phase = "none",
         a.slot.st = "Running", NEW c \in Accounts, c.phase \in {"none", "serve"},
         c.slot.st = "Ready", c.slot.held = a.slot.held, c.slot.attempt = a.slot.attempt,
         c.slot.recovering = a.slot.recovering, c.slot.parked = {}, c.slot.ambiguity = {},
         c.dueFaults = {}, c.dueAmbiguous = {}, c.faults = a.faults,
         c.ambiguous = a.ambiguous, c.failed = a.failed, c.left = a.left,
         c.owed = a.owed, c.twice = a.twice
  PROVE  Entry(n, c)
<1>1. c.faults = {} /\ c.ambiguous = {}
  BY DEF Entry, Lists, Past
<1>2. Tasked(c) /\ Parks(n, c) /\ Lists(c)
  BY <1>1 DEF Entry, Draft, Tasked, Parks, Lists
<1>3. Balanced(n, c)
  BY <1>1 DEF Entry, Draft, Balanced, Holding
<1>4. Earned(n, c)
  BY <1>1 DEF Entry, Draft, Earned, Unstarted
<1> QED BY <1>2, <1>3, <1>4 DEF Entry, Draft

LEMMA AbsorbOne ==
  ASSUME NEW m, Typed(m), NEW n \in Node
  PROVE  LET x == Absorb(m, {n})
             a == Account(m, n)
             b == Account(x, n)
         IN /\ Typed(x) /\ Edits(m, x, n, b) /\ b \in Accounts /\ b.phase = a.phase
            /\ b.slot = [a.slot EXCEPT !.parked = {}] /\ b.dueFaults = {}
            /\ b.faults = a.faults /\ b.ambiguous = a.ambiguous /\ b.failed = a.failed
            /\ b.left = a.left /\ b.dueAmbiguous = a.dueAmbiguous /\ b.owed = a.owed
            /\ b.twice = a.twice
<1> DEFINE x == Absorb(m, {n})
           a == Account(m, n)
           b == Account(x, n)
<1>1. /\ x.scope = m.scope /\ b = Absorbed(a)
      /\ \A d \in Node : d # n => Account(x, d) = Account(m, d)
  BY AbsorbAccount
<1>2. Typed(x)
  BY AbsorbTyped
<1>3. a \in Accounts /\ b \in Accounts
  BY <1>2, AccountTyped
<1>4. Edits(m, x, n, b)
  BY <1>1 DEF Edits
<1>5. /\ b.phase = a.phase /\ b.slot = [a.slot EXCEPT !.parked = {}] /\ b.dueFaults = {}
      /\ b.faults = a.faults /\ b.ambiguous = a.ambiguous /\ b.failed = a.failed
      /\ b.left = a.left /\ b.dueAmbiguous = a.dueAmbiguous /\ b.owed = a.owed
      /\ b.twice = a.twice
  <2> HIDE DEF a, b
  <2> DEFINE t == [a.slot EXCEPT !.parked = {}]
  <2>1. b = [a EXCEPT !.slot = t, !.dueFaults = {}]
    BY <1>1 DEF Absorbed
  <2> HIDE DEF t
  <2>2. b.slot = t /\ b.phase = a.phase /\ b.dueFaults = {}
      /\ b.faults = a.faults /\ b.ambiguous = a.ambiguous /\ b.failed = a.failed
      /\ b.left = a.left /\ b.dueAmbiguous = a.dueAmbiguous /\ b.owed = a.owed
      /\ b.twice = a.twice
    BY <1>3, <2>1 DEF Accounts
  <2> QED BY <2>2 DEF t
<1> QED BY <1>2, <1>3, <1>4, <1>5

(* The unknown outcomes of n are answered.                                 *)
LEMMA AnsweredAccount ==
  ASSUME NEW m, Typed(m), NEW n \in Node
  PROVE  LET x == [m EXCEPT !.due.ambiguous = {r \in @ : r[1] # n}]
             a == Account(m, n)
             b == Account(x, n)
         IN /\ Typed(x) /\ Edits(m, x, n, b) /\ x.scope = m.scope
            /\ b \in Accounts /\ b.slot = a.slot /\ b.phase = a.phase /\ b.dueAmbiguous = {}
            /\ b.faults = a.faults /\ b.ambiguous = a.ambiguous /\ b.failed = a.failed
            /\ b.left = a.left /\ b.dueFaults = a.dueFaults /\ b.owed = a.owed
            /\ b.twice = a.twice
<1> DEFINE x == [m EXCEPT !.due.ambiguous = {r \in @ : r[1] # n}]
           a == Account(m, n)
           b == Account(x, n)
<1>1. /\ x.body = m.body /\ x.scope = m.scope /\ x.report = m.report /\ x.slot = m.slot
      /\ x.due.ambiguous = {r \in m.due.ambiguous : r[1] # n}
      /\ x.due.faults = m.due.faults /\ x.due.held = m.due.held
      /\ x.due.overlaps = m.due.overlaps
  BY DEF Typed, State, Due
<1>2. Typed(x)
  BY DEF Typed, State, Due
<1> HIDE DEF x
<1>3. \A d \in Node : Of(x.due.ambiguous, d) = IF d = n THEN {} ELSE Of(m.due.ambiguous, d)
  BY <1>1 DEF Of
<1>4. \A d \in Node : d # n => Account(x, d) = Account(m, d)
  BY <1>1, <1>3 DEF Account
<1>5. Edits(m, x, n, b)
  BY <1>1, <1>4 DEF Edits
<1>6. b \in Accounts
  BY <1>2, AccountTyped
<1>7. /\ b.slot = a.slot /\ b.phase = a.phase /\ b.dueAmbiguous = {}
      /\ b.faults = a.faults /\ b.ambiguous = a.ambiguous /\ b.failed = a.failed
      /\ b.left = a.left /\ b.dueFaults = a.dueFaults /\ b.owed = a.owed
      /\ b.twice = a.twice
  BY <1>1, <1>3 DEF Account
<1> QED BY <1>1, <1>2, <1>5, <1>6, <1>7 DEF x

LEMMA ReadyPath ==
  ASSUME Ongoing, NEW m, NEW n \in Node, Begun(m, n), Entry(n, Account(m, n)),
         Account(m, n).phase = "none", m.slot[n].st = "Running", slot[n].st \notin Past,
         IsService(n) => Up(Here) \/ (slot[n].st = "Running" /\ slot[n].timingOut)
  PROVE  Path(MakeReady(m, n))
<1> DEFINE y == Absorb(m, {n})
           keeps == IsService(n) /\ m.slot[n].granted
           serves == IsService(n)
           v == [y.slot[n] EXCEPT !.st = "Ready", !.timer = "none", !.cancelling = FALSE]
           w == [v EXCEPT !.timingOut = FALSE, !.ambiguity = {}]
           s == [w EXCEPT !.initialized = serves, !.granted = keeps]
           c == [y EXCEPT !.slot[n] = s]
           r == [c EXCEPT !.due.ambiguous = {x \in @ : x[1] # n}]
           z == Spawn(r, {n}, "serve")
           a == Account(m, n)
<1>1. Typed(m) /\ a \in Accounts /\ a.slot = m.slot[n] /\ Account(Here, n).slot = slot[n]
  BY BegunSlotIs, BegunHere DEF Begun
<1>2. MakeReady(m, n) = IF IsService(n) THEN z ELSE r
  BY DEF MakeReady
<1>3. keeps \in BOOLEAN /\ serves \in BOOLEAN
  BY DEF IsService
<1>4. /\ Begun(y, n) /\ Typed(y) /\ Account(y, n) \in Accounts /\ y.slot[n] = Account(y, n).slot
      /\ Account(y, n).phase = "none"
      /\ Account(y, n).slot = [a.slot EXCEPT !.parked = {}] /\ Account(y, n).dueFaults = {}
      /\ Account(y, n).faults = a.faults /\ Account(y, n).ambiguous = a.ambiguous
      /\ Account(y, n).failed = a.failed /\ Account(y, n).left = a.left
      /\ Account(y, n).owed = a.owed /\ Account(y, n).twice = a.twice
  <2>1. LET x == Absorb(m, {n})
            e == Account(m, n)
            b == Account(x, n)
         IN /\ Typed(x) /\ Edits(m, x, n, b) /\ b \in Accounts /\ b.phase = e.phase
            /\ b.slot = [e.slot EXCEPT !.parked = {}] /\ b.dueFaults = {}
            /\ b.faults = e.faults /\ b.ambiguous = e.ambiguous /\ b.failed = e.failed
            /\ b.left = e.left /\ b.dueAmbiguous = e.dueAmbiguous /\ b.owed = e.owed
            /\ b.twice = e.twice
    BY <1>1, AbsorbOne
  <2>2. Typed(y) /\ Edits(m, y, n, Account(y, n))
    BY <2>1
  <2> HIDE DEF y
  <2>3. Begun(y, n) /\ y.slot[n] = Account(y, n).slot
    BY <2>2, BegunEdit
  <2> QED BY <2>1, <2>2, <2>3 DEF y
<1> HIDE DEF y, keeps, serves
<1>5. /\ y.slot[n] \in Slot /\ y.slot[n].held = a.slot.held /\ y.slot[n].parked = {}
      /\ y.slot[n].attempt = a.slot.attempt /\ y.slot[n].recovering = a.slot.recovering
  <2> HIDE DEF a
  <2> QED BY <1>1, <1>4, SlotTyped DEF Slot
<1>6. /\ s \in Slot /\ s.st = "Ready" /\ s.held = a.slot.held /\ s.parked = {}
      /\ s.ambiguity = {} /\ s.attempt = a.slot.attempt /\ s.recovering = a.slot.recovering
  <2> HIDE DEF a
  <2>1. /\ v \in Slot /\ v.st = "Ready" /\ v.held = a.slot.held /\ v.parked = {}
        /\ v.attempt = a.slot.attempt /\ v.recovering = a.slot.recovering
    BY <1>5 DEF Slot, NodeStates
  <2> HIDE DEF v
  <2>2. /\ w \in Slot /\ w.st = "Ready" /\ w.held = a.slot.held /\ w.parked = {}
        /\ w.ambiguity = {} /\ w.attempt = a.slot.attempt /\ w.recovering = a.slot.recovering
    BY <2>1 DEF Slot
  <2> HIDE DEF w
  <2> QED BY <1>3, <2>2 DEF Slot
<1>7. s.st \in StatesOf(n)
  BY <1>6, CommonStates
<1>8. r = [c EXCEPT !.due.ambiguous = {x \in @ : x[1] # n}]
  OBVIOUS
<1> HIDE DEF s
<1>9. /\ Begun(c, n) /\ Typed(c) /\ Account(c, n).slot = s /\ Account(c, n).phase = "none"
      /\ Same(Account(y, n), Account(c, n))
  <2>1. LET b == [Account(y, n) EXCEPT !.slot = s]
        IN /\ Begun(c, n) /\ Account(c, n) = b /\ c.slot[n] = s /\ c.scope = y.scope
           /\ b \in Accounts /\ b.slot = s /\ b.phase = Account(y, n).phase
           /\ Same(Account(y, n), b)
    BY <1>4, <1>6, <1>7, BegunSlot
  <2> HIDE DEF c
  <2> QED BY <1>4, <2>1 DEF Begun
<1> HIDE DEF c
<1>10. LET e == Account(c, n)
           b == Account(r, n)
       IN /\ Typed(r) /\ Edits(c, r, n, b) /\ r.scope = c.scope
          /\ b \in Accounts /\ b.slot = e.slot /\ b.phase = e.phase /\ b.dueAmbiguous = {}
          /\ b.faults = e.faults /\ b.ambiguous = e.ambiguous /\ b.failed = e.failed
          /\ b.left = e.left /\ b.dueFaults = e.dueFaults /\ b.owed = e.owed
          /\ b.twice = e.twice
  BY <1>9, AnsweredAccount
<1> HIDE DEF r
<1>11. Begun(r, n) /\ r.slot[n] = s
  BY <1>9, <1>10, BegunEdit
<1> DEFINE b == Account(r, n)
<1>12. /\ b \in Accounts /\ b.slot = s /\ b.phase = "none" /\ b.dueAmbiguous = {}
       /\ b.faults = a.faults /\ b.ambiguous = a.ambiguous /\ b.failed = a.failed
       /\ b.left = a.left /\ b.dueFaults = {} /\ b.owed = a.owed /\ b.twice = a.twice
  BY <1>4, <1>9, <1>10 DEF Same
<1>13. Entry(n, a) /\ a.phase = "none" /\ a.slot.st = "Running"
  BY <1>1
<1>14. CASE ~ IsService(n)
  <2>1. Entry(n, b)
    <3> HIDE DEF a, b
    <3> QED BY <1>1, <1>6, <1>12, <1>13, ReadyEntry
  <2>2. Led(n, Account(Here, n), b)
    BY <1>1, <1>12, RestLed
  <2>3. Path(r)
    BY <1>6, <1>11, <2>1, <2>2, Arrives
  <2> QED BY <1>2, <1>14, <2>3
<1>15. CASE IsService(n)
  <2>1. LET e == Account(Spawn(r, {n}, "serve"), n) IN
         /\ Edits(r, Spawn(r, {n}, "serve"), n, e) /\ e \in Accounts
         /\ e.slot = r.slot[n] /\ e.phase = "serve" /\ Same(b, e)
    BY <1>10, <1>12, SpawnOne
  <2>2. Typed(z)
    BY <1>10, <1>15, SpawnTyped
  <2> DEFINE e == Account(z, n)
  <2>3. Edits(r, z, n, e) /\ e \in Accounts /\ e.slot = s /\ e.phase = "serve" /\ Same(b, e)
    BY <1>11, <2>1
  <2> HIDE DEF z
  <2>4. Begun(z, n) /\ z.slot[n] = s
    BY <1>11, <2>2, <2>3, BegunEdit
  <2>5. Entry(n, e)
    <3> HIDE DEF a, b, e
    <3> QED BY <1>1, <1>6, <1>12, <1>13, <2>3, ReadyEntry DEF Same
  <2>6. Led(n, Account(Here, n), e)
    BY <1>1, <1>6, <1>15, <2>3 DEF Led
  <2>7. Path(z)
    BY <1>6, <2>4, <2>5, <2>6, Arrives
  <2> QED BY <1>2, <1>15, <2>7
<1> QED BY <1>14, <1>15

-----------------------------------------------------------------------------
(* Nodes are abandoned.                                                    *)

LEMMA AbandonAccount ==
  ASSUME NEW m, Typed(m), NEW S \in SUBSET Node, NEW n \in Node
  PROVE  LET x == Abandon(m, S)
             a == Account(m, n)
             c == Account(x, n)
         IN /\ x.scope = m.scope
            /\ n \notin S => c = a
            /\ n \in S =>
                 /\ c.phase = a.phase /\ c.slot.st = "Abandoned"
                 /\ c.slot.attempt = a.slot.attempt /\ c.slot.restarts = a.slot.restarts
                 /\ c.slot.held = a.slot.held /\ c.slot.recovering = a.slot.recovering
                 /\ c.slot.parked = {} /\ c.slot.ambiguity = {}
                 /\ c.faults = a.faults \cup a.slot.parked
                 /\ c.ambiguous = a.ambiguous \cup a.slot.ambiguity
                 /\ c.left /\ ~ c.owed /\ c.twice = a.twice
                 /\ c.dueFaults = a.dueFaults /\ c.dueAmbiguous = a.dueAmbiguous
<1> DEFINE T == {d \in S : Decl(d).kind # "BlockingStep"}
           g == Abort(m, T)
           f == FlushFaults(g, S)
           x == Abandon(m, S)
           t == [f.slot[n] EXCEPT !.st = "Abandoned", !.timer = "none",
                           !.granted = FALSE, !.cancelling = FALSE, !.timedOut = FALSE]
           a == Account(m, n)
           b == Account(f, n)
           c == Account(x, n)
<1>1. Typed(g) /\ Typed(f)
  BY AbortTyped, FlushFaultsTyped
<1>2. f.scope = m.scope /\ b = IF n \in S THEN Flushed(a) ELSE a
  <2>1. g.scope = m.scope /\ Account(g, n) = a
    BY AbortAccount
  <2>2. f.scope = g.scope
        /\ Account(f, n) = IF n \in S THEN Flushed(Account(g, n)) ELSE Account(g, n)
    BY <1>1, FlushAccount
  <2> QED BY <2>1, <2>2
<1>3. a \in Accounts /\ b \in Accounts /\ b.slot = f.slot[n]
  BY <1>1, AccountTyped DEF Account
<1> HIDE DEF f
<1>4. /\ x.body = f.body /\ x.scope = f.scope
      /\ x.report.faults = f.report.faults /\ x.report.ambiguous = f.report.ambiguous
      /\ x.report.incomplete = f.report.incomplete \cup S
      /\ \E R \in SUBSET S : x.report.cleanupFailures = f.report.cleanupFailures \cup R
      /\ x.due.faults = f.due.faults /\ x.due.ambiguous = f.due.ambiguous
      /\ x.due.held = f.due.held \ S /\ x.due.overlaps = f.due.overlaps
      /\ x.slot[n] = IF n \in S THEN t ELSE f.slot[n]
  <2> DEFINE R == {d \in S : m.slot[d].st = "Compensating" /\ m.slot[d].recovering}
  <2>1. x = [f EXCEPT
               !.slot = [d \in Node |->
                  IF d \in S THEN [f.slot[d] EXCEPT !.st = "Abandoned", !.timer = "none",
                           !.granted = FALSE, !.cancelling = FALSE, !.timedOut = FALSE]
                  ELSE f.slot[d]],
               !.report.incomplete = @ \cup S, !.report.cleanupFailures = @ \cup R,
               !.due.held = @ \ S]
    BY DEF Abandon, f
  <2> HIDE DEF x, R
  <2>2. x.report.cleanupFailures = f.report.cleanupFailures \cup R
    BY <1>1, <2>1 DEF Typed, State, Report, Due
  <2>3. R \in SUBSET S
    BY DEF R
  <2> QED BY <1>1, <2>1, <2>2, <2>3 DEF Typed, State, Report, Due, t
<1> HIDE DEF x
<1>5. /\ t.st = "Abandoned" /\ t.attempt = b.slot.attempt /\ t.restarts = b.slot.restarts
      /\ t.held = b.slot.held /\ t.recovering = b.slot.recovering
      /\ t.parked = b.slot.parked /\ t.ambiguity = b.slot.ambiguity
  <2>1. f.slot[n] \in Slot
    BY <1>1, SlotTyped
  <2> HIDE DEF b
  <2> QED BY <1>3, <2>1 DEF Slot
<1> HIDE DEF t
<1>6. ASSUME n \notin S PROVE c = a
  <2>1. /\ (n \in x.report.incomplete) = (n \in f.report.incomplete)
        /\ (n \in x.due.held) = (n \in f.due.held)
        /\ x.slot[n] = f.slot[n]
    BY <1>4, <1>6
  <2>2. PICK R \in SUBSET S : x.report.cleanupFailures = f.report.cleanupFailures \cup R
    BY <1>4
  <2>3. (n \in x.report.cleanupFailures) = (n \in f.report.cleanupFailures)
    BY <1>6, <2>2
  <2>4. c = b
    BY <1>4, <2>1, <2>3 DEF Account
  <2> QED BY <1>2, <1>6, <2>4
<1>7. ASSUME n \in S
      PROVE  /\ c.phase = a.phase /\ c.slot.st = "Abandoned"
             /\ c.slot.attempt = a.slot.attempt /\ c.slot.restarts = a.slot.restarts
             /\ c.slot.held = a.slot.held /\ c.slot.recovering = a.slot.recovering
             /\ c.slot.parked = {} /\ c.slot.ambiguity = {}
             /\ c.faults = a.faults \cup a.slot.parked
             /\ c.ambiguous = a.ambiguous \cup a.slot.ambiguity
             /\ c.left /\ ~ c.owed /\ c.twice = a.twice
             /\ c.dueFaults = a.dueFaults /\ c.dueAmbiguous = a.dueAmbiguous
  <2>1. /\ c.phase = b.phase /\ c.slot = t /\ c.faults = b.faults
        /\ c.ambiguous = b.ambiguous /\ c.left /\ ~ c.owed /\ c.twice = b.twice
        /\ c.dueFaults = b.dueFaults /\ c.dueAmbiguous = b.dueAmbiguous
    BY <1>4, <1>7 DEF Account
  <2>2. LET s == [a.slot EXCEPT !.parked = {}, !.ambiguity = {}] IN
         /\ s.st = a.slot.st /\ s.parked = {} /\ s.ambiguity = {}
         /\ s.attempt = a.slot.attempt /\ s.held = a.slot.held
         /\ s.recovering = a.slot.recovering /\ s.restarts = a.slot.restarts
    <3> HIDE DEF a
    <3> QED BY <1>3, FlushedSlot
  <2> HIDE DEF a, b, c
  <2>3. /\ b.slot = [a.slot EXCEPT !.parked = {}, !.ambiguity = {}] /\ b.phase = a.phase
        /\ b.faults = a.faults \cup a.slot.parked
        /\ b.ambiguous = a.ambiguous \cup a.slot.ambiguity /\ b.twice = a.twice
        /\ b.dueFaults = a.dueFaults /\ b.dueAmbiguous = a.dueAmbiguous
    <3> DEFINE s == [a.slot EXCEPT !.parked = {}, !.ambiguity = {}]
    <3>1. b = [a EXCEPT !.slot = s, !.faults = @ \cup a.slot.parked,
                        !.ambiguous = @ \cup a.slot.ambiguity]
      BY <1>2, <1>7 DEF Flushed
    <3> HIDE DEF s
    <3>2. /\ b.slot = s /\ b.phase = a.phase
        /\ b.faults = a.faults \cup a.slot.parked
        /\ b.ambiguous = a.ambiguous \cup a.slot.ambiguity /\ b.twice = a.twice
        /\ b.dueFaults = a.dueFaults /\ b.dueAmbiguous = a.dueAmbiguous
      BY <1>3, <3>1 DEF Accounts
    <3> QED BY <3>2 DEF s
  <2> QED BY <1>5, <2>1, <2>2, <2>3
<1> QED BY <1>2, <1>4, <1>6, <1>7 DEF x

LEMMA AbandonedEntry ==
  ASSUME NEW n \in Node, NEW a \in Accounts, Entry(n, a), NEW c,
         c.phase = a.phase, c.slot.st = "Abandoned", c.slot.attempt = a.slot.attempt,
         c.slot.restarts = a.slot.restarts, c.slot.recovering = a.slot.recovering,
         c.slot.parked = {}, c.slot.ambiguity = {},
         c.faults = a.faults \cup a.slot.parked,
         c.ambiguous = a.ambiguous \cup a.slot.ambiguity, c.left, ~ c.owed,
         c.twice = a.twice, c.dueFaults = a.dueFaults, c.dueAmbiguous = a.dueAmbiguous
  PROVE  Entry(n, c) /\ Led(n, a, c)
<1>1. Tasked(c) /\ Parks(n, c) /\ Lists(c)
  BY DEF Entry, Draft, Tasked, Parks, Lists, Past
<1>2. Balanced(n, c)
  BY DEF Entry, Draft, Balanced, Holding
<1>3. Earned(n, c)
  BY DEF Entry, Draft, Earned, Unstarted, Doubtful
<1> QED BY <1>1, <1>2, <1>3 DEF Entry, Draft, Led, Past

LEMMA AbandonPath ==
  ASSUME Ongoing, NEW S \in SUBSET In(Here, CleanupStates \cup {"Running", "RetryRelease"})
  PROVE  Path(Abandon(Here, S))
<1> DEFINE x == Abandon(Here, S)
<1>1. Typed(Here) /\ S \in SUBSET Node
  BY HereNear DEF Ongoing, In
<1>2. Typed(x)
  BY AbandonHere DEF Ongoing, Near
<1>3. ASSUME NEW n \in Node
      PROVE  Entry(n, Account(x, n)) /\ Told(x, n) /\ Led(n, Account(Here, n), Account(x, n))
             /\ x.scope = Here.scope
  <2> DEFINE a == Account(Here, n)
             c == Account(x, n)
  <2>1. /\ x.scope = Here.scope
        /\ n \notin S => c = a
        /\ n \in S =>
             /\ c.phase = a.phase /\ c.slot.st = "Abandoned"
             /\ c.slot.attempt = a.slot.attempt /\ c.slot.restarts = a.slot.restarts
             /\ c.slot.held = a.slot.held /\ c.slot.recovering = a.slot.recovering
             /\ c.slot.parked = {} /\ c.slot.ambiguity = {}
             /\ c.faults = a.faults \cup a.slot.parked
             /\ c.ambiguous = a.ambiguous \cup a.slot.ambiguity
             /\ c.left /\ ~ c.owed /\ c.twice = a.twice
             /\ c.dueFaults = a.dueFaults /\ c.dueAmbiguous = a.dueAmbiguous
    BY <1>1, AbandonAccount
  <2>2. a \in Accounts /\ Entry(n, a) /\ Told(Here, n) /\ a.slot = Here.slot[n]
        /\ c.slot = x.slot[n]
    BY <1>1, AccountTyped DEF Ongoing, Books, Account
  <2> HIDE DEF a, c, x
  <2>3. CASE n \in S
    BY <2>1, <2>2, <2>3, AbandonedEntry DEF Told, a, c
  <2>4. CASE n \notin S
    <3>1. Told(x, n)
      BY <2>1, <2>2, <2>4 DEF Told, Up
    <3> QED BY <2>1, <2>2, <2>4, <3>1, GoesLed DEF Goes, a, c
  <2> QED BY <2>3, <2>4
<1>4. x.scope = Here.scope
  BY <1>1, HereNear DEF Ongoing, Abandon, FlushFaults, Abort, Typed, State
<1> HIDE DEF x
<1>5. ~ Rests(x) /\ (Admits(x) => Up(Here))
  BY <1>4 DEF Rests, Admits, Up, Ongoing
<1> QED BY <1>2, <1>3, <1>5 DEF Path, Books, x

-----------------------------------------------------------------------------
(* The tail of an event.                                                   *)

LEMMA PathFields ==
  ASSUME NEW m, Path(m), NEW n \in Node
  PROVE  /\ Typed(m) /\ Account(m, n) \in Accounts /\ Account(m, n).slot = m.slot[n]
         /\ Entry(n, Account(m, n)) /\ Told(m, n) /\ Led(n, Account(Here, n), Account(m, n))
         /\ m.slot[n] \in Slot /\ m.slot[n].st \in StatesOf(n)
         /\ (Account(m, n).phase = "serve" => IsService(n))
BY AccountTyped, SlotTyped DEF Path, Books, Account, Typed

(* Only the scope changes.                                                 *)
LEMMA PathScope ==
  ASSUME NEW m, Path(m), NEW x, Typed(x), x.slot = m.slot, x.body = m.body,
         x.report = m.report, x.due = m.due, ~ Rests(x), Admits(x) => Up(Here),
         Up(m) => Up(x)
  PROVE  Path(x)
<1>1. \A n \in Node : Account(x, n) = Account(m, n)
  BY DEF Account
<1>2. \A n \in Node : Told(x, n)
  BY DEF Path, Books, Told
<1> QED BY <1>1, <1>2 DEF Path, Books

LEMMA EnqueuePath ==
  ASSUME NEW m, Path(m), Admits(m)
  PROVE  Path(Enqueue(m)) /\ Admits(Enqueue(m))
<1> DEFINE lost   == {n \in In(m, {"Waiting"}) : ~ NeedsReady(m, n)}
           joined == {n \in In(m, {"Pending"}) : NeedsReady(m, n)}
           next(n) == IF n \in lost THEN "Pending"
                      ELSE IF n \in joined THEN "Waiting" ELSE m.slot[n].st
           moved(n) == [m.slot[n] EXCEPT !.st = next(n)]
           q == Enqueue(m)
<1>1. Typed(m) /\ Typed(q)
  BY EnqueueTyped DEF Path
<1>2. \A n \in Node : next(n) = m.slot[n].st
                      \/ (m.slot[n].st \in Unstarted /\ next(n) \in Unstarted)
  BY DEF In, Unstarted
<1>3. /\ q.body = m.body /\ q.report = m.report /\ q.due = m.due /\ q.scope.st = "Admitting"
      /\ \A n \in Node : q.slot[n] = moved(n)
  <2> HIDE DEF next
  <2>1. \A n \in Node : [m.slot[n] EXCEPT !.st = IF n \in lost THEN "Pending"
                                    ELSE IF n \in joined THEN "Waiting" ELSE @] = moved(n)
    BY DEF next
  <2> HIDE DEF moved
  <2> QED BY <1>1, <2>1 DEF Enqueue, Typed, State, Scope
<1> HIDE DEF q, next
<1>4. ASSUME NEW n \in Node
      PROVE  Entry(n, Account(q, n)) /\ Told(q, n) /\ Led(n, Account(Here, n), Account(q, n))
  <2> DEFINE a == Account(m, n)
             t == moved(n)
  <2>1. /\ a \in Accounts /\ a.slot = m.slot[n] /\ Entry(n, a) /\ Told(m, n)
        /\ Led(n, Account(Here, n), a) /\ m.slot[n] \in Slot
    BY PathFields
  <2>4. q.slot[n] = t
    BY <1>3
  <2>7. q.body[n].phase = m.body[n].phase
    BY <1>3
  <2>2. Account(q, n) = [a EXCEPT !.slot = t]
    <3> HIDE DEF moved
    <3> QED BY <1>3, <2>4, <2>7, SlotsAccount
  <2>3. t \in Slot /\ t.st = next(n) /\ Kept(m.slot[n], t) /\ t.attempt = m.slot[n].attempt
        /\ (t.st = m.slot[n].st => t = m.slot[n])
    <3>1. next(n) \in NodeStates
      BY <1>2, <2>1 DEF Slot, NodeStates, Unstarted
    <3> QED BY <2>1, <3>1 DEF Slot, Kept
  <2> HIDE DEF a, t
  <2>5. Entry(n, Account(q, n)) /\ Goes(a, Account(q, n))
    BY <1>2, <2>1, <2>2, <2>3, KeptEntry
  <2>6. Told(q, n)
    BY <1>2, <1>3, <2>1, <2>3, <2>4 DEF Told, Unstarted, Up
  <2> QED BY <2>1, <2>5, <2>6, LedGoes
<1>5. ~ Rests(q) /\ Admits(q) /\ Up(Here)
  BY <1>3 DEF Rests, Admits, Path
<1> QED BY <1>1, <1>4, <1>5 DEF Path, Books, q

(* A body, a join or a next episode starts.                                *)
LEMMA StartedEntry ==
  ASSUME NEW n \in Node, NEW a \in Accounts, Entry(n, a), a.slot.st = "Waiting",
         NEW c, c.slot.attempt = a.slot.attempt + 1, ~ c.slot.held,
         c.slot.recovering = a.slot.recovering, c.slot.parked = a.slot.parked,
         c.slot.ambiguity = a.slot.ambiguity,
         \/ c.slot.st = "Running" /\ c.phase = "run" /\ Decl(n).kind # "Join"
         \/ c.slot.st = "Publishing" /\ c.phase = "none" /\ Decl(n).kind = "Join",
         Same(a, c)
  PROVE  Entry(n, c)
<1>1. Tasked(c) /\ Parks(n, c) /\ Lists(c)
  BY DEF Entry, Draft, Tasked, Parks, Lists, Same, Undecided, Past
<1>2. Balanced(n, c)
  BY DEF Entry, Draft, Balanced, Same, Holding
<1>3. a.faults = {} /\ a.ambiguous = {}
  BY DEF Entry, Lists, Past
<1>4. Earned(n, c)
  BY <1>2, <1>3 DEF Entry, Draft, Earned, Balanced, Same, Unstarted, Doubtful
<1> QED BY <1>1, <1>2, <1>4 DEF Entry, Draft

LEMMA RestartedEntry ==
  ASSUME NEW n \in Node, NEW a \in Accounts, Entry(n, a), a.slot.st = "Waiting",
         IsService(n), NEW c, c.phase = "serve", c.slot.st = "Ready", ~ c.slot.held,
         c.slot.attempt = a.slot.attempt, c.slot.recovering = a.slot.recovering,
         c.slot.parked = {}, c.slot.ambiguity = a.slot.ambiguity, c.dueFaults = {},
         c.faults = a.faults, c.ambiguous = a.ambiguous, c.failed = a.failed,
         c.left = a.left, c.dueAmbiguous = a.dueAmbiguous, c.owed = a.owed,
         c.twice = a.twice
  PROVE  Entry(n, c)
<1>1. a.faults = {} /\ a.ambiguous = {} /\ a.slot.ambiguity = {}
  BY DEF Entry, Draft, Earned, Lists, Past, IsService
<1>2. Tasked(c) /\ Parks(n, c) /\ Lists(c)
  BY <1>1 DEF Entry, Draft, Tasked, Parks, Lists
<1>3. Balanced(n, c)
  BY <1>1 DEF Entry, Draft, Balanced, Holding
<1>4. Earned(n, c)
  BY <1>1, <1>3 DEF Entry, Draft, Earned, Balanced, Unstarted
<1> QED BY <1>2, <1>3, <1>4 DEF Entry, Draft

LEMMA StartedSlotIs ==
  ASSUME NEW m, Typed(m), NEW n \in Node
  PROVE  LET s == m.slot[n]
             t == StartedSlot(m, n)
         IN /\ t \in Slot /\ ~ t.held /\ t.recovering = s.recovering /\ t.parked = s.parked
            /\ t.ambiguity = s.ambiguity /\ t.restarts = s.restarts /\ ~ t.cancelling
            /\ t.initialized = s.initialized
            /\ \/ IsService(n) /\ s.initialized /\ t.st = "Ready" /\ t.attempt = s.attempt
               \/ /\ Decl(n).kind = "Join" /\ t.st = "Publishing" /\ t.attempt = s.attempt + 1
               \/ /\ ~ (IsService(n) /\ s.initialized) /\ Decl(n).kind # "Join"
                  /\ t.st = "Running" /\ t.attempt = s.attempt + 1
<1> DEFINE r == m.slot[n]
           s == [r EXCEPT !.granted = TRUE, !.held = FALSE, !.cancelling = FALSE,
                          !.signalled = FALSE, !.timingOut = FALSE, !.timedOut = FALSE]
           t == StartedSlot(m, n)
<1>1. r \in Slot /\ r.attempt + 1 \in Nat
  BY SlotTyped, Counters
<1>2. t \in Slot
  BY StartedSlotTyped
<1>3. /\ s \in Slot /\ ~ s.held /\ ~ s.cancelling /\ s.recovering = r.recovering
      /\ s.parked = r.parked /\ s.ambiguity = r.ambiguity /\ s.restarts = r.restarts
      /\ s.attempt = r.attempt /\ s.initialized = r.initialized
  BY <1>1 DEF Slot
<1>4. CASE IsService(n) /\ r.initialized
  <2>1. t = [s EXCEPT !.st = "Ready"]
    BY <1>3, <1>4 DEF StartedSlot, IsService, s
  <2> HIDE DEF s, t, r
  <2> QED BY <1>2, <1>3, <1>4, <2>1 DEF Slot, s, t, r
<1>5. CASE ~ (IsService(n) /\ r.initialized) /\ Decl(n).kind = "Join"
  <2>1. t = [s EXCEPT !.st = "Publishing", !.attempt = @ + 1, !.granted = FALSE,
                      !.publishing = TRUE]
    BY <1>3, <1>5 DEF StartedSlot, s
  <2> HIDE DEF s, t
  <2>2. /\ ~ t.held /\ ~ t.cancelling /\ t.recovering = s.recovering
        /\ t.parked = s.parked /\ t.ambiguity = s.ambiguity /\ t.restarts = s.restarts
        /\ t.initialized = s.initialized /\ t.st = "Publishing" /\ t.attempt = s.attempt + 1
    BY <1>3, <2>1 DEF Slot
  <2> QED BY <1>2, <1>3, <1>5, <2>2 DEF t
<1>6. CASE ~ (IsService(n) /\ r.initialized) /\ Decl(n).kind # "Join"
  <2> DEFINE w == IF Decl(n).within THEN "Within" ELSE s.timer
  <2>1. t = [s EXCEPT !.st = "Running", !.attempt = @ + 1, !.timer = w]
    BY <1>3, <1>6 DEF StartedSlot, s
  <2> HIDE DEF s, t, w
  <2>2. /\ ~ t.held /\ ~ t.cancelling /\ t.recovering = s.recovering
        /\ t.parked = s.parked /\ t.ambiguity = s.ambiguity /\ t.restarts = s.restarts
        /\ t.initialized = s.initialized /\ t.st = "Running" /\ t.attempt = s.attempt + 1
    BY <1>3, <2>1 DEF Slot
  <2> QED BY <1>2, <1>3, <1>6, <2>2 DEF t
<1> QED BY <1>4, <1>5, <1>6

(* What a pass makes of an account.                                        *)
LEMMA StartAccount ==
  ASSUME NEW m, Typed(m), NEW G \in SUBSET In(m, {"Waiting"}), NEW n \in Node,
         Account(m, n).phase = "none"
  PROVE  LET x == Start(m, G)
             a == Account(m, n)
             t == StartedSlot(m, n)
             c == Account(x, n)
         IN /\ x.scope = m.scope /\ c.faults = a.faults /\ c.ambiguous = a.ambiguous
            /\ c.failed = a.failed /\ c.left = a.left /\ c.owed = a.owed /\ c.twice = a.twice
            /\ c.dueAmbiguous = a.dueAmbiguous /\ c.slot = x.slot[n] /\ c \in Accounts
            /\ n \in G => c.slot.attempt = t.attempt /\ c.slot.st = t.st
                          /\ ~ c.slot.held /\ c.slot.recovering = t.recovering
                          /\ c.slot.ambiguity = t.ambiguity
            /\ n \in G /\ IsService(n) /\ m.slot[n].initialized =>
                 c.phase = "serve" /\ c.slot.parked = {} /\ c.dueFaults = {}
            /\ n \in G /\ ~ (IsService(n) /\ m.slot[n].initialized) =>
                 /\ c.slot = t /\ c.dueFaults = a.dueFaults
                 /\ c.phase = IF Decl(n).kind = "Join" THEN "none" ELSE "run"
<1> DEFINE recovered == {d \in G : IsService(d) /\ m.slot[d].initialized}
           spawned   == {d \in G \ recovered : Decl(d).kind # "Join"}
           slots == [d \in Node |-> IF d \in G THEN StartedSlot(m, d) ELSE m.slot[d]]
           aheads == [d \in Node |-> IF d \in G THEN {} ELSE m.ahead[d] \ G]
           started == [m EXCEPT !.slot = slots, !.ahead = aheads]
           y == Absorb(started, recovered)
           z == Spawn(y, recovered, "serve")
           x == Spawn(z, spawned, "run")
           a == Account(m, n)
           t == StartedSlot(m, n)
           b == Account(started, n)
           c == Account(x, n)
<1>1. G \in SUBSET Node /\ recovered \in SUBSET Node /\ spawned \in SUBSET Node
      /\ recovered \cap spawned = {}
  BY DEF In
<1>2. slots \in [Node -> Slot] /\ \A d \in Node : slots[d].st \in StatesOf(d)
  BY StartedSlotTyped, SlotTyped
<1>3. aheads \in [Node -> SUBSET Node]
  BY DEF Typed, State
<1>4. Typed(started)
  <2> HIDE DEF slots, aheads
  <2> QED BY <1>2, <1>3 DEF Typed, State
<1>5. /\ started.scope = m.scope /\ started.body = m.body /\ started.report = m.report
      /\ started.due = m.due /\ started.slot[n] = IF n \in G THEN t ELSE m.slot[n]
  <2>1. /\ started.scope = m.scope /\ started.body = m.body /\ started.report = m.report
        /\ started.due = m.due /\ started.slot = slots
    <3> HIDE DEF slots, aheads
    <3> QED BY DEF Typed, State
  <2> HIDE DEF started
  <2> QED BY <2>1
<1>6. (recovered # {} => TRUE) /\ \A d \in recovered : IsService(d)
  OBVIOUS
<1>7. Start(m, G) = x
  BY DEF Start
<1>8. Typed(y) /\ Typed(z) /\ Typed(x)
  <2> HIDE DEF started, recovered, spawned
  <2> QED BY <1>1, <1>4, <1>6, AbsorbTyped, SpawnTyped
<1> HIDE DEF started, recovered, spawned
<1>9. a \in Accounts /\ c \in Accounts /\ c.slot = x.slot[n] /\ a.slot = m.slot[n]
  <2> HIDE DEF x
  <2> QED BY <1>8, AccountTyped DEF Account
<1>10. x.scope = m.scope
  BY <1>1, <1>4, <1>5, <1>8, AbsorbAccount, SpawnAccount
<1>11. /\ t \in Slot /\ b \in Accounts /\ b.slot = (IF n \in G THEN t ELSE a.slot)
       /\ b.phase = "none" /\ Same(a, b)
  <2>1. t \in Slot
    BY StartedSlotTyped
  <2>2. b = [a EXCEPT !.slot = started.slot[n]]
    BY <1>5, SlotsAccount
  <2>3. started.slot[n] \in Slot /\ started.slot[n] = IF n \in G THEN t ELSE a.slot
    BY <1>4, <1>5, <1>9, SlotTyped
  <2> HIDE DEF a, b
  <2> QED BY <1>9, <2>1, <2>2, <2>3, SlotField DEF a
<1>12. /\ Account(y, n) = IF n \in recovered THEN Absorbed(b) ELSE b
       /\ Account(z, n) = IF n \in recovered THEN Spawned(Account(y, n), "serve")
                          ELSE Account(y, n)
       /\ c = IF n \in spawned THEN Spawned(Account(z, n), "run") ELSE Account(z, n)
  BY <1>1, <1>4, <1>8, AbsorbAccount, SpawnAccount
<1> HIDE DEF y, z, x, b, c, t, a
<1>13. CASE n \in recovered
  <2>1. n \in G /\ IsService(n) /\ m.slot[n].initialized /\ n \notin spawned
    BY <1>1, <1>13 DEF recovered
  <2> DEFINE e == Absorbed(b)
  <2>2. c = Spawned(e, "serve")
    BY <1>12, <1>13, <2>1
  <2>3. /\ e \in Accounts /\ e.slot = [t EXCEPT !.parked = {}] /\ e.dueFaults = {}
        /\ e.phase = "none" /\ e.faults = a.faults /\ e.ambiguous = a.ambiguous
        /\ e.failed = a.failed /\ e.left = a.left /\ e.owed = a.owed /\ e.twice = a.twice
        /\ e.dueAmbiguous = a.dueAmbiguous
    <3> DEFINE u == [t EXCEPT !.parked = {}]
    <3>1. u \in Slot
      BY <1>11 DEF Slot
    <3>2. e = [b EXCEPT !.slot = u, !.dueFaults = {}]
      BY <1>11, <2>1 DEF Absorbed
    <3> HIDE DEF u, e
    <3> QED BY <1>11, <3>1, <3>2 DEF Accounts, Same, u
  <2> HIDE DEF e
  <2>4. /\ c.slot = e.slot /\ c.dueFaults = e.dueFaults /\ c.phase = "serve"
        /\ c.faults = e.faults /\ c.ambiguous = e.ambiguous /\ c.failed = e.failed
        /\ c.left = e.left /\ c.owed = e.owed /\ c.dueAmbiguous = e.dueAmbiguous
        /\ c.twice = (e.twice \/ e.phase # "none")
    BY <2>2, <2>3 DEF Accounts, Spawned
  <2>5. c.twice = a.twice
    BY <1>9, <2>3, <2>4 DEF Accounts
  <2>6. /\ c.slot.attempt = t.attempt /\ c.slot.st = t.st /\ c.slot.held = t.held
        /\ c.slot.recovering = t.recovering /\ c.slot.ambiguity = t.ambiguity
        /\ c.slot.parked = {}
    BY <1>11, <2>3, <2>4 DEF Slot
  <2> QED BY <1>7, <1>9, <1>10, <2>1, <2>3, <2>4, <2>5, <2>6, StartedSlotIs DEF a, c, t
<1>14. CASE n \notin recovered /\ n \in spawned
  <2>1. n \in G /\ ~ (IsService(n) /\ m.slot[n].initialized) /\ Decl(n).kind # "Join"
    BY <1>14 DEF spawned, recovered
  <2>2. c = Spawned(b, "run")
    BY <1>12, <1>14
  <2>3. /\ c.slot = b.slot /\ c.dueFaults = b.dueFaults /\ c.phase = "run"
        /\ c.faults = b.faults /\ c.ambiguous = b.ambiguous /\ c.failed = b.failed
        /\ c.left = b.left /\ c.owed = b.owed /\ c.dueAmbiguous = b.dueAmbiguous
        /\ c.twice = (b.twice \/ b.phase # "none")
    BY <1>11, <2>2 DEF Accounts, Spawned
  <2>4. c.twice = a.twice
    BY <1>9, <1>11, <2>3 DEF Accounts, Same
  <2> QED BY <1>7, <1>9, <1>10, <1>11, <2>1, <2>3, <2>4, StartedSlotIs DEF a, c, t, Same
<1>15. CASE n \notin recovered /\ n \notin spawned
  <2>1. n \in G => ~ (IsService(n) /\ m.slot[n].initialized) /\ Decl(n).kind = "Join"
    BY <1>15 DEF spawned, recovered
  <2>2. c = b
    BY <1>12, <1>15
  <2> QED BY <1>7, <1>9, <1>10, <1>11, <2>1, <2>2, StartedSlotIs DEF a, c, t, Same
<1> QED BY <1>13, <1>14, <1>15

LEMMA StartOthers ==
  ASSUME NEW m, Typed(m), NEW G \in SUBSET Node
  PROVE  LET x == Start(m, G) IN
         /\ x.scope = m.scope
         /\ \A n \in Node : n \notin G => Account(x, n) = Account(m, n)
<1> DEFINE recovered == {d \in G : IsService(d) /\ m.slot[d].initialized}
           spawned   == {d \in G \ recovered : Decl(d).kind # "Join"}
           slots == [d \in Node |-> IF d \in G THEN StartedSlot(m, d) ELSE m.slot[d]]
           aheads == [d \in Node |-> IF d \in G THEN {} ELSE m.ahead[d] \ G]
           started == [m EXCEPT !.slot = slots, !.ahead = aheads]
           y == Absorb(started, recovered)
           z == Spawn(y, recovered, "serve")
           x == Spawn(z, spawned, "run")
<1>1. recovered \in SUBSET G /\ spawned \in SUBSET G /\ \A d \in recovered : IsService(d)
  OBVIOUS
<1>2. slots \in [Node -> Slot] /\ \A d \in Node : slots[d].st \in StatesOf(d)
  BY StartedSlotTyped, SlotTyped
<1>3. aheads \in [Node -> SUBSET Node]
  BY DEF Typed, State
<1>4. Typed(started)
  <2> HIDE DEF slots, aheads
  <2> QED BY <1>2, <1>3 DEF Typed, State
<1>5. /\ started.scope = m.scope /\ started.body = m.body /\ started.report = m.report
      /\ started.due = m.due /\ started.slot = slots
  <2> HIDE DEF slots, aheads
  <2> QED BY DEF Typed, State
<1>7. Start(m, G) = x
  BY DEF Start
<1> HIDE DEF started
<1>6. ASSUME NEW n \in Node, n \notin G PROVE Account(started, n) = Account(m, n)
  BY <1>5, <1>6 DEF Account
<1> HIDE DEF recovered, spawned, slots
<1>8. Typed(y) /\ Typed(z) /\ Typed(x)
  BY <1>1, <1>4, AbsorbTyped, SpawnTyped
<1>9. x.scope = started.scope
  BY <1>1, <1>4 DEF Absorb, Spawn, Typed, State
<1>10. ASSUME NEW n \in Node, n \notin G PROVE Account(x, n) = Account(started, n)
  <2>1. n \notin recovered /\ n \notin spawned
    BY <1>1, <1>10
  <2>2. Account(y, n) = Account(started, n)
    BY <1>1, <1>4, <2>1, AbsorbAccount
  <2>3. Account(z, n) = Account(y, n)
    BY <1>1, <1>8, <2>1, SpawnAccount
  <2>4. Account(x, n) = Account(z, n)
    BY <1>1, <1>8, <2>1, SpawnAccount
  <2> QED BY <2>2, <2>3, <2>4
<1> HIDE DEF x, y, z
<1> QED BY <1>5, <1>6, <1>7, <1>9, <1>10

(* A pass over the queue.                                                  *)
LEMMA StartPath ==
  ASSUME NEW m, Path(m), Admits(m), NEW G \in SUBSET In(m, {"Waiting"})
  PROVE  Path(Start(m, G))
<1> DEFINE x == Start(m, G)
<1>1. G \in SUBSET Node /\ Up(Here)
  BY DEF In, Path
<1>2. Typed(x)
  BY <1>1, StartTyped DEF Path
<1>3. ASSUME NEW n \in Node
      PROVE  /\ Entry(n, Account(x, n)) /\ Told(x, n)
             /\ Led(n, Account(Here, n), Account(x, n)) /\ x.scope = m.scope
  <2> DEFINE a == Account(m, n)
             c == Account(x, n)
  <2>1. /\ a \in Accounts /\ a.slot = m.slot[n] /\ Entry(n, a) /\ Told(m, n)
        /\ Led(n, Account(Here, n), a) /\ Typed(m)
    BY PathFields
  <2>2. x.scope = m.scope /\ (n \notin G => c = a /\ x.slot[n] = m.slot[n])
    <3>1. x.scope = m.scope /\ (n \notin G => c = a)
      BY <1>1, <2>1, StartOthers
    <3>2. c.slot = x.slot[n] /\ a.slot = m.slot[n]
      BY DEF Account
    <3> QED BY <3>1, <3>2
  <2>3. CASE n \notin G
    <3>1. Told(x, n)
      BY <2>1, <2>2, <2>3 DEF Told, Up
    <3> QED BY <2>1, <2>2, <2>3, <3>1
  <2>4. CASE n \in G
    <3> DEFINE t == StartedSlot(m, n)
    <3>1. a.slot.st = "Waiting"
      BY <2>1, <2>4 DEF In
    <3>2. a.phase = "none"
      BY <2>1, <3>1 DEF Entry, Draft, Tasked, Accounts
    <3>3. /\ c.faults = a.faults /\ c.ambiguous = a.ambiguous
          /\ c.failed = a.failed /\ c.left = a.left /\ c.owed = a.owed /\ c.twice = a.twice
          /\ c.dueAmbiguous = a.dueAmbiguous /\ c.slot = x.slot[n] /\ c \in Accounts
          /\ c.slot.attempt = t.attempt /\ c.slot.st = t.st
          /\ ~ c.slot.held /\ c.slot.recovering = t.recovering
          /\ c.slot.ambiguity = t.ambiguity
          /\ IsService(n) /\ m.slot[n].initialized =>
                c.phase = "serve" /\ c.slot.parked = {} /\ c.dueFaults = {}
          /\ ~ (IsService(n) /\ m.slot[n].initialized) =>
                 /\ c.slot = t /\ c.dueFaults = a.dueFaults
                 /\ c.phase = IF Decl(n).kind = "Join" THEN "none" ELSE "run"
      BY <2>1, <2>4, <3>2, StartAccount
    <3>4. /\ ~ t.held /\ t.recovering = a.slot.recovering /\ t.parked = a.slot.parked
          /\ t.ambiguity = a.slot.ambiguity /\ ~ t.cancelling
          /\ \/ IsService(n) /\ m.slot[n].initialized /\ t.st = "Ready"
                /\ t.attempt = a.slot.attempt
             \/ /\ Decl(n).kind = "Join" /\ t.st = "Publishing"
                /\ t.attempt = a.slot.attempt + 1
             \/ /\ ~ (IsService(n) /\ m.slot[n].initialized) /\ Decl(n).kind # "Join"
                /\ t.st = "Running" /\ t.attempt = a.slot.attempt + 1
      BY <2>1, StartedSlotIs
    <3>5. Account(Here, n).slot.st \notin Past
      BY <2>1, <3>1 DEF Led, Past
    <3>6. Up(x)
      BY <2>2 DEF Admits, Up
    <3> HIDE DEF a, c, t, x
    <3>7. Entry(n, c)
      <4>1. CASE IsService(n) /\ m.slot[n].initialized
        <5>1. t.st = "Ready" /\ t.attempt = a.slot.attempt
          BY <3>4, <4>1 DEF IsService
        <5> QED BY <2>1, <3>1, <3>3, <3>4, <4>1, <5>1, RestartedEntry
      <4>2. CASE ~ (IsService(n) /\ m.slot[n].initialized)
        <5>1. \/ Decl(n).kind = "Join" /\ t.st = "Publishing" /\ c.phase = "none"
              \/ Decl(n).kind # "Join" /\ t.st = "Running" /\ c.phase = "run"
          BY <3>3, <3>4, <4>2
        <5>2. t.attempt = a.slot.attempt + 1 /\ c.slot = t /\ c.dueFaults = a.dueFaults
          BY <3>3, <3>4, <4>2
        <5> QED BY <2>1, <3>1, <3>3, <3>4, <5>1, <5>2, StartedEntry DEF Same
      <4> QED BY <4>1, <4>2
    <3>8. Told(x, n)
      <4>1. x.slot[n].st = "Running" => ~ x.slot[n].cancelling
        BY <3>3, <3>4
      <4> QED BY <3>6, <4>1 DEF Told
    <3>9. Led(n, Account(Here, n), c)
      <4>1. c.slot.st # "Abandoned" /\ c.phase # "cleanup"
        BY <3>3, <3>4
      <4>2. Account(Here, n).slot.st \notin Past
        BY <3>5
      <4> QED BY <1>1, <3>3, <4>1, <4>2 DEF Led
    <3> QED BY <2>2, <3>7, <3>8, <3>9 DEF c
  <2> QED BY <2>3, <2>4
<1>4. x.scope = m.scope
  BY <1>1, StartOthers DEF Path
<1> HIDE DEF x
<1>5. ~ Rests(x) /\ (Admits(x) => Up(Here))
  BY <1>1, <1>4 DEF Rests, Path
<1> QED BY <1>2, <1>3, <1>5 DEF Path, Books, x

LEMMA CheckSteadyPath ==
  ASSUME NEW m, Path(m)
  PROVE  Path(CheckSteady(m))
<1> DEFINE x == [m EXCEPT !.scope.st = "Steady"]
<1>1. CASE m.scope.st = "Admitting"
  <2>1. Typed(m) /\ Up(Here)
    BY <1>1 DEF Path, Admits
  <2>2. /\ Typed(x) /\ x.slot = m.slot /\ x.body = m.body /\ x.report = m.report
        /\ x.due = m.due /\ x.scope.st = "Steady"
    BY <2>1 DEF Typed, State, Scope
  <2>3. CheckSteady(m) \in {m, x, Settle(x, "Finite")}
    BY DEF CheckSteady
  <2> HIDE DEF x
  <2>4. Path(x)
    BY <2>1, <2>2, PathScope DEF Rests, Up
  <2>5. Sound(x, Settle(x, "Finite"))
    BY <2>4, SettleSound DEF Path
  <2> QED BY <2>3, <2>4, <2>5, PathSound
<1>2. CASE m.scope.st # "Admitting"
  BY <1>2 DEF CheckSteady
<1> QED BY <1>1, <1>2

(* An obligation starts.                                                   *)
LEMMA ObligationSlotIs ==
  ASSUME NEW m, Typed(m), NEW n \in Node, Owes(m, n)
  PROVE  LET s == m.slot[n]
             t == ObligationSlot(m, n)
         IN /\ t \in Slot /\ t.held = s.held /\ t.parked = s.parked /\ t.ambiguity = s.ambiguity
            /\ t.attempt = s.attempt /\ t.restarts = s.restarts /\ t.initialized = s.initialized
            /\ \/ /\ IsService(n) /\ s.st = "Ready" /\ t.st = "Stopping"
                  /\ t.recovering = s.recovering
               \/ /\ Decl(n).kind = "Resource" /\ s.st \in {"Ready", "Failed", "Interrupted"}
                  /\ t.st = "Releasing" /\ CanOwe(n) /\ s.held /\ t.recovering = s.recovering
               \/ /\ Decl(n).kind = "Effect" /\ s.st \in {"Ready", "Failed", "Interrupted"}
                  /\ t.st = "Compensating" /\ CanOwe(n) /\ s.held /\ ~ t.recovering
               \/ /\ Decl(n).kind = "Effect" /\ s.st = "Ambiguous" /\ t.st = "Compensating"
                  /\ RecoversAmbiguity(n) /\ t.recovering
<1> DEFINE s == m.slot[n]
           t == ObligationSlot(m, n)
<1>1. s \in Slot /\ t \in Slot
  BY SlotTyped, ObligationSlotTyped
<1>2. CASE Decl(n).kind = "Resource"
  <2>1. t = [s EXCEPT !.st = "Releasing"]
    BY <1>2 DEF ObligationSlot, IsService
  <2>2. s.st \in {"Ready", "Failed", "Interrupted"} /\ CanOwe(n) /\ s.held
    BY <1>2 DEF Owes, IsService, RecoversAmbiguity
  <2> HIDE DEF s, t
  <2> QED BY <1>1, <1>2, <2>1, <2>2 DEF Slot, s, t
<1>3. CASE Decl(n).kind = "Effect"
  <2> DEFINE r == s.st = "Ambiguous"
  <2>1. t = [s EXCEPT !.st = "Compensating", !.recovering = r]
    BY <1>3 DEF ObligationSlot, IsService
  <2>2. \/ s.st \in {"Ready", "Failed", "Interrupted"} /\ CanOwe(n) /\ s.held /\ r = FALSE
        \/ s.st = "Ambiguous" /\ RecoversAmbiguity(n) /\ r = TRUE
    BY <1>3 DEF Owes, IsService
  <2> HIDE DEF r, s, t
  <2>3. /\ t.held = s.held /\ t.parked = s.parked /\ t.ambiguity = s.ambiguity
        /\ t.attempt = s.attempt /\ t.restarts = s.restarts /\ t.initialized = s.initialized
        /\ t.st = "Compensating" /\ t.recovering = r
    BY <1>1, <2>1 DEF Slot
  <2> QED BY <1>1, <1>3, <2>2, <2>3 DEF s, t
<1>4. CASE IsService(n)
  <2> DEFINE w == IF Decl(n).stopWithin \/ plan.bounded THEN "StopDeadline" ELSE s.timer
  <2>1. t = [s EXCEPT !.st = "Stopping", !.timer = w]
    BY <1>4 DEF ObligationSlot, IsService
  <2>2. s.st = "Ready"
    BY <1>4 DEF Owes, IsService, RecoversAmbiguity, CanOwe, CanHold
  <2> HIDE DEF s, t, w
  <2> QED BY <1>1, <1>4, <2>1, <2>2 DEF Slot, s, t
<1> QED BY <1>2, <1>3, <1>4 DEF Owes, CanOwe, CanHold, RecoversAmbiguity

LEMMA OwingEntry ==
  ASSUME NEW n \in Node, NEW a \in Accounts, Entry(n, a),
         NEW c \in Accounts, Same(a, c), c.slot.held = a.slot.held,
         c.slot.parked = a.slot.parked, c.slot.ambiguity = a.slot.ambiguity,
         c.slot.attempt = a.slot.attempt, c.slot.restarts = a.slot.restarts,
         \/ /\ IsService(n) /\ a.slot.st = "Ready" /\ c.slot.st = "Stopping"
            /\ c.slot.recovering = a.slot.recovering /\ c.phase = a.phase
         \/ /\ a.slot.st \in {"Ready", "Failed", "Interrupted"} /\ CanOwe(n) /\ a.slot.held
            /\ \/ c.slot.st = "Releasing" /\ c.slot.recovering = a.slot.recovering
               \/ c.slot.st = "Compensating" /\ ~ c.slot.recovering
            /\ c.phase = "cleanup"
         \/ /\ a.slot.st = "Ambiguous" /\ RecoversAmbiguity(n) /\ c.slot.st = "Compensating"
            /\ c.slot.recovering /\ c.phase = "cleanup"
  PROVE  Entry(n, c) /\ Goes(a, c)
<1>1. Tasked(c)
  BY DEF Entry, Draft, Tasked, Same, Accounts
<1>2. Parks(n, c) /\ Lists(c)
  BY DEF Entry, Parks, Lists, Same, Undecided, Unstarted, Past
<1>3. Balanced(n, c)
  BY DEF Entry, Draft, Balanced, Earned, Same, Holding, CanOwe, CanHold, IsService
<1>4. Earned(n, c)
  BY <1>3 DEF Entry, Draft, Earned, Balanced, Same, Unstarted, Doubtful
<1>5. Goes(a, c)
  BY DEF Goes, Entry, Draft, Tasked, Past
<1> QED BY <1>1, <1>2, <1>3, <1>4, <1>5 DEF Entry, Draft

LEMMA StartObligationsPath ==
  ASSUME NEW m, Path(m), ~ Admits(m), NEW S \in SUBSET Node, \A n \in S : Owes(m, n)
  PROVE  Path(StartObligations(m, S)) /\ StartObligations(m, S).scope = m.scope
<1> DEFINE slots == [n \in Node |-> IF n \in S THEN ObligationSlot(m, n) ELSE m.slot[n]]
           begun == [m EXCEPT !.slot = slots]
           bodies == {n \in S : ~ IsService(n)}
           x == Spawn(begun, bodies, "cleanup")
<1>1. Typed(m) /\ bodies \in SUBSET Node
  BY DEF Path
<1>2. slots \in [Node -> Slot] /\ \A n \in Node : slots[n].st \in StatesOf(n)
  BY <1>1, ObligationSlotTyped, SlotTyped
<1>3. Typed(begun)
  <2> HIDE DEF slots
  <2> QED BY <1>1, <1>2, AllSlots
<1>4. /\ begun.scope = m.scope /\ begun.body = m.body /\ begun.report = m.report
      /\ begun.due = m.due /\ begun.slot = slots
  <2> HIDE DEF slots
  <2> QED BY <1>1 DEF Typed, State
<1>5. StartObligations(m, S) = x
  BY DEF StartObligations
<1> HIDE DEF begun, bodies
<1>6. Typed(x) /\ x.scope = m.scope
  <2>1. Typed(x)
    BY <1>1, <1>3, SpawnTyped
  <2>2. x.scope = begun.scope
    BY <1>3 DEF Spawn, Typed, State
  <2> QED BY <1>4, <2>1, <2>2
<1> HIDE DEF x
<1>7. ASSUME NEW n \in Node
      PROVE  Entry(n, Account(x, n)) /\ Told(x, n) /\ Led(n, Account(Here, n), Account(x, n))
  <2> DEFINE a == Account(m, n)
             b == Account(begun, n)
             c == Account(x, n)
             t == ObligationSlot(m, n)
  <2>1. /\ a \in Accounts /\ a.slot = m.slot[n] /\ Entry(n, a) /\ Told(m, n)
        /\ Led(n, Account(Here, n), a) /\ (a.phase = "serve" => IsService(n))
    BY PathFields
  <2>2. c \in Accounts /\ c.slot = x.slot[n]
    BY <1>6, AccountTyped DEF Account
  <2>3. c = IF n \in bodies THEN Spawned(b, "cleanup") ELSE b
    BY <1>1, <1>3, SpawnAccount DEF x
  <2>4. b = [a EXCEPT !.slot = slots[n]]
    <3>1. begun.body[n].phase = m.body[n].phase /\ begun.slot[n] = slots[n]
      BY <1>4
    <3> HIDE DEF slots
    <3> QED BY <1>4, <3>1, SlotsAccount
  <2>5. CASE n \notin S
    <3>1. c = a
      <4>1. slots[n] = a.slot /\ n \notin bodies
        BY <2>1, <2>5 DEF bodies
      <4> HIDE DEF slots, a, b, c
      <4> QED BY <2>1, <2>3, <2>4, <4>1 DEF Accounts
    <3>2. Told(x, n)
      BY <1>6, <2>1, <2>2, <3>1 DEF Told, Up
    <3> QED BY <2>1, <3>1, <3>2
  <2>6. CASE n \in S
    <3>1. slots[n] = t
      BY <2>6
    <3>2. /\ t \in Slot /\ t.held = a.slot.held /\ t.parked = a.slot.parked
          /\ t.ambiguity = a.slot.ambiguity /\ t.attempt = a.slot.attempt
          /\ t.restarts = a.slot.restarts
          /\ \/ /\ IsService(n) /\ a.slot.st = "Ready" /\ t.st = "Stopping"
                /\ t.recovering = a.slot.recovering
             \/ /\ Decl(n).kind = "Resource" /\ a.slot.st \in {"Ready", "Failed", "Interrupted"}
                /\ t.st = "Releasing" /\ CanOwe(n) /\ a.slot.held
                /\ t.recovering = a.slot.recovering
             \/ /\ Decl(n).kind = "Effect" /\ a.slot.st \in {"Ready", "Failed", "Interrupted"}
                /\ t.st = "Compensating" /\ CanOwe(n) /\ a.slot.held /\ ~ t.recovering
             \/ /\ Decl(n).kind = "Effect" /\ a.slot.st = "Ambiguous" /\ t.st = "Compensating"
                /\ RecoversAmbiguity(n) /\ t.recovering
      BY <1>1, <2>1, <2>6, ObligationSlotIs
    <3> HIDE DEF t, slots
    <3>3. b \in Accounts /\ b.slot = t /\ b.phase = a.phase /\ Same(a, b)
      <4>1. a \in Accounts /\ t \in Slot /\ b = [a EXCEPT !.slot = t]
        BY <2>1, <2>4, <3>1, <3>2
      <4> HIDE DEF a, b
      <4> QED BY <4>1, SlotField
    <3> HIDE DEF a, b, c
    <3>4. c.slot = t /\ Same(a, c) /\ c.phase = IF IsService(n) THEN a.phase ELSE "cleanup"
      <4>1. CASE IsService(n)
        BY <2>3, <3>3, <4>1 DEF bodies
      <4>2. CASE ~ IsService(n)
        <5>1. c = Spawned(b, "cleanup")
          BY <2>3, <2>6, <4>2 DEF bodies
        <5>2. a.phase = "none"
          BY <2>1, <3>2, <4>2 DEF Entry, Draft, Tasked, Accounts
        <5>3. /\ c.slot = b.slot /\ c.dueFaults = b.dueFaults /\ c.phase = "cleanup"
              /\ c.faults = b.faults /\ c.ambiguous = b.ambiguous /\ c.failed = b.failed
              /\ c.left = b.left /\ c.owed = b.owed /\ c.dueAmbiguous = b.dueAmbiguous
              /\ c.twice = (b.twice \/ b.phase # "none")
          BY <3>3, <5>1 DEF Accounts, Spawned
        <5>4. c.twice = a.twice
          BY <2>1, <3>3, <5>2, <5>3 DEF Accounts, Same
        <5> QED BY <3>3, <4>2, <5>3, <5>4 DEF Same
      <4> QED BY <4>1, <4>2
    <3>5. Entry(n, c) /\ Goes(a, c)
      BY <2>1, <2>2, <3>2, <3>4, OwingEntry DEF IsService
    <3>6. Told(x, n)
      <4>1. x.slot[n].st # "Running"
        BY <2>2, <3>2, <3>4
      <4> QED BY <4>1 DEF Told
    <3>7. Led(n, Account(Here, n), c)
      BY <2>1, <3>5, LedGoes
    <3> QED BY <3>5, <3>6, <3>7 DEF c
  <2> QED BY <2>5, <2>6
<1>8. ~ Rests(x) /\ (Admits(x) => Up(Here))
  BY <1>6 DEF Rests, Admits, Path
<1> QED BY <1>5, <1>6, <1>7, <1>8 DEF Path, Books

LEMMA AdvanceCleanupPath ==
  ASSUME NEW m, Path(m), m.scope.st = "Cleanup"
  PROVE  Path(AdvanceCleanup(m)) /\ AdvanceCleanup(m).scope.st = "Cleanup"
<1> DEFINE S == {n \in Node : Owes(m, n) /\ GateOpen(m, n)}
           a == StartObligations(m, S)
           z == [a EXCEPT !.scope.zero = TRUE]
<1>1. Path(a) /\ a.scope.st = "Cleanup"
  BY StartObligationsPath DEF Admits
<1>2. AdvanceCleanup(m) \in {a, z}
  BY DEF AdvanceCleanup
<1> HIDE DEF a
<1>3. /\ Typed(z) /\ z.slot = a.slot /\ z.body = a.body /\ z.report = a.report
      /\ z.due = a.due /\ z.scope.st = "Cleanup"
  BY <1>1 DEF Path, Typed, State, Scope
<1> HIDE DEF z
<1>4. Path(z)
  BY <1>1, <1>3, PathScope DEF Rests, Admits, Up
<1> QED BY <1>1, <1>2, <1>3, <1>4

LEMMA PathLanded == ASSUME NEW m, Path(m) PROVE Landed(m)
BY DEF Path, Landed, Ledger, Rested, Rests

LEMMA EndLanded ==
  ASSUME NEW m, Path(m), m.scope.st = "Cleanup", \A n \in Node : ~ BlocksRelease(m, n)
  PROVE  Landed(End(m))
<1> DEFINE x == End(m)
<1>1. Typed(m) /\ Typed(x)
  BY EndTyped DEF Path
<1>2. /\ x.slot = m.slot /\ x.body = m.body /\ x.due = m.due
      /\ x.report.faults = m.report.faults /\ x.report.ambiguous = m.report.ambiguous
      /\ x.report.cleanupFailures = m.report.cleanupFailures
      /\ x.report.incomplete = m.report.incomplete
      /\ x.scope.st = "Ended" /\ ~ x.scope.budget /\ ~ x.scope.zero
  BY <1>1 DEF End, Typed, State, Scope, Report
<1> HIDE DEF x
<1>3. \A n \in Node : Account(x, n) = Account(m, n)
  BY <1>2 DEF Account
<1>4. \A n \in Node : Told(x, n)
  BY <1>2 DEF Told, BlocksRelease
<1>5. \A n \in Node : ~ BlocksRelease(x, n)
  BY <1>2 DEF BlocksRelease, Owes
<1> QED BY <1>1, <1>2, <1>3, <1>4, <1>5 DEF Landed, Ledger, Books, Rested, Path, x

LEMMA TryCleanupLanded ==
  ASSUME NEW m, Path(m)
  PROVE  Landed(TryCleanup(m))
<1> DEFINE open == m.scope.st = "Settling" /\ \A n \in Node : ~ InFlight(m, n)
           k == [m EXCEPT !.scope.st = "Cleanup"]
           c == IF open THEN k ELSE m
           a == IF c.scope.st = "Cleanup" THEN AdvanceCleanup(c) ELSE c
<1>1. Path(c)
  <2>1. CASE open
    <3>1. /\ Typed(k) /\ k.slot = m.slot /\ k.body = m.body /\ k.report = m.report
          /\ k.due = m.due /\ k.scope.st = "Cleanup"
      BY DEF Path, Typed, State, Scope
    <3> HIDE DEF k
    <3>2. Path(k)
      BY <2>1, <3>1, PathScope DEF Rests, Admits, Up
    <3> QED BY <2>1, <3>2
  <2>2. CASE ~ open
    BY <2>2
  <2> QED BY <2>1, <2>2
<1>2. TryCleanup(m) = IF a.scope.st = "Cleanup" /\ \A n \in Node : ~ BlocksRelease(a, n)
                      THEN End(a) ELSE a
  BY DEF TryCleanup
<1> HIDE DEF c
<1>3. Path(a)
  BY <1>1, AdvanceCleanupPath
<1> HIDE DEF a
<1> QED BY <1>2, <1>3, EndLanded, PathLanded

LEMMA AfterSettleLanded ==
  ASSUME NEW m, Path(m), AfterSettle(m)
  PROVE  \E x : Landed(x) /\ Become(x)
<1>1. CASE Admits(m)
  <2> DEFINE q == Enqueue(m)
  <2>1. PICK G \in SUBSET In(q, {"Waiting"}) :
          Become(TryCleanup(CheckSteady(Start(q, G))))
    BY <1>1 DEF AfterSettle
  <2>2. Path(q) /\ Admits(q)
    BY <1>1, EnqueuePath
  <2> HIDE DEF q
  <2>3. Landed(TryCleanup(CheckSteady(Start(q, G))))
    BY <2>2, StartPath, CheckSteadyPath, TryCleanupLanded
  <2> QED BY <2>1, <2>3
<1>2. CASE ~ Admits(m)
  BY <1>2, TryCleanupLanded DEF AfterSettle
<1> QED BY <1>1, <1>2

-----------------------------------------------------------------------------
(* What an event finds and does.                                           *)

Arrived == \E x : Landed(x) /\ Become(x)

LEMMA Lands ==
  ASSUME NEW m, Path(m), AfterSettle(m) \/ Become(TryCleanup(m)) \/ Become(m)
  PROVE  Arrived
BY PathLanded, TryCleanupLanded, AfterSettleLanded DEF Arrived

LEMMA LivePath == ASSUME Ongoing PROVE Path(Here)
BY HereNear, GoesLed DEF Ongoing, Path, Goes, Admits, Up

(* A node that is not at rest is in a scope that is at work.               *)
LEMMA Alive ==
  ASSUME TypeOK, Ledger(Here), NEW n \in Node, BlocksRelease(Here, n),
         slot[n].st # "Pending" \/ slot[n].publishing
  PROVE  LET a == Account(Here, n) IN
         /\ Ongoing /\ Begun(Here, n) /\ a \in Accounts /\ a.slot = slot[n]
         /\ a.phase = body[n].phase /\ Entry(n, a) /\ Told(Here, n)
         /\ slot[n] \in Slot /\ slot[n].st \in StatesOf(n) /\ plan \in Plans
<1>1. Account(Here, n).slot = slot[n] /\ Account(Here, n).phase = body[n].phase
  BY HereNear DEF Account
<1>2. ~ Rests(Here)
  BY <1>1, HereNear DEF Ledger, Rested, Rests, Untouched
<1>3. Ongoing
  BY <1>2 DEF Ongoing, Ledger
<1> QED BY <1>1, <1>3, BegunHere, BegunSlotIs, HereNear DEF Ledger, Books, TypeOK

(* The task of n is joined.                                                *)
LEMMA TaskGone ==
  ASSUME Ongoing, NEW n \in Node
  PROVE  LET m == TaskEnds(Here, n)
             a == Account(Here, n)
             b == Account(m, n)
         IN /\ Begun(m, n) /\ b \in Accounts /\ Entry(n, b) /\ b.phase = "none"
            /\ b.slot = slot[n] /\ Same(a, b) /\ m.slot[n] = slot[n] /\ m.slot = slot
            /\ m.scope = scope /\ m.due = due /\ m.report = report
<1> DEFINE m == TaskEnds(Here, n)
           a == Account(Here, n)
           b == Account(m, n)
           c == [a EXCEPT !.phase = "none"]
<1>1. Typed(Here) /\ a \in Accounts /\ a.slot = slot[n] /\ Entry(n, a) /\ Begun(Here, n)
  BY HereNear, BegunHere, AccountTyped DEF Ongoing, Books
<1>2. Typed(m) /\ Edits(Here, m, n, c)
  BY <1>1, TaskEndsTyped, TaskEndsAccount
<1>3. m.slot = slot /\ m.scope = scope /\ m.due = due /\ m.report = report
  BY HereNear DEF Ongoing, TaskEnds, Typed, State
<1> HIDE DEF m, a
<1>4. c \in Accounts /\ Entry(n, c) /\ c.slot = a.slot /\ c.phase = "none" /\ Same(a, c)
  BY <1>1, EndedTask
<1> HIDE DEF c
<1>5. Begun(m, n) /\ b = c
  BY <1>1, <1>2, BegunEdit
<1> QED BY <1>1, <1>3, <1>4, <1>5 DEF m, a

(* The obligation of n is registered or discharged.                        *)
LEMMA OwedEdit ==
  ASSUME NEW m, NEW n \in Node, Begun(m, n), NEW d \in SUBSET Node,
         \A x \in Node : x # n => (x \in d <=> x \in m.due.held)
  PROVE  LET x == [m EXCEPT !.due.held = d]
             a == Account(m, n)
             b == Account(x, n)
         IN /\ Begun(x, n) /\ b \in Accounts /\ b.slot = a.slot /\ b.phase = a.phase
            /\ b.faults = a.faults /\ b.ambiguous = a.ambiguous /\ b.failed = a.failed
            /\ b.left = a.left /\ b.dueFaults = a.dueFaults /\ b.twice = a.twice
            /\ b.dueAmbiguous = a.dueAmbiguous /\ b.owed = (n \in d)
            /\ x.slot[n] = m.slot[n] /\ x.scope = m.scope
<1> DEFINE x == [m EXCEPT !.due.held = d]
           a == Account(m, n)
           b == Account(x, n)
<1>1. Typed(m)
  BY DEF Begun
<1>2. /\ x.body = m.body /\ x.scope = m.scope /\ x.report = m.report /\ x.slot = m.slot
      /\ x.due.held = d /\ x.due.ambiguous = m.due.ambiguous
      /\ x.due.faults = m.due.faults /\ x.due.overlaps = m.due.overlaps
  BY <1>1 DEF Typed, State, Due
<1>3. Typed(x)
  BY <1>1 DEF Typed, State, Due
<1> HIDE DEF x
<1>4. ASSUME NEW e \in Node, e # n PROVE Account(x, e) = Account(m, e)
  <2>1. (e \in x.due.held) = (e \in m.due.held)
    BY <1>2, <1>4
  <2> QED BY <1>2, <2>1 DEF Account
<1>5. Edits(m, x, n, b)
  BY <1>2, <1>4 DEF Edits
<1>6. b \in Accounts
  BY <1>3, AccountTyped
<1>7. /\ b.slot = a.slot /\ b.phase = a.phase
      /\ b.faults = a.faults /\ b.ambiguous = a.ambiguous /\ b.failed = a.failed
      /\ b.left = a.left /\ b.dueFaults = a.dueFaults /\ b.twice = a.twice
      /\ b.dueAmbiguous = a.dueAmbiguous /\ b.owed = (n \in d)
  BY <1>2 DEF Account
<1>8. Begun(x, n)
  BY <1>3, <1>5, BegunEdit
<1> QED BY <1>2, <1>6, <1>7, <1>8 DEF x

(* The records of one attempt enter or leave the report and what is due.   *)
LEMMA RecordEdit ==
  ASSUME NEW m, NEW n \in Node, Begun(m, n), NEW x, Typed(x), x.scope = m.scope,
         x.slot = m.slot, x.body = m.body,
         x.report.cleanupFailures = m.report.cleanupFailures,
         x.report.incomplete = m.report.incomplete,
         x.due.held = m.due.held, x.due.overlaps = m.due.overlaps,
         \A d \in Node \ {n} : /\ Of(x.report.faults, d) = Of(m.report.faults, d)
                               /\ Of(x.report.ambiguous, d) = Of(m.report.ambiguous, d)
                               /\ Of(x.due.faults, d) = Of(m.due.faults, d)
                               /\ Of(x.due.ambiguous, d) = Of(m.due.ambiguous, d)
  PROVE  LET a == Account(m, n)
             b == Account(x, n)
         IN /\ Begun(x, n) /\ b \in Accounts /\ b.slot = a.slot /\ b.phase = a.phase
            /\ b.failed = a.failed /\ b.left = a.left /\ b.owed = a.owed /\ b.twice = a.twice
            /\ a.faults = Of(m.report.faults, n) /\ b.faults = Of(x.report.faults, n)
            /\ a.ambiguous = Of(m.report.ambiguous, n)
            /\ b.ambiguous = Of(x.report.ambiguous, n)
            /\ a.dueFaults = Of(m.due.faults, n) /\ b.dueFaults = Of(x.due.faults, n)
            /\ a.dueAmbiguous = Of(m.due.ambiguous, n)
            /\ b.dueAmbiguous = Of(x.due.ambiguous, n)
<1>1. \A d \in Node : d # n => Account(x, d) = Account(m, d)
  BY DEF Account
<1>2. Edits(m, x, n, Account(x, n))
  BY <1>1 DEF Edits
<1>3. Begun(x, n)
  BY <1>2, BegunEdit
<1> QED BY <1>3, AccountTyped DEF Account

(* Nothing but timers and orders to the task changes in the slot.          *)
LEMMA KeptPath ==
  ASSUME Ongoing, NEW m, NEW n \in Node, Begun(m, n), Entry(n, Account(m, n)),
         Account(m, n).phase = body[n].phase, m.slot[n].st = slot[n].st,
         m.slot[n].attempt = slot[n].attempt, m.slot[n].held = slot[n].held,
         m.slot[n].restarts = slot[n].restarts, Told(m, n)
  PROVE  Path(m)
<1>1. /\ Account(Here, n).slot = slot[n] /\ Account(Here, n).phase = body[n].phase
      /\ Account(m, n).slot = m.slot[n]
  BY HereNear DEF Ongoing, Account
<1>2. Goes(Account(Here, n), Account(m, n))
  BY <1>1 DEF Goes
<1> QED BY <1>2, GoesLed, Arrives

LEMMA BegunAt ==
  ASSUME NEW m, NEW n \in Node, Begun(m, n), NEW s \in Slot, s.st \in StatesOf(n)
  PROVE  LET x == [m EXCEPT !.slot[n] = s]
             a == Account(m, n)
             b == Account(x, n)
         IN /\ Begun(x, n) /\ x.slot[n] = s /\ b \in Accounts /\ b.slot = s
            /\ b.phase = a.phase /\ Same(a, b)
            /\ x.scope = m.scope /\ x.due = m.due /\ x.report = m.report /\ x.body = m.body
<1> DEFINE x == [m EXCEPT !.slot[n] = s]
           a == Account(m, n)
           b == Account(x, n)
           c == [a EXCEPT !.slot = s]
<1>1. Begun(x, n) /\ b = c /\ x.slot[n] = s
  BY BegunSlot
<1>2. x.scope = m.scope /\ x.due = m.due /\ x.report = m.report /\ x.body = m.body
  BY DEF Begun, Typed, State
<1>3. a \in Accounts
  BY BegunSlotIs
<1> HIDE DEF x, a, b
<1>4. c \in Accounts /\ c.slot = s /\ c.phase = a.phase /\ Same(a, c)
  BY <1>3, SlotField
<1> HIDE DEF c
<1> QED BY <1>1, <1>2, <1>4 DEF x, a, b

(* The slot differs in what it holds only.                                 *)
Stands(s, t) ==
  /\ t.st = s.st /\ t.attempt = s.attempt /\ t.restarts = s.restarts
  /\ t.recovering = s.recovering /\ t.parked = s.parked /\ t.ambiguity = s.ambiguity
  /\ t.cancelling = s.cancelling /\ t.signalled = s.signalled /\ t.timingOut = s.timingOut

-----------------------------------------------------------------------------
(* The events, one by one.                                                 *)

LEMMA BodyHeldLands ==
  ASSUME TypeOK, Ledger(Here), NEW n \in Node, BodyHeld(n)
  PROVE  Arrived
<1> DEFINE s == [slot[n] EXCEPT !.held = TRUE]
           d == IF CanOwe(n) THEN due.held \cup {n} ELSE due.held
           c == [Here EXCEPT !.slot[n] = s]
           m == [c EXCEPT !.due.held = d]
           a == Account(Here, n)
           b == Account(c, n)
           e == Account(m, n)
<1>1. /\ slot[n].st = "Running" /\ body[n].phase = "run" /\ ~ slot[n].held
      /\ BlocksRelease(Here, n)
  BY HereNear DEF BodyHeld, RunInFlight, BlocksRelease
<1>2. /\ Ongoing /\ Begun(Here, n) /\ a \in Accounts /\ a.slot = slot[n] /\ a.phase = body[n].phase
      /\ Entry(n, a) /\ Told(Here, n) /\ slot[n] \in Slot /\ slot[n].st \in StatesOf(n)
  BY <1>1, Alive
<1>3. s \in Slot /\ s.held /\ Stands(slot[n], s)
  BY <1>2 DEF Slot, Stands
<1>4. d \in SUBSET Node
  BY DEF TypeOK, State, Here, Due
<1>5. Become(m)
  BY HereNear DEF BodyHeld, Here
<1>6. c.due = due /\ (n \in d <=> CanOwe(n) \/ a.owed) /\ Here.due = due /\ c.scope = scope
      /\ \A x \in Node : x # n => (x \in d <=> x \in due.held)
  <2>1. c.due = due /\ Here.due = due /\ c.scope = scope
    BY HereNear DEF Typed, State
  <2>2. a.owed = (n \in due.held)
    BY HereNear DEF Account
  <2> QED BY <2>1, <2>2
<1> HIDE DEF s, d, a
<1>7. /\ Begun(c, n) /\ c.slot[n] = s /\ b \in Accounts /\ b.slot = s
      /\ b.phase = a.phase /\ Same(a, b)
  BY <1>2, <1>3, BegunAt DEF a, b, c, Stands
<1> HIDE DEF b, c
<1>8. /\ Begun(m, n) /\ e \in Accounts /\ e.slot = b.slot /\ e.phase = b.phase
      /\ e.faults = b.faults /\ e.ambiguous = b.ambiguous /\ e.failed = b.failed
      /\ e.left = b.left /\ e.dueFaults = b.dueFaults /\ e.twice = b.twice
      /\ e.dueAmbiguous = b.dueAmbiguous /\ e.owed = (n \in d)
      /\ m.slot[n] = c.slot[n] /\ m.scope = c.scope
  BY <1>4, <1>6, <1>7, OwedEdit DEF b
<1> HIDE DEF m, e
<1>9. Entry(n, e)
  <2>1. Tasked(e) /\ Parks(n, e) /\ Lists(e)
    BY <1>2, <1>3, <1>7, <1>8 DEF Entry, Draft, Tasked, Parks, Lists, Same, Stands
  <2>2. Balanced(n, e)
    <3>1. e.owed <=> CanOwe(n)
      BY <1>1, <1>2, <1>6, <1>8 DEF Entry, Draft, Balanced
    <3>2. e.slot.held /\ e.slot.st \in Holding /\ e.slot.st \notin {"Abandoned", "ReleaseFailed"}
      BY <1>1, <1>3, <1>7, <1>8 DEF Holding, Stands
    <3>3. /\ e.slot.parked = a.slot.parked /\ e.slot.ambiguity = a.slot.ambiguity
          /\ e.dueFaults = a.dueFaults /\ e.faults = a.faults /\ e.left = a.left
          /\ e.dueAmbiguous = a.dueAmbiguous /\ e.ambiguous = a.ambiguous
      BY <1>2, <1>3, <1>7, <1>8 DEF Stands, Same
    <3>4. ~ a.left
      BY <1>1, <1>2 DEF Entry, Draft, Balanced
    <3> QED BY <1>2, <3>1, <3>2, <3>3, <3>4 DEF Entry, Draft, Balanced
  <2>3. Earned(n, e)
    BY <1>1, <1>2, <1>3, <1>7, <1>8 DEF Entry, Draft, Earned, Unstarted, Same, Stands
  <2> QED BY <2>1, <2>2, <2>3 DEF Entry, Draft
<1>10. Told(m, n)
  BY <1>2, <1>3, <1>6, <1>7, <1>8, HereNear DEF Told, Stands, Up, Ongoing
<1>11. Led(n, a, e)
  BY <1>1, <1>2, <1>3, <1>7, <1>8 DEF Led, Stands, Past
<1>12. Path(m)
  BY <1>2, <1>8, <1>9, <1>10, <1>11, Arrives DEF a, e
<1> QED BY <1>5, <1>12, Lands

LEMMA BodyReturnsLands ==
  ASSUME TypeOK, Ledger(Here), NEW n \in Node, NEW ok \in BOOLEAN, BodyReturns(n, ok)
  PROVE  Arrived
<1> DEFINE m == TaskEnds(Here, n)
<1>1. slot[n].st = "Running" /\ BlocksRelease(Here, n)
  BY HereNear DEF BodyReturns, RunInFlight, BlocksRelease
<1>2. /\ Ongoing /\ Told(Here, n) /\ slot[n].st \in StatesOf(n) /\ plan \in Plans
  BY <1>1, Alive
<1>3. /\ Begun(m, n) /\ Entry(n, Account(m, n)) /\ Account(m, n).phase = "none"
      /\ m.slot[n] = slot[n]
  BY <1>2, TaskGone
<1>4. Decl(n).kind # "Join" /\ slot[n].st \notin Past
  BY <1>1, <1>2, StatesKind DEF Past
<1>5. Draft(n, Account(m, n)) /\ Lists(Account(m, n))
  BY <1>3 DEF Entry
<1> HIDE DEF m
<1>6. Path(AfterFailedAttempt(m, n)) /\ Path(FinishInterrupted(m, n)) /\ Path(FailAttempt(m, n))
  BY <1>1, <1>2, <1>3, <1>4, <1>5, FailedAttemptPath, InterruptedPath, FailAttemptPath
<1>7. ASSUME ~ slot[n].signalled PROVE Path(MakeReady(m, n))
  <2>1. IsService(n) => Up(Here) \/ (slot[n].st = "Running" /\ slot[n].timingOut)
    BY <1>1, <1>2, <1>7, HereNear DEF Told
  <2> QED BY <1>1, <1>2, <1>3, <1>4, <2>1, ReadyPath
<1>8. CASE slot[n].timedOut
  <2>1. AfterSettle(AfterFailedAttempt(m, n))
    BY <1>8 DEF BodyReturns, m
  <2> QED BY <1>6, <2>1, Lands
<1>9. CASE ~ slot[n].timedOut /\ slot[n].signalled
  <2>1. AfterSettle(FinishInterrupted(m, n))
    BY <1>9 DEF BodyReturns, m
  <2> QED BY <1>6, <2>1, Lands
<1>10. CASE ~ slot[n].timedOut /\ ~ slot[n].signalled
  <2>1. AfterSettle(IF ok THEN MakeReady(m, n) ELSE FailAttempt(m, n))
    BY <1>10 DEF BodyReturns, m
  <2>2. CASE ok
    BY <1>7, <1>10, <2>1, <2>2, Lands
  <2>3. CASE ~ ok
    BY <1>6, <2>1, <2>3, Lands
  <2> QED BY <2>2, <2>3
<1> QED BY <1>8, <1>9, <1>10

LEMMA BodyCancelledLands ==
  ASSUME TypeOK, Ledger(Here), NEW n \in Node, NEW held \in BOOLEAN, BodyCancelled(n, held)
  PROVE  Arrived
<1> DEFINE h == slot[n].held \/ held
           g == TaskEnds(Here, n)
           s == [g.slot[n] EXCEPT !.held = h]
           d == IF h /\ CanOwe(n) THEN g.due.held \cup {n} ELSE g.due.held
           c == [g EXCEPT !.slot[n] = s]
           m == [c EXCEPT !.due.held = d]
           a == Account(g, n)
           b == Account(c, n)
           e == Account(m, n)
<1>1. slot[n].st = "Running" /\ BlocksRelease(Here, n)
  BY HereNear DEF BodyCancelled, RunInFlight, BlocksRelease
<1>2. /\ Ongoing /\ slot[n] \in Slot /\ slot[n].st \in StatesOf(n) /\ plan \in Plans
  BY <1>1, Alive
<1>3. /\ Begun(g, n) /\ a \in Accounts /\ Entry(n, a) /\ a.phase = "none"
      /\ a.slot = slot[n] /\ g.slot[n] = slot[n] /\ g.due = due
  BY <1>2, TaskGone
<1>4. Decl(n).kind # "Join" /\ slot[n].st \notin Past
  BY <1>1, <1>2, StatesKind DEF Past
<1>5. AfterSettle(FinishInterrupted(m, n))
  BY DEF BodyCancelled
<1>6. a.owed = (n \in due.held) /\ due.held \in SUBSET Node
  BY <1>3 DEF Account, TypeOK, State, Here, Due
<1> HIDE DEF g
<1>7. h \in BOOLEAN /\ (slot[n].held => h)
  OBVIOUS
<1>8. d \in SUBSET Node /\ (n \in d <=> (h /\ CanOwe(n)) \/ a.owed) /\ c.due = due
      /\ \A x \in Node : x # n => (x \in d <=> x \in due.held)
  <2>1. c.due = due
    BY <1>3 DEF Begun, Typed, State
  <2> HIDE DEF h, c, a
  <2> QED BY <1>3, <1>6, <2>1
<1> HIDE DEF h, d
<1>9. s \in Slot /\ s.held = h /\ Stands(slot[n], s) /\ s.st \in StatesOf(n)
  BY <1>2, <1>3, <1>7 DEF Slot, Stands
<1> HIDE DEF s, a
<1>10. /\ Begun(c, n) /\ c.slot[n] = s /\ b \in Accounts /\ b.slot = s
       /\ b.phase = a.phase /\ Same(a, b)
  BY <1>3, <1>9, BegunAt DEF a, b, c
<1> HIDE DEF b, c
<1>11. /\ Begun(m, n) /\ e \in Accounts /\ e.slot = b.slot /\ e.phase = b.phase
       /\ e.faults = b.faults /\ e.ambiguous = b.ambiguous /\ e.failed = b.failed
       /\ e.left = b.left /\ e.dueFaults = b.dueFaults /\ e.twice = b.twice
       /\ e.dueAmbiguous = b.dueAmbiguous /\ e.owed = (n \in d)
       /\ m.slot[n] = c.slot[n]
  BY <1>8, <1>10, OwedEdit DEF b
<1> HIDE DEF m, e
<1>12. Entry(n, e)
  <2>1. Tasked(e) /\ Parks(n, e) /\ Lists(e)
    BY <1>3, <1>9, <1>10, <1>11 DEF Entry, Draft, Tasked, Parks, Lists, Same, Stands
  <2>2. Balanced(n, e)
    <3>1. a.owed <=> CanOwe(n) /\ slot[n].held
      BY <1>1, <1>3 DEF Entry, Draft, Balanced, Holding
    <3>2. e.owed <=> CanOwe(n) /\ e.slot.held
      BY <1>7, <1>8, <1>9, <1>10, <1>11, <3>1
    <3>3. e.slot.st \in Holding /\ e.slot.st \notin {"Abandoned", "ReleaseFailed"}
      BY <1>1, <1>9, <1>10, <1>11 DEF Holding, Stands
    <3>4. /\ e.slot.parked = a.slot.parked /\ e.slot.ambiguity = a.slot.ambiguity
          /\ e.dueFaults = a.dueFaults /\ e.faults = a.faults /\ e.left = a.left
          /\ e.dueAmbiguous = a.dueAmbiguous /\ e.ambiguous = a.ambiguous
      BY <1>3, <1>9, <1>10, <1>11 DEF Stands, Same
    <3>5. ~ a.left
      BY <1>1, <1>3 DEF Entry, Draft, Balanced
    <3> QED BY <1>3, <3>2, <3>3, <3>4, <3>5 DEF Entry, Draft, Balanced
  <2>3. Earned(n, e)
    BY <1>1, <1>3, <1>9, <1>10, <1>11 DEF Entry, Draft, Earned, Unstarted, Same, Stands
  <2> QED BY <2>1, <2>2, <2>3 DEF Entry, Draft
<1>13. e.phase = "none" /\ m.slot[n].st = "Running"
  BY <1>1, <1>3, <1>9, <1>10, <1>11 DEF Stands
<1>14. Path(FinishInterrupted(m, n))
  BY <1>2, <1>4, <1>11, <1>12, <1>13, InterruptedPath DEF e
<1> QED BY <1>5, <1>14, Lands

LEMMA AbandonedTaskEndsLands ==
  ASSUME TypeOK, Ledger(Here), NEW n \in Node, AbandonedTaskEnds(n)
  PROVE  Arrived
<1> DEFINE m == TaskEnds(Here, n)
           a == Account(Here, n)
           c == [a EXCEPT !.phase = "none"]
<1>1. /\ Typed(Here) /\ a \in Accounts /\ a.slot = slot[n] /\ slot[n].st = "Abandoned"
      /\ Books(Here) /\ Entry(n, a) /\ Become(m)
  BY HereNear, AccountTyped DEF Account, Ledger, Books, AbandonedTaskEnds
<1>2. Typed(m) /\ Edits(Here, m, n, c)
  BY <1>1, TaskEndsTyped, TaskEndsAccount
<1>3. m.slot = slot /\ m.scope = scope
  BY HereNear DEF TaskEnds, Typed, State
<1> HIDE DEF m, a
<1>4. Entry(n, c) /\ c.slot = a.slot /\ c.phase = "none"
  BY <1>1, EndedTask
<1> HIDE DEF c
<1>5. ASSUME NEW d \in Node
      PROVE  Entry(d, Account(m, d)) /\ Told(m, d) /\ Led(d, Account(Here, d), Account(m, d))
  <2>1. Told(m, d)
    BY <1>1, <1>3, HereNear DEF Books, Told, Up
  <2>2. Account(m, d) = IF d = n THEN c ELSE Account(Here, d)
    BY <1>2 DEF Edits
  <2>3. CASE d = n
    BY <1>4, <2>1, <2>2, <2>3, RestLed DEF a
  <2>4. CASE d # n
    BY <1>1, <2>1, <2>2, <2>4, GoesLed DEF Books, Goes
  <2> QED BY <2>3, <2>4
<1>6. Rested(m)
  <2>1. ~ Untouched(Account(Here, n))
    BY <1>1 DEF Untouched, a
  <2>2. \A d \in Node : BlocksRelease(m, d) = BlocksRelease(Here, d)
    BY <1>3, HereNear DEF BlocksRelease, Owes
  <2> QED BY <1>3, <2>1, <2>2, HereNear DEF Ledger, Rested, Rests
<1> QED BY <1>1, <1>2, <1>5, <1>6 DEF Arrived, Landed, Ledger, Books

LEMMA AcknowledgedLands ==
  ASSUME TypeOK, Ledger(Here), NEW n \in Node, NEW ok \in BOOLEAN, Acknowledged(n, ok)
  PROVE  Arrived
<1> DEFINE s == [slot[n] EXCEPT !.publishing = FALSE]
           m == [Here EXCEPT !.slot[n] = s]
           k == {<<n, slot[n].attempt>>}
           r == [s EXCEPT !.st = "Ready"]
           w == [Here EXCEPT !.slot[n] = r]
           f == [m EXCEPT !.report.faults = @ \cup k, !.due.faults = @ \cup k]
           a == Account(Here, n)
<1>1. slot[n].publishing /\ BlocksRelease(Here, n)
  BY HereNear DEF Acknowledged, BlocksRelease
<1>2. /\ Ongoing /\ Begun(Here, n) /\ a \in Accounts /\ a.slot = slot[n] /\ a.phase = body[n].phase
      /\ Entry(n, a) /\ Told(Here, n) /\ slot[n] \in Slot /\ slot[n].st \in StatesOf(n)
      /\ plan \in Plans /\ slot[n].attempt \in Nat
  BY <1>1, Alive, Counters
<1>3. s \in Slot /\ Stands(slot[n], s) /\ s.held = slot[n].held /\ s.st \in StatesOf(n)
  BY <1>2 DEF Slot, Stands
<1>4. r \in Slot /\ Kept(slot[n], r) /\ r.st = "Ready" /\ r.attempt = slot[n].attempt
      /\ r.st \in StatesOf(n)
  <2> HIDE DEF s
  <2> QED BY <1>3, CommonStates DEF Slot, NodeStates, Stands, Kept
<1>5. k \in SUBSET (Node \X Nat) /\ \A d \in Node \ {n} : Of(k, d) = {}
  BY <1>2 DEF Of
<1>6. \/ AfterSettle(m)
      \/ (slot[n].st = "Publishing" /\ AfterSettle(w))
      \/ (slot[n].st = "Publishing" /\ AfterSettle(NodeFailed(f, n)))
  <2>1. [Here EXCEPT !.slot[n].publishing = FALSE] = m
    BY HereNear DEF Here
  <2>2. [m EXCEPT !.slot[n].st = "Ready"] = w
    <3> HIDE DEF s
    <3> QED BY HereNear DEF Typed, State
  <2>3. CASE slot[n].st # "Publishing"
    <3>1. AfterSettle(m)
      BY <2>1, <2>3 DEF Acknowledged
    <3> QED BY <3>1
  <2>4. CASE slot[n].st = "Publishing" /\ ok
    <3>1. AfterSettle([m EXCEPT !.slot[n].st = "Ready"])
      BY <2>1, <2>4 DEF Acknowledged
    <3> QED BY <2>2, <2>4, <3>1
  <2>5. CASE slot[n].st = "Publishing" /\ ~ ok
    <3>1. AfterSettle(NodeFailed(f, n))
      BY <2>1, <2>5 DEF Acknowledged
    <3> QED BY <2>5, <3>1
  <2> QED BY <2>3, <2>4, <2>5
<1> HIDE DEF s, r, k
<1> DEFINE b == Account(m, n)
<1>7. /\ Begun(m, n) /\ m.slot[n] = s /\ b \in Accounts /\ b.slot = s /\ b.phase = a.phase
      /\ Same(a, b) /\ m.scope = scope
  BY <1>2, <1>3, HereNear, BegunAt
<1>8. Entry(n, b)
  <2> HIDE DEF a, b
  <2>1. Tasked(b) /\ Parks(n, b) /\ Lists(b)
    BY <1>2, <1>3, <1>7 DEF Entry, Draft, Tasked, Parks, Lists, Same, Stands
  <2>2. Balanced(n, b)
    BY <1>2, <1>3, <1>7 DEF Entry, Draft, Balanced, Same, Stands
  <2>3. Earned(n, b)
    BY <1>2, <1>3, <1>7 DEF Entry, Draft, Earned, Same, Stands
  <2> QED BY <2>1, <2>2, <2>3 DEF Entry, Draft
<1>9. Path(m)
  <2>1. Told(m, n)
    BY <1>2, <1>3, <1>7, HereNear DEF Told, Stands, Up
  <2> HIDE DEF m
  <2> QED BY <1>2, <1>3, <1>7, <1>8, <2>1, KeptPath DEF Stands
<1>10. ASSUME slot[n].st = "Publishing"
       PROVE  /\ a.phase = "none" /\ ~ CanOwe(n) /\ a.slot.parked = {} /\ a.slot.ambiguity = {}
              /\ a.faults = {} /\ a.ambiguous = {}
  <2>1. Decl(n).kind = "Join"
    BY <1>2, <1>10, StatesKind
  <2> HIDE DEF a
  <2> QED BY <1>2, <1>10, <2>1
          DEF Entry, Draft, Tasked, Parks, Lists, Accounts, CanOwe, CanHold, Past
<1>11. ASSUME slot[n].st = "Publishing" PROVE Path(w)
  <2> DEFINE c == Account(w, n)
  <2>1. /\ Begun(w, n) /\ w.slot[n] = r /\ c \in Accounts /\ c.slot = r /\ c.phase = a.phase
        /\ Same(a, c)
    BY <1>2, <1>4, BegunAt
  <2> HIDE DEF c, a, w
  <2>2. Entry(n, c)
    <3>1. Tasked(c) /\ Parks(n, c) /\ Lists(c)
      BY <1>2, <1>4, <1>10, <1>11, <2>1
         DEF Entry, Draft, Tasked, Parks, Lists, Same, Kept, Past
    <3>2. Balanced(n, c)
      BY <1>2, <1>4, <1>10, <1>11, <2>1 DEF Entry, Draft, Balanced, Same, Kept
    <3>3. Earned(n, c)
      BY <1>2, <1>4, <1>10, <1>11, <2>1
         DEF Entry, Draft, Earned, Same, Kept, Unstarted, Doubtful
    <3> QED BY <3>1, <3>2, <3>3 DEF Entry, Draft
  <2>3. Led(n, a, c)
    BY <1>2, <1>10, <1>11, <2>1, RestLed DEF Past
  <2>4. w.slot[n].st # "Running"
    BY <1>4, <2>1
  <2> QED BY <1>2, <2>1, <2>2, <2>3, <2>4, Arrives DEF a, c
<1>12. ASSUME slot[n].st = "Publishing" PROVE Path(NodeFailed(f, n))
  <2> DEFINE c == Account(f, n)
  <2>1. Typed(m)
    BY <1>7 DEF Begun
  <2> HIDE DEF m
  <2>2. /\ Typed(f) /\ f.slot = m.slot /\ f.body = m.body /\ f.scope = m.scope
        /\ f.report.faults = m.report.faults \cup k /\ f.due.faults = m.due.faults \cup k
        /\ f.report.ambiguous = m.report.ambiguous /\ f.due.ambiguous = m.due.ambiguous
        /\ f.report.cleanupFailures = m.report.cleanupFailures
        /\ f.report.incomplete = m.report.incomplete
        /\ f.due.held = m.due.held /\ f.due.overlaps = m.due.overlaps
    <3>1. Typed(f)
      BY <1>5, <2>1 DEF Typed, State, Report, Due
    <3>2. /\ f.slot = m.slot /\ f.body = m.body /\ f.scope = m.scope
          /\ f.report.faults = m.report.faults \cup k /\ f.due.faults = m.due.faults \cup k
          /\ f.report.ambiguous = m.report.ambiguous /\ f.due.ambiguous = m.due.ambiguous
          /\ f.report.cleanupFailures = m.report.cleanupFailures
          /\ f.report.incomplete = m.report.incomplete
          /\ f.due.held = m.due.held /\ f.due.overlaps = m.due.overlaps
      BY <2>1 DEF Typed, State, Report, Due
    <3> QED BY <3>1, <3>2
  <2> HIDE DEF f
  <2>3. \A d \in Node : /\ Of(f.report.faults, d) = Of(m.report.faults, d) \cup Of(k, d)
                        /\ Of(f.due.faults, d) = Of(m.due.faults, d) \cup Of(k, d)
    BY <2>2 DEF Of
  <2>4. /\ Begun(f, n) /\ c \in Accounts /\ c.slot = b.slot /\ c.phase = b.phase
        /\ c.failed = b.failed /\ c.left = b.left /\ c.owed = b.owed /\ c.twice = b.twice
        /\ c.faults = b.faults \cup Of(k, n) /\ c.ambiguous = b.ambiguous
        /\ c.dueFaults = b.dueFaults \cup Of(k, n) /\ c.dueAmbiguous = b.dueAmbiguous
    <3>1. \A d \in Node \ {n} : /\ Of(f.report.faults, d) = Of(m.report.faults, d)
                               /\ Of(f.report.ambiguous, d) = Of(m.report.ambiguous, d)
                               /\ Of(f.due.faults, d) = Of(m.due.faults, d)
                               /\ Of(f.due.ambiguous, d) = Of(m.due.ambiguous, d)
      BY <1>5, <2>2, <2>3
    <3>2. /\ Begun(f, n) /\ c \in Accounts /\ c.slot = b.slot /\ c.phase = b.phase
          /\ c.failed = b.failed /\ c.left = b.left /\ c.owed = b.owed /\ c.twice = b.twice
          /\ b.faults = Of(m.report.faults, n) /\ c.faults = Of(f.report.faults, n)
          /\ b.ambiguous = Of(m.report.ambiguous, n)
          /\ c.ambiguous = Of(f.report.ambiguous, n)
          /\ b.dueFaults = Of(m.due.faults, n) /\ c.dueFaults = Of(f.due.faults, n)
          /\ b.dueAmbiguous = Of(m.due.ambiguous, n)
          /\ c.dueAmbiguous = Of(f.due.ambiguous, n)
      <4>1. Begun(m, n)
        BY <1>7
      <4>2. /\ Typed(f) /\ f.scope = m.scope /\ f.slot = m.slot /\ f.body = m.body
            /\ f.report.cleanupFailures = m.report.cleanupFailures
            /\ f.report.incomplete = m.report.incomplete
            /\ f.due.held = m.due.held /\ f.due.overlaps = m.due.overlaps
        BY <2>2
      <4> QED BY <3>1, <4>1, <4>2, RecordEdit
    <3> QED BY <2>2, <2>3, <3>2
  <2> HIDE DEF b, c, a
  <2>5. Draft(n, c)
    <3>1. Tasked(c)
      BY <1>8, <2>4 DEF Entry, Draft, Tasked
    <3>2. Balanced(n, c)
      BY <1>8, <2>4 DEF Entry, Draft, Balanced
    <3>3. Earned(n, c)
      BY <1>8, <2>4 DEF Entry, Draft, Earned
    <3> QED BY <3>1, <3>2, <3>3 DEF Draft
  <2>6. c.phase = "none" /\ f.slot[n].st = "Publishing" /\ ~ CanOwe(n)
    BY <1>3, <1>7, <1>10, <1>12, <2>2, <2>4 DEF Stands
  <2> QED BY <1>2, <2>4, <2>5, <2>6, FailedPath DEF c
<1> QED BY <1>6, <1>9, <1>11, <1>12, Lands

LEMMA FailsEdit ==
  ASSUME NEW m, NEW n \in Node, Begun(m, n)
  PROVE  LET x == CleanupFails(m, n)
             a == Account(m, n)
             b == Account(x, n)
         IN /\ Begun(x, n) /\ b \in Accounts /\ b.slot = a.slot /\ b.phase = a.phase
            /\ b.faults = a.faults /\ b.ambiguous = a.ambiguous /\ b.failed
            /\ b.left = a.left /\ b.dueFaults = a.dueFaults /\ b.twice = a.twice
            /\ b.dueAmbiguous = a.dueAmbiguous /\ b.owed = a.owed
            /\ x.slot[n] = m.slot[n] /\ x.scope = m.scope
<1> DEFINE x == CleanupFails(m, n)
           a == Account(m, n)
           b == Account(x, n)
           c == [a EXCEPT !.failed = TRUE]
<1>1. Typed(m) /\ a \in Accounts
  BY BegunSlotIs DEF Begun
<1>2. Typed(x) /\ Edits(m, x, n, c) /\ x.slot = m.slot /\ x.scope = m.scope
  BY <1>1, CleanupFailsTyped, CleanupFailsAccount DEF CleanupFails, Typed, State
<1> HIDE DEF x, a
<1>3. /\ c \in Accounts /\ c.slot = a.slot /\ c.phase = a.phase
      /\ c.faults = a.faults /\ c.ambiguous = a.ambiguous /\ c.failed
      /\ c.left = a.left /\ c.dueFaults = a.dueFaults /\ c.twice = a.twice
      /\ c.dueAmbiguous = a.dueAmbiguous /\ c.owed = a.owed
  BY <1>1 DEF Accounts
<1> HIDE DEF c
<1>4. Begun(x, n) /\ b = c
  BY <1>2, BegunEdit
<1> QED BY <1>2, <1>3, <1>4 DEF x, a

LEMMA ParkEdit ==
  ASSUME NEW m, NEW n \in Node, Begun(m, n), Draft(n, Account(m, n)), NEW k \in Nat
  PROVE  LET p == ParkFault(m, n, k)
             a == Account(m, n)
             b == Account(p, n)
         IN /\ Begun(p, n) /\ b \in Accounts /\ Draft(n, b) /\ b.phase = a.phase
            /\ b.slot = p.slot[n] /\ b.slot = [a.slot EXCEPT !.parked = a.slot.parked \cup {k}]
            /\ b.faults = a.faults /\ b.ambiguous = a.ambiguous /\ p.scope = m.scope
<1> DEFINE p == ParkFault(m, n, k)
           a == Account(m, n)
           b == Account(p, n)
           c == Parked(a, k)
<1>1. Typed(m) /\ a \in Accounts /\ Draft(n, a)
  BY BegunSlotIs DEF Begun
<1>2. Typed(p) /\ Edits(m, p, n, c) /\ p.scope = m.scope
  BY <1>1, ParkFaultTyped, ParkAccount DEF ParkFault, Typed, State
<1> HIDE DEF p, a
<1>3. /\ c \in Accounts /\ Draft(n, c) /\ c.phase = a.phase
      /\ c.slot = [a.slot EXCEPT !.parked = a.slot.parked \cup {k}]
      /\ c.faults = a.faults /\ c.ambiguous = a.ambiguous
  BY <1>1, ParkedDraft
<1> HIDE DEF c
<1>4. Begun(p, n) /\ b = c /\ p.slot[n] = c.slot
  BY <1>2, BegunEdit
<1> QED BY <1>2, <1>3, <1>4 DEF p, a

LEMMA AbortEdit ==
  ASSUME NEW m, NEW n \in Node, Begun(m, n), NEW S \in SUBSET Node
  PROVE  LET x == Abort(m, S) IN
         /\ Begun(x, n) /\ Account(x, n) = Account(m, n)
         /\ x.slot[n] = m.slot[n] /\ x.scope = m.scope
<1> DEFINE x == Abort(m, S)
<1>1. Typed(m) /\ Typed(x)
  BY AbortTyped DEF Begun
<1>2. x.scope = m.scope /\ x.slot = m.slot /\ \A d \in Node : Account(x, d) = Account(m, d)
  <2>1. x.scope = m.scope /\ x.slot = m.slot
    BY <1>1 DEF Abort, Typed, State
  <2>2. \A d \in Node : Account(x, d) = Account(m, d)
    BY <1>1, AbortAccount
  <2> QED BY <2>1, <2>2
<1> HIDE DEF x
<1>3. Edits(m, x, n, Account(x, n))
  BY <1>2 DEF Edits
<1> QED BY <1>1, <1>2, <1>3, BegunEdit DEF x

(* The cleanup of n, or its serving, is over.                              *)
LEMMA OverEntry ==
  ASSUME NEW n \in Node, NEW a \in Accounts, Entry(n, a), a.phase = "none",
         a.slot.st \in {"Ready", "Stopping", "Releasing", "Compensating"},
         NEW c \in Accounts, c.phase = "none", c.slot.parked = a.slot.parked,
         c.slot.ambiguity = a.slot.ambiguity, c.slot.attempt = a.slot.attempt,
         c.slot.held = a.slot.held, c.slot.recovering = a.slot.recovering,
         c.faults = a.faults, c.ambiguous = a.ambiguous, c.left = a.left,
         c.dueFaults = a.dueFaults, c.dueAmbiguous = a.dueAmbiguous, c.twice = a.twice,
         ~ c.owed, c.slot.st \in {"Finished", "Stopped", "Released", "Compensated",
                                  "ReleaseFailed"},
         c.slot.st = "ReleaseFailed" => c.failed,
         a.slot.st = "Compensating" => c.slot.st \in {"Compensated", "ReleaseFailed"}
  PROVE  Entry(n, c)
<1>1. Tasked(c) /\ Parks(n, c) /\ Lists(c)
  BY DEF Entry, Draft, Tasked, Parks, Lists, Undecided, Unstarted, Past
<1>2. Balanced(n, c)
  BY DEF Entry, Draft, Balanced, Holding
<1>3. Earned(n, c)
  BY DEF Entry, Draft, Earned, Unstarted, Doubtful
<1> QED BY <1>1, <1>2, <1>3 DEF Entry, Draft

LEMMA ServiceStopsLands ==
  ASSUME TypeOK, Ledger(Here), NEW n \in Node, NEW ok \in BOOLEAN, ServiceStops(n, ok)
  PROVE  Arrived
<1> DEFINE g == TaskEnds(Here, n)
           s == [g.slot[n] EXCEPT !.timer = "none"]
           t == [s EXCEPT !.st = "Stopped"]
           u == [s EXCEPT !.st = "ReleaseFailed"]
           m == [g EXCEPT !.slot[n] = s]
           y == [g EXCEPT !.slot[n] = t]
           z == [g EXCEPT !.slot[n] = u]
           f == CleanupFails(z, n)
           a == Account(g, n)
<1>1. slot[n].st = "Stopping" /\ BlocksRelease(Here, n)
  BY HereNear DEF ServiceStops, BlocksRelease, CleanupStates
<1>2. /\ Ongoing /\ slot[n] \in Slot /\ slot[n].st \in StatesOf(n) /\ plan \in Plans
      /\ Account(Here, n).slot = slot[n]
  BY <1>1, Alive
<1>3. /\ Begun(g, n) /\ a \in Accounts /\ Entry(n, a) /\ a.phase = "none"
      /\ a.slot = slot[n] /\ g.slot[n] = slot[n] /\ Typed(g)
  BY <1>2, TaskGone DEF Begun
<1>4. IsService(n) /\ {"Stopped", "ReleaseFailed"} \subseteq StatesOf(n)
  BY <1>1, <1>2, StatesKind, KindStates
<1>5. AfterSettle(y) \/ AfterSettle(f)
  <2>1. [g EXCEPT !.slot[n].timer = "none"] = m
    <3> HIDE DEF g
    <3> QED BY <1>3 DEF Typed, State
  <2>2. /\ [m EXCEPT !.slot[n].st = "Stopped"] = y
        /\ [m EXCEPT !.slot[n].st = "ReleaseFailed"] = z
    <3> HIDE DEF g, s
    <3> QED BY <1>3 DEF Typed, State
  <2>3. CASE ok
    <3>1. AfterSettle([[g EXCEPT !.slot[n].timer = "none"] EXCEPT !.slot[n].st = "Stopped"])
      BY <2>3 DEF ServiceStops
    <3> QED BY <2>1, <2>2, <3>1
  <2>4. CASE ~ ok
    <3>1. AfterSettle(CleanupFails([[g EXCEPT !.slot[n].timer = "none"]
                                      EXCEPT !.slot[n].st = "ReleaseFailed"], n))
      BY <2>4 DEF ServiceStops
    <3> QED BY <2>1, <2>2, <3>1
  <2> QED BY <2>3, <2>4
<1> HIDE DEF g
<1>6. s \in Slot /\ Kept(slot[n], s) /\ s.attempt = slot[n].attempt
  BY <1>2, <1>3 DEF Slot, Kept
<1> HIDE DEF s
<1>7. /\ t \in Slot /\ t.st = "Stopped" /\ Kept(slot[n], t) /\ t.attempt = slot[n].attempt
      /\ u \in Slot /\ u.st = "ReleaseFailed" /\ Kept(slot[n], u) /\ u.attempt = slot[n].attempt
  BY <1>6 DEF Slot, NodeStates, Kept
<1> HIDE DEF t, u, a
<1> DEFINE b == Account(y, n)
           c == Account(z, n)
           e == Account(f, n)
<1>8. /\ Begun(y, n) /\ y.slot[n] = t /\ b \in Accounts /\ b.slot = t /\ b.phase = a.phase
      /\ Same(a, b)
  BY <1>3, <1>4, <1>7, BegunAt DEF a
<1>9. /\ Begun(z, n) /\ z.slot[n] = u /\ c \in Accounts /\ c.slot = u /\ c.phase = a.phase
      /\ Same(a, c)
  BY <1>3, <1>4, <1>7, BegunAt DEF a
<1> HIDE DEF y, z
<1>10. /\ Begun(f, n) /\ e \in Accounts /\ e.slot = c.slot /\ e.phase = c.phase
       /\ e.faults = c.faults /\ e.ambiguous = c.ambiguous /\ e.failed
       /\ e.left = c.left /\ e.dueFaults = c.dueFaults /\ e.twice = c.twice
       /\ e.dueAmbiguous = c.dueAmbiguous /\ e.owed = c.owed
       /\ f.slot[n] = z.slot[n]
  BY <1>9, FailsEdit
<1> HIDE DEF b, c, e, f
<1>11. ~ a.owed
  BY <1>3, <1>4 DEF Entry, Draft, Balanced, CanOwe, CanHold, IsService
<1>12. Path(y)
  <2>1. Entry(n, b) /\ b.phase = "none"
    BY <1>1, <1>3, <1>7, <1>8, <1>11, OverEntry DEF Same, Kept
  <2>2. Led(n, Account(Here, n), b)
    BY <1>7, <1>8, <2>1, RestLed DEF Past
  <2>3. y.slot[n].st # "Running"
    BY <1>7, <1>8
  <2> QED BY <1>2, <1>8, <2>1, <2>2, <2>3, Arrives DEF b
<1>13. Path(f)
  <2>1. Entry(n, e) /\ e.phase = "none"
    BY <1>1, <1>3, <1>7, <1>9, <1>10, <1>11, OverEntry DEF Same, Kept
  <2>2. Led(n, Account(Here, n), e)
    BY <1>7, <1>9, <1>10, <2>1, RestLed DEF Past
  <2>3. f.slot[n].st # "Running"
    BY <1>7, <1>9, <1>10
  <2> QED BY <1>2, <1>10, <2>1, <2>2, <2>3, Arrives DEF e
<1> QED BY <1>5, <1>12, <1>13, Lands

LEMMA ServingEndsLands ==
  ASSUME TypeOK, Ledger(Here), NEW n \in Node, NEW ok \in BOOLEAN, ServingEnds(n, ok)
  PROVE  Arrived
<1> DEFINE g == TaskEnds(Here, n)
           s == [g.slot[n] EXCEPT !.granted = FALSE]
           t == [s EXCEPT !.st = "Finished"]
           m == [g EXCEPT !.slot[n] = s]
           f == [g EXCEPT !.slot[n] = t]
           k == slot[n].restarts + 1
           p == ParkFault(m, n, k)
           r == [p.slot[n] EXCEPT !.restarts = @ + 1]
           q == [p EXCEPT !.slot[n] = r]
           a == Account(g, n)
<1>1. slot[n].st = "Ready" /\ body[n].phase = "serve" /\ IsService(n)
  BY DEF ServingEnds, TypeOK
<1>2. BlocksRelease(Here, n)
  BY <1>1, HereNear DEF BlocksRelease, Owes
<1>3. /\ Ongoing /\ slot[n] \in Slot /\ slot[n].st \in StatesOf(n) /\ plan \in Plans
      /\ Account(Here, n).slot = slot[n]
  BY <1>1, <1>2, Alive
<1>4. /\ Begun(g, n) /\ a \in Accounts /\ Entry(n, a) /\ a.phase = "none"
      /\ a.slot = slot[n] /\ g.slot[n] = slot[n] /\ Typed(g)
  BY <1>3, TaskGone DEF Begun
<1>5. /\ {"Backoff", "Finished"} \subseteq StatesOf(n) /\ k \in Nat /\ Decl(n).kind # "Join"
      /\ ~ CanOwe(n)
  BY <1>1, <1>3, KindStates, Counters DEF IsService, CanOwe, CanHold
<1>6. \/ AfterSettle(f) \/ AfterSettle(Settle(f, "Terminal"))
      \/ AfterSettle(Backoff([p EXCEPT !.slot[n].restarts = @ + 1], n))
      \/ AfterSettle(NodeFailed(p, n))
  <2>1. [g EXCEPT !.slot[n].granted = FALSE] = m
    <3> HIDE DEF g
    <3> QED BY <1>4 DEF Typed, State
  <2>2. [m EXCEPT !.slot[n].st = "Finished"] = f
    <3> HIDE DEF g, s
    <3> QED BY <1>4 DEF Typed, State
  <2>3. CASE ok
    <3>1. AfterSettle(IF Decl(n).terminal THEN Settle(f, "Terminal") ELSE f)
      BY <2>1, <2>2, <2>3 DEF ServingEnds
    <3>2. CASE Decl(n).terminal
      BY <3>1, <3>2
    <3>3. CASE ~ Decl(n).terminal
      BY <3>1, <3>3
    <3> QED BY <3>2, <3>3
  <2>4. CASE ~ ok
    <3>1. AfterSettle(IF slot[n].restarts < Decl(n).restarts /\ Admits(m)
                      THEN Backoff([p EXCEPT !.slot[n].restarts = @ + 1], n)
                      ELSE NodeFailed(p, n))
      BY <2>1, <2>4 DEF ServingEnds
    <3>2. CASE slot[n].restarts < Decl(n).restarts /\ Admits(m)
      BY <3>1, <3>2
    <3>3. CASE ~ (slot[n].restarts < Decl(n).restarts /\ Admits(m))
      BY <3>1, <3>3
    <3> QED BY <3>2, <3>3
  <2> QED BY <2>3, <2>4
<1> HIDE DEF g, k
<1>7. s \in Slot /\ Kept(slot[n], s) /\ s.attempt = slot[n].attempt /\ s.st = "Ready"
      /\ s.st \in StatesOf(n)
  BY <1>1, <1>3, <1>4 DEF Slot, Kept
<1> HIDE DEF s
<1>8. t \in Slot /\ t.st = "Finished" /\ Kept(slot[n], t) /\ t.attempt = slot[n].attempt
  BY <1>7 DEF Slot, NodeStates, Kept
<1> HIDE DEF t, a
<1> DEFINE b == Account(m, n)
           c == Account(f, n)
           e == Account(p, n)
           x == Account(q, n)
<1>9. /\ Begun(m, n) /\ m.slot[n] = s /\ b \in Accounts /\ b.slot = s /\ b.phase = a.phase
      /\ Same(a, b)
  BY <1>4, <1>7, BegunAt DEF a
<1>10. /\ Begun(f, n) /\ f.slot[n] = t /\ c \in Accounts /\ c.slot = t /\ c.phase = a.phase
       /\ Same(a, c)
  BY <1>4, <1>5, <1>8, BegunAt DEF a
<1> HIDE DEF f, m, b, c
<1>11. Path(f)
  <2>1. ~ a.owed
    BY <1>4, <1>5 DEF Entry, Draft, Balanced
  <2>2. Entry(n, c) /\ c.phase = "none"
    BY <1>1, <1>4, <1>8, <1>10, <2>1, OverEntry DEF Same, Kept
  <2>3. Led(n, Account(Here, n), c)
    BY <1>1, <1>3, <1>8, <1>10, <2>2, RestLed DEF Past
  <2>4. f.slot[n].st # "Running"
    BY <1>8, <1>10
  <2> QED BY <1>3, <1>10, <2>2, <2>3, <2>4, Arrives DEF c
<1>12. Path(Settle(f, "Terminal"))
  BY <1>11, SettleSound, PathSound DEF Path
<1>13. Draft(n, b) /\ b.faults = {} /\ b.ambiguous = {} /\ b.phase = "none"
  <2>1. Balanced(n, b)
    BY <1>1, <1>4, <1>7, <1>9 DEF Entry, Draft, Balanced, Same, Kept
  <2>2. Tasked(b) /\ Earned(n, b)
    BY <1>1, <1>4, <1>7, <1>9 DEF Entry, Draft, Tasked, Earned, Same, Kept
  <2>3. b.faults = {} /\ b.ambiguous = {}
    BY <1>1, <1>4, <1>9 DEF Entry, Lists, Same, Past
  <2> QED BY <1>4, <1>9, <2>1, <2>2, <2>3 DEF Draft
<1>14. /\ Begun(p, n) /\ e \in Accounts /\ Draft(n, e) /\ e.phase = "none"
       /\ e.slot = p.slot[n] /\ e.slot = [s EXCEPT !.parked = s.parked \cup {k}]
       /\ e.faults = {} /\ e.ambiguous = {}
  BY <1>5, <1>9, <1>13, ParkEdit DEF b
<1>15. p.slot[n] \in Slot /\ p.slot[n].st = "Ready" /\ Typed(p)
  BY <1>7, <1>14, SlotTyped DEF Begun, Slot
<1> HIDE DEF p, e
<1>16. Path(NodeFailed(p, n))
  BY <1>3, <1>5, <1>14, <1>15, FailedPath DEF e
<1>17. [p EXCEPT !.slot[n].restarts = @ + 1] = q
  BY <1>15 DEF Typed, State
<1>18. /\ r \in Slot /\ r.st = "Ready" /\ r.held = p.slot[n].held
       /\ r.recovering = p.slot[n].recovering /\ r.parked = p.slot[n].parked
       /\ r.ambiguity = p.slot[n].ambiguity /\ r.attempt = p.slot[n].attempt
       /\ r.st \in StatesOf(n)
  BY <1>1, <1>3, <1>15, Counters DEF Slot
<1> HIDE DEF r
<1>19. /\ Begun(q, n) /\ q.slot[n] = r /\ x \in Accounts /\ x.slot = r /\ x.phase = e.phase
       /\ Same(e, x)
  BY <1>14, <1>18, BegunAt DEF e
<1> HIDE DEF q, x
<1>20. Draft(n, x)
  <2>1. Balanced(n, x)
    <3>1. ~ x.owed /\ ~ x.left
      BY <1>5, <1>14, <1>15, <1>19 DEF Draft, Balanced, Same
    <3>2. /\ x.dueFaults = e.dueFaults /\ x.faults = e.faults
          /\ x.dueAmbiguous = e.dueAmbiguous /\ x.ambiguous = e.ambiguous
          /\ x.slot.parked = e.slot.parked /\ x.slot.ambiguity = e.slot.ambiguity
          /\ x.slot.st = "Ready"
      BY <1>14, <1>18, <1>19 DEF Same
    <3>3. Balanced(n, e)
      BY <1>14 DEF Draft
    <3> QED BY <1>5, <3>1, <3>2, <3>3 DEF Balanced
  <2>2. Tasked(x) /\ Earned(n, x)
    BY <1>14, <1>15, <1>18, <1>19 DEF Draft, Tasked, Earned, Same
  <2> QED BY <2>1, <2>2 DEF Draft
<1>21. Idle(n, x) /\ x.faults \cup x.ambiguous = {}
  <2>1. x.slot.st = "Ready" /\ x.phase = "none" /\ x.faults \cup x.ambiguous = {}
    BY <1>14, <1>18, <1>19 DEF Same
  <2> QED BY <1>5, <1>19, <1>20, <2>1, DraftIdle DEF Doubtful
<1>22. Path(Backoff(q, n))
  <2>1. slot[n].st \notin Past
    BY <1>1 DEF Past
  <2> QED BY <1>3, <1>5, <1>19, <1>21, <2>1, BackoffPath DEF x
<1> QED BY <1>6, <1>11, <1>12, <1>16, <1>17, <1>22, Lands

LEMMA CleanupReturnsLands ==
  ASSUME TypeOK, Ledger(Here), NEW n \in Node, NEW ok \in BOOLEAN, CleanupReturns(n, ok)
  PROVE  Arrived
<1> DEFINE g == TaskEnds(Here, n)
           h == g.due.held \ {n}
           m == [g EXCEPT !.due.held = h]
           k == {<<n, slot[n].attempt>>}
           z == IF slot[n].st = "Releasing" THEN "Released" ELSE "Compensated"
           s == [m.slot[n] EXCEPT !.st = z]
           t == [m.slot[n] EXCEPT !.st = "ReleaseFailed"]
           done == [m EXCEPT !.slot[n] = s]
           found == [done EXCEPT !.report.ambiguous = @ \ k, !.due.ambiguous = @ \ k]
           fails == [m EXCEPT !.slot[n] = t]
           f == CleanupFails(fails, n)
           a == Account(g, n)
           o == Account(m, n)
           b == Account(done, n)
           c == Account(found, n)
           d == Account(fails, n)
           e == Account(f, n)
<1>1. slot[n].st \in {"Releasing", "Compensating"} /\ BlocksRelease(Here, n)
  BY HereNear DEF CleanupReturns, BlocksRelease, CleanupStates
<1>2. /\ Ongoing /\ slot[n] \in Slot /\ slot[n].st \in StatesOf(n) /\ plan \in Plans
      /\ Account(Here, n).slot = slot[n]
  BY <1>1, Alive
<1>3. /\ Begun(g, n) /\ a \in Accounts /\ Entry(n, a) /\ a.phase = "none"
      /\ a.slot = slot[n] /\ g.slot[n] = slot[n] /\ Typed(g)
  BY <1>2, TaskGone DEF Begun
<1>4. "ReleaseFailed" \in StatesOf(n) /\ z \in StatesOf(n) /\ z \in NodeStates
  BY <1>1, TaskStates DEF CleanupStates, NodeStates
<1>5. \/ AfterSettle(done) \/ (slot[n].recovering /\ AfterSettle(found)) \/ AfterSettle(f)
  <2>1. [m EXCEPT !.slot[n].st = z] = done
    <3> HIDE DEF z, g
    <3> QED BY <1>3 DEF Typed, State
  <2>2. [m EXCEPT !.slot[n].st = "ReleaseFailed"] = fails
    <3> HIDE DEF g
    <3> QED BY <1>3 DEF Typed, State
  <2>3. CASE ok /\ slot[n].recovering
    <3>1. AfterSettle([[m EXCEPT !.slot[n].st = z]
                         EXCEPT !.report.ambiguous = @ \ k, !.due.ambiguous = @ \ k])
      BY <2>3 DEF CleanupReturns
    <3> QED BY <2>1, <2>3, <3>1
  <2>4. CASE ok /\ ~ slot[n].recovering
    <3>1. AfterSettle([m EXCEPT !.slot[n].st = z])
      BY <2>4 DEF CleanupReturns
    <3> QED BY <2>1, <3>1
  <2>5. CASE ~ ok
    <3>1. AfterSettle(CleanupFails([m EXCEPT !.slot[n].st = "ReleaseFailed"], n))
      BY <2>5 DEF CleanupReturns
    <3> QED BY <2>2, <3>1
  <2>6. ok \/ ~ ok
    OBVIOUS
  <2> QED BY <2>3, <2>4, <2>5
<1> HIDE DEF g
<1>6. h \in SUBSET Node /\ n \notin h /\ \A x \in Node : x # n => (x \in h <=> x \in g.due.held)
  BY <1>3 DEF Typed, State, Due
<1> HIDE DEF h
<1>60. Begun(g, n) /\ m = [g EXCEPT !.due.held = h]
  BY <1>3 DEF m
<1>61. \A x \in Node : x # n => (x \in h <=> x \in g.due.held)
  BY <1>6
<1> HIDE DEF m
<1>62. /\ Begun(m, n) /\ o \in Accounts /\ o.slot = a.slot /\ o.phase = a.phase
       /\ o.faults = a.faults /\ o.ambiguous = a.ambiguous /\ o.failed = a.failed
       /\ o.left = a.left /\ o.dueFaults = a.dueFaults /\ o.twice = a.twice
       /\ o.dueAmbiguous = a.dueAmbiguous /\ o.owed = (n \in h)
       /\ m.slot[n] = g.slot[n]
  BY <1>6, <1>60, <1>61, OwedEdit DEF a, o
<1>7. /\ Begun(m, n) /\ o \in Accounts /\ o.slot = a.slot /\ o.phase = a.phase
      /\ o.faults = a.faults /\ o.ambiguous = a.ambiguous /\ o.failed = a.failed
      /\ o.left = a.left /\ o.dueFaults = a.dueFaults /\ o.twice = a.twice
      /\ o.dueAmbiguous = a.dueAmbiguous /\ ~ o.owed
      /\ m.slot[n] = g.slot[n]
  BY <1>6, <1>62
<1> HIDE DEF m, o, a
<1>8. /\ s \in Slot /\ Kept(slot[n], s) /\ s.attempt = slot[n].attempt /\ s.st = z
      /\ t \in Slot /\ Kept(slot[n], t) /\ t.attempt = slot[n].attempt
      /\ t.st = "ReleaseFailed"
  <2> HIDE DEF z
  <2> QED BY <1>2, <1>3, <1>4, <1>7 DEF Slot, NodeStates, Kept
<1>9. z \in {"Released", "Compensated"} /\ (slot[n].st = "Compensating" => z = "Compensated")
  OBVIOUS
<1> HIDE DEF s, t, z, k
<1>10. /\ Begun(done, n) /\ done.slot[n] = s /\ b \in Accounts /\ b.slot = s
       /\ b.phase = o.phase /\ Same(o, b)
  BY <1>4, <1>7, <1>8, BegunAt DEF o
<1>11. /\ Begun(fails, n) /\ fails.slot[n] = t /\ d \in Accounts /\ d.slot = t
       /\ d.phase = o.phase /\ Same(o, d)
  BY <1>4, <1>7, <1>8, BegunAt DEF o
<1> HIDE DEF fails, done, b, d
<1>12. /\ Begun(f, n) /\ e \in Accounts /\ e.slot = d.slot /\ e.phase = d.phase
       /\ e.faults = d.faults /\ e.ambiguous = d.ambiguous /\ e.failed
       /\ e.left = d.left /\ e.dueFaults = d.dueFaults /\ e.twice = d.twice
       /\ e.dueAmbiguous = d.dueAmbiguous /\ e.owed = d.owed
       /\ f.slot[n] = fails.slot[n]
  BY <1>11, FailsEdit DEF d
<1> HIDE DEF f, e
<1>13. Path(done) /\ Entry(n, b)
  <2>1. Entry(n, b) /\ b.phase = "none"
    BY <1>1, <1>3, <1>7, <1>8, <1>9, <1>10, OverEntry DEF Same, Kept
  <2>2. Led(n, Account(Here, n), b)
    BY <1>8, <1>9, <1>10, <2>1, RestLed DEF Past
  <2>3. done.slot[n].st # "Running"
    BY <1>8, <1>9, <1>10
  <2> QED BY <1>2, <1>10, <2>1, <2>2, <2>3, Arrives DEF b
<1>14. Path(f)
  <2>1. Entry(n, e) /\ e.phase = "none"
    BY <1>1, <1>3, <1>7, <1>8, <1>11, <1>12, OverEntry DEF Same, Kept
  <2>2. Led(n, Account(Here, n), e)
    BY <1>8, <1>11, <1>12, <2>1, RestLed DEF Past
  <2>3. f.slot[n].st # "Running"
    BY <1>8, <1>11, <1>12
  <2> QED BY <1>2, <1>12, <2>1, <2>2, <2>3, Arrives DEF e
<1>15. ASSUME slot[n].recovering PROVE Path(found)
  <2>1. Typed(done)
    BY <1>10 DEF Begun
  <2>2. /\ Typed(found) /\ found.slot = done.slot /\ found.body = done.body
        /\ found.scope = done.scope
        /\ found.report.ambiguous = done.report.ambiguous \ k
        /\ found.due.ambiguous = done.due.ambiguous \ k
        /\ found.report.faults = done.report.faults /\ found.due.faults = done.due.faults
        /\ found.report.cleanupFailures = done.report.cleanupFailures
        /\ found.report.incomplete = done.report.incomplete
        /\ found.due.held = done.due.held /\ found.due.overlaps = done.due.overlaps
    <3>1. Typed(found)
      BY <2>1 DEF Typed, State, Report, Due
    <3> QED BY <2>1, <3>1 DEF Typed, State, Report, Due
  <2> HIDE DEF found
  <2>3. \A x \in Node : /\ Of(found.report.ambiguous, x) = Of(done.report.ambiguous, x) \ Of(k, x)
                        /\ Of(found.due.ambiguous, x) = Of(done.due.ambiguous, x) \ Of(k, x)
    BY <2>2 DEF Of
  <2>4. Of(k, n) = {slot[n].attempt} /\ \A x \in Node \ {n} : Of(k, x) = {}
    BY <1>2, Counters DEF Of, k
  <2>50. ASSUME NEW x \in Node \ {n}
         PROVE  /\ Of(found.report.faults, x) = Of(done.report.faults, x)
                /\ Of(found.report.ambiguous, x) = Of(done.report.ambiguous, x)
                /\ Of(found.due.faults, x) = Of(done.due.faults, x)
                /\ Of(found.due.ambiguous, x) = Of(done.due.ambiguous, x)
    <3>1. Of(k, x) = {} /\ x \in Node
      BY <2>4
    <3>2. /\ Of(found.report.ambiguous, x) = Of(done.report.ambiguous, x) \ {}
          /\ Of(found.due.ambiguous, x) = Of(done.due.ambiguous, x) \ {}
      BY <2>3, <3>1
    <3> QED BY <2>2, <3>2
  <2>5. \A x \in Node \ {n} : /\ Of(found.report.faults, x) = Of(done.report.faults, x)
                             /\ Of(found.report.ambiguous, x) = Of(done.report.ambiguous, x)
                             /\ Of(found.due.faults, x) = Of(done.due.faults, x)
                             /\ Of(found.due.ambiguous, x) = Of(done.due.ambiguous, x)
    BY <2>50
  <2>6. /\ Begun(found, n) /\ c \in Accounts /\ c.slot = b.slot /\ c.phase = b.phase
        /\ c.failed = b.failed /\ c.left = b.left /\ c.owed = b.owed /\ c.twice = b.twice
        /\ b.faults = Of(done.report.faults, n) /\ c.faults = Of(found.report.faults, n)
        /\ b.ambiguous = Of(done.report.ambiguous, n)
        /\ c.ambiguous = Of(found.report.ambiguous, n)
        /\ b.dueFaults = Of(done.due.faults, n) /\ c.dueFaults = Of(found.due.faults, n)
        /\ b.dueAmbiguous = Of(done.due.ambiguous, n)
        /\ c.dueAmbiguous = Of(found.due.ambiguous, n)
    <3>1. Begun(done, n)
      BY <1>10
    <3>2. /\ Typed(found) /\ found.scope = done.scope /\ found.slot = done.slot
          /\ found.body = done.body
          /\ found.report.cleanupFailures = done.report.cleanupFailures
          /\ found.report.incomplete = done.report.incomplete
          /\ found.due.held = done.due.held /\ found.due.overlaps = done.due.overlaps
      BY <2>2
    <3> QED BY <2>5, <3>1, <3>2, RecordEdit DEF b
  <2> HIDE DEF c
  <2>7. /\ c.faults = b.faults /\ c.dueFaults = b.dueFaults
        /\ c.ambiguous = b.ambiguous \ {slot[n].attempt}
        /\ c.dueAmbiguous = b.dueAmbiguous \ {slot[n].attempt}
    BY <2>2, <2>3, <2>4, <2>6
  <2>8. b.dueAmbiguous \cup b.ambiguous \subseteq {slot[n].attempt} /\ b.slot.ambiguity = {}
    <3>1. b.slot.recovering /\ b.slot.attempt = slot[n].attempt /\ b.slot.st = z
      BY <1>8, <1>10, <1>15 DEF Kept
    <3>2. Decl(n).ambiguity # "retry"
      BY <1>13, <3>1 DEF Entry, Draft, Earned, RecoversAmbiguity
    <3> QED BY <1>9, <1>13, <3>1, <3>2 DEF Entry, Draft, Earned, Parks, Undecided, Unstarted
  <2>9. c.ambiguous = {} /\ c.dueAmbiguous = {}
    BY <2>7, <2>8
  <2>10. Entry(n, c) /\ c.phase = "none"
    <3>1. b.slot.st = z /\ b.phase = "none"
      BY <1>3, <1>7, <1>8, <1>10
    <3>2. Tasked(c) /\ Parks(n, c) /\ Lists(c) /\ c.phase = "none"
      BY <1>13, <2>6, <2>7, <2>9, <3>1 DEF Entry, Draft, Tasked, Parks, Lists
    <3>3. Balanced(n, c)
      BY <1>13, <2>6, <2>7, <2>8, <2>9 DEF Entry, Draft, Balanced
    <3>4. Earned(n, c)
      BY <1>9, <1>13, <2>6, <2>8, <2>9, <3>1 DEF Entry, Draft, Earned
    <3> QED BY <3>2, <3>3, <3>4 DEF Entry, Draft
  <2>11. Led(n, Account(Here, n), c)
    BY <1>8, <1>9, <1>10, <2>6, <2>10, RestLed DEF Past
  <2>12. found.slot[n].st # "Running"
    BY <1>8, <1>9, <1>10, <2>2
  <2> QED BY <1>2, <2>6, <2>10, <2>11, <2>12, Arrives DEF c
<1> QED BY <1>5, <1>13, <1>14, <1>15, Lands

LEMMA RetryReleaseReturnsLands ==
  ASSUME TypeOK, Ledger(Here), NEW n \in Node, NEW ok \in BOOLEAN, RetryReleaseReturns(n, ok)
  PROVE  Arrived
<1> DEFINE g == TaskEnds(Here, n)
           s == [g.slot[n] EXCEPT !.held = FALSE]
           c == [g EXCEPT !.slot[n] = s]
           h == c.due.held \ {n}
           q == [c EXCEPT !.due.held = h]
           f == CleanupFails(q, n)
           r == IF ok THEN q ELSE f
           i == [r.slot[n] EXCEPT !.st = "Interrupted", !.attempt = @ + 1]
           j == [r EXCEPT !.slot[n] = i]
           a == Account(g, n)
           b == Account(c, n)
           o == Account(q, n)
           e == Account(f, n)
           z == Account(r, n)
<1>1. slot[n].st = "RetryRelease" /\ BlocksRelease(Here, n)
  BY HereNear DEF RetryReleaseReturns, BlocksRelease
<1>2. /\ Ongoing /\ slot[n] \in Slot /\ slot[n].st \in StatesOf(n) /\ plan \in Plans
      /\ Account(Here, n).slot = slot[n]
  BY <1>1, Alive
<1>3. /\ Begun(g, n) /\ a \in Accounts /\ Entry(n, a) /\ a.phase = "none"
      /\ a.slot = slot[n] /\ g.slot[n] = slot[n] /\ Typed(g)
  BY <1>2, TaskGone DEF Begun
<1>4. {"Backoff", "Interrupted"} \subseteq StatesOf(n) /\ Decl(n).kind # "Join"
  BY <1>1, <1>2, TaskStates, StatesKind
<1>5. AfterSettle(IF Admits(r) THEN Backoff(r, n)
                  ELSE FlushFaults([r EXCEPT !.slot[n].st = "Interrupted",
                                             !.slot[n].attempt = @ + 1], {n}))
  <2> DEFINE x == [g EXCEPT !.slot[n].held = FALSE, !.due.held = @ \ {n}]
             l == IF ok THEN x ELSE CleanupFails(x, n)
  <2>1. x = q
    <3> HIDE DEF g
    <3> QED BY <1>3 DEF Typed, State
  <2>2. AfterSettle(IF Admits(l) THEN Backoff(l, n)
                    ELSE FlushFaults([l EXCEPT !.slot[n].st = "Interrupted",
                                               !.slot[n].attempt = @ + 1], {n}))
    BY DEF RetryReleaseReturns
  <2> HIDE DEF q, x, g
  <2>3. l = r
    BY <2>1
  <2> HIDE DEF l, r
  <2> QED BY <2>2, <2>3
<1> HIDE DEF g
<1>6. /\ s \in Slot /\ s.st = "RetryRelease" /\ ~ s.held /\ s.st \in StatesOf(n)
      /\ s.recovering = slot[n].recovering /\ s.parked = slot[n].parked
      /\ s.ambiguity = slot[n].ambiguity
  BY <1>1, <1>2, <1>3 DEF Slot
<1> HIDE DEF s, a
<1>7. /\ Begun(c, n) /\ c.slot[n] = s /\ b \in Accounts /\ b.slot = s
      /\ b.phase = a.phase /\ Same(a, b)
  BY <1>3, <1>6, BegunAt DEF a
<1> HIDE DEF c, b
<1>8. h \in SUBSET Node /\ n \notin h /\ \A x \in Node : x # n => (x \in h <=> x \in c.due.held)
  BY <1>7 DEF Begun, Typed, State, Due
<1>9. Begun(c, n) /\ q = [c EXCEPT !.due.held = h]
  BY <1>7 DEF q
<1>10. \A x \in Node : x # n => (x \in h <=> x \in c.due.held)
  BY <1>8
<1> HIDE DEF h, q
<1>11. /\ Begun(q, n) /\ o \in Accounts /\ o.slot = b.slot /\ o.phase = b.phase
       /\ o.faults = b.faults /\ o.ambiguous = b.ambiguous /\ o.failed = b.failed
       /\ o.left = b.left /\ o.dueFaults = b.dueFaults /\ o.twice = b.twice
       /\ o.dueAmbiguous = b.dueAmbiguous /\ o.owed = (n \in h)
       /\ q.slot[n] = c.slot[n]
  BY <1>8, <1>9, <1>10, OwedEdit DEF b, o
<1> HIDE DEF o
<1>12. /\ Begun(f, n) /\ e \in Accounts /\ e.slot = o.slot /\ e.phase = o.phase
       /\ e.faults = o.faults /\ e.ambiguous = o.ambiguous
       /\ e.left = o.left /\ e.dueFaults = o.dueFaults /\ e.twice = o.twice
       /\ e.dueAmbiguous = o.dueAmbiguous /\ e.owed = o.owed
       /\ f.slot[n] = q.slot[n]
  BY <1>11, FailsEdit DEF o
<1> HIDE DEF f, e
<1>13. Begun(r, n) /\ z \in Accounts /\ r.slot[n] = s /\ z.slot = s /\ z.phase = "none"
       /\ z.faults = a.faults /\ z.ambiguous = a.ambiguous /\ z.left = a.left
       /\ z.dueFaults = a.dueFaults /\ z.dueAmbiguous = a.dueAmbiguous /\ z.twice = a.twice
       /\ z.owed = (n \in h)
  <2>1. CASE ok
    <3>1. r = q /\ z = o
      BY <2>1 DEF o
    <3> HIDE DEF r, z
    <3> QED BY <1>3, <1>7, <1>11, <3>1 DEF Same
  <2>2. CASE ~ ok
    <3>1. r = f /\ z = e
      BY <2>2 DEF e
    <3> HIDE DEF r, z
    <3> QED BY <1>3, <1>7, <1>11, <1>12, <3>1 DEF Same
  <2> QED BY <2>1, <2>2
<1> HIDE DEF r, z
<1>14. a.faults \cup a.ambiguous = {} /\ (Decl(n).ambiguity # "retry" => a.dueAmbiguous = {})
       /\ ~ a.left /\ ~ a.twice
  BY <1>1, <1>3 DEF Entry, Draft, Lists, Earned, Balanced, Tasked, Past, Doubtful
<1>15. Idle(n, z)
  <2>1. ~ z.owed /\ ~ z.left /\ ~ z.twice
    BY <1>8, <1>13, <1>14
  <2>2. Balanced(n, z)
    BY <1>1, <1>3, <1>6, <1>13, <1>14, <2>1 DEF Entry, Draft, Balanced
  <2> QED BY <1>1, <1>3, <1>6, <1>13, <1>14, <2>1, <2>2 DEF Idle, Entry, Draft, Earned
<1>16. Path(Backoff(r, n))
  <2>1. slot[n].st \notin Past /\ z.faults \cup z.ambiguous = {}
    BY <1>1, <1>13, <1>14 DEF Past
  <2> QED BY <1>2, <1>4, <1>13, <1>15, <2>1, BackoffPath DEF z
<1>17. [r EXCEPT !.slot[n].st = "Interrupted", !.slot[n].attempt = @ + 1] = j
  BY <1>13 DEF Begun, Typed, State
<1>18. i \in Slot /\ i.st = "Interrupted" /\ Kept(s, i) /\ i.st \in StatesOf(n)
  BY <1>4, <1>6, <1>13, Counters DEF Slot, NodeStates, Kept
<1> HIDE DEF i
<1>19. Path(FlushFaults(j, {n}))
  <2>1. LET y == [z EXCEPT !.slot = i] IN
        Begun(j, n) /\ Account(j, n) = y /\ j.slot[n] = i /\ y.phase = z.phase
    BY <1>13, <1>18, BegunSlot DEF z
  <2> HIDE DEF j
  <2>2. Draft(n, [z EXCEPT !.slot = i])
    BY <1>13, <1>14, <1>15, <1>18, IdleInterrupted
  <2>3. j.slot[n].st \in Past /\ Account(j, n).phase = "none" /\ Draft(n, Account(j, n))
    BY <1>13, <1>18, <2>1, <2>2 DEF Past
  <2> QED BY <1>2, <2>1, <2>3, PolicyPath
<1> HIDE DEF j
<1> QED BY <1>5, <1>16, <1>17, <1>19, Lands

-----------------------------------------------------------------------------
(* Timers.                                                                 *)

(* What the books say of the slot is the same.                             *)
Reads(s, t) ==
  /\ t.st = s.st /\ t.held = s.held /\ t.recovering = s.recovering
  /\ t.parked = s.parked /\ t.ambiguity = s.ambiguity /\ t.attempt = s.attempt
  /\ t.restarts = s.restarts

LEMMA SameEntry ==
  ASSUME NEW n \in Node, NEW a \in Accounts, NEW b \in Accounts, Same(a, b),
         b.phase = a.phase, Reads(a.slot, b.slot), Entry(n, a)
  PROVE  Entry(n, b)
<1>1. Balanced(n, b)
  BY DEF Entry, Draft, Balanced, Same, Reads
<1>2. Tasked(b) /\ Parks(n, b) /\ Lists(b)
  BY DEF Entry, Draft, Tasked, Parks, Lists, Same, Reads
<1>3. Earned(n, b)
  BY DEF Entry, Draft, Earned, Same, Reads
<1> QED BY <1>1, <1>2, <1>3 DEF Entry, Draft

(* A timer is cleared, at work or at rest.                                 *)
LEMMA TimerLanded ==
  ASSUME TypeOK, Ledger(Here), NEW n \in Node, NEW s \in Slot, Reads(slot[n], s),
         s.publishing = slot[n].publishing, s.cancelling = slot[n].cancelling,
         s.signalled = slot[n].signalled, s.timingOut = slot[n].timingOut
  PROVE  Landed([Here EXCEPT !.slot[n] = s])
<1> DEFINE m == [Here EXCEPT !.slot[n] = s]
           a == Account(Here, n)
           b == Account(m, n)
<1>1. Typed(Here) /\ s.st \in StatesOf(n) /\ Here.slot = slot
  BY HereNear DEF Reads
<1>2. Begun(Here, n)
  BY <1>1 DEF Begun, Edits, Account
<1>3. a \in Accounts /\ a.slot = slot[n]
  BY <1>1, AccountTyped DEF Account
<1>4. /\ Begun(m, n) /\ m.slot[n] = s /\ b \in Accounts /\ b.slot = s
      /\ b.phase = a.phase /\ Same(a, b) /\ m.scope = Here.scope
  BY <1>1, <1>2, BegunAt DEF a, b
<1> HIDE DEF m, a, b
<1>5. Entry(n, b)
  BY <1>3, <1>4, SameEntry DEF Ledger, Books, a
<1>6. Told(m, n)
  BY <1>1, <1>4 DEF Ledger, Books, Told, Up, Reads
<1>7. \A d \in Node : d # n => Account(m, d) = Account(Here, d)
  BY <1>4 DEF Begun, Edits
<1>8. \A d \in Node : d # n => m.slot[d] = slot[d]
  BY <1>1, <1>7 DEF Account
<1>9. \A d \in Node : Entry(d, Account(m, d)) /\ Told(m, d)
  <2>1. ASSUME NEW d \in Node, d # n PROVE Entry(d, Account(m, d)) /\ Told(m, d)
    BY <1>1, <1>4, <1>7, <1>8, <2>1 DEF Ledger, Books, Told, Up
  <2> QED BY <1>5, <1>6, <2>1 DEF b
<1>10. Goes(a, b)
  BY <1>3, <1>4 DEF Goes, Reads
<1>11. \A d \in Node : Led(d, Account(Here, d), Account(m, d))
  <2>1. ASSUME NEW d \in Node, d # n PROVE Led(d, Account(Here, d), Account(m, d))
    BY <1>7, <2>1, GoesLed DEF Goes
  <2> QED BY <1>10, <2>1, GoesLed DEF a, b
<1>12. \A d \in Node : Untouched(Account(Here, d)) => Untouched(Account(m, d))
  <2>1. Untouched(a) => Untouched(b)
    BY <1>3, <1>4 DEF Untouched, Reads
  <2> QED BY <1>7, <2>1 DEF a, b
<1>13. \A d \in Node : BlocksRelease(m, d) => BlocksRelease(Here, d)
  BY <1>1, <1>4, <1>8 DEF BlocksRelease, Owes, Reads
<1>14. Rested(m)
  BY <1>4, <1>12, <1>13 DEF Ledger, Rested, Rests
<1> QED BY <1>4, <1>9, <1>11, <1>14 DEF Landed, Ledger, Books, Begun, m

LEMMA WithinExpiresLands ==
  ASSUME TypeOK, Ledger(Here), NEW n \in Node, WithinExpires(n)
  PROVE  Arrived
<1> DEFINE s == [slot[n] EXCEPT !.timer = "none"]
           m == [Here EXCEPT !.slot[n] = s]
           p == ParkFault(m, n, slot[n].attempt)
           t == [p.slot[n] EXCEPT !.timedOut = TRUE]
           late == [p EXCEPT !.slot[n] = t]
           S == {n}
           g == Abort(m, S)
           u == [g.slot[n] EXCEPT !.cancelling = TRUE, !.timingOut = TRUE]
           cut == [g EXCEPT !.slot[n] = u]
           a == Account(Here, n)
           b == Account(m, n)
           c == Account(p, n)
           d == Account(late, n)
           e == Account(cut, n)
<1>1. slot[n] \in Slot /\ slot[n].st \in StatesOf(n) /\ slot[n].attempt \in Nat
  BY HereNear, Counters
<1>2. /\ s \in Slot /\ Reads(slot[n], s) /\ s.publishing = slot[n].publishing
      /\ s.cancelling = slot[n].cancelling /\ s.signalled = slot[n].signalled
      /\ s.timingOut = slot[n].timingOut
  BY <1>1 DEF Slot, Reads
<1>3. \/ Become(m)
      \/ /\ slot[n].st = "Running" /\ Decl(n).kind = "BlockingStep"
         /\ Become([p EXCEPT !.slot[n].timedOut = TRUE])
      \/ /\ slot[n].st = "Running"
         /\ Become([g EXCEPT !.slot[n].cancelling = TRUE, !.slot[n].timingOut = TRUE])
  <2>1. [Here EXCEPT !.slot[n].timer = "none"] = m
    BY HereNear DEF Here
  <2>2. CASE slot[n].st # "Running" \/ slot[n].cancelling
    <3>1. Become(m)
      BY <2>1, <2>2 DEF WithinExpires
    <3> QED BY <3>1
  <2>3. CASE ~ (slot[n].st # "Running" \/ slot[n].cancelling)
    <3>1. Become(IF Decl(n).kind = "BlockingStep"
                 THEN [p EXCEPT !.slot[n].timedOut = TRUE]
                 ELSE [g EXCEPT !.slot[n].cancelling = TRUE, !.slot[n].timingOut = TRUE])
      BY <2>1, <2>3 DEF WithinExpires
    <3>2. CASE Decl(n).kind = "BlockingStep"
      BY <2>3, <3>1, <3>2
    <3>3. CASE Decl(n).kind # "BlockingStep"
      BY <2>3, <3>1, <3>3
    <3> QED BY <3>2, <3>3
  <2> QED BY <2>2, <2>3
<1> HIDE DEF s
<1>4. Landed(m)
  BY <1>2, TimerLanded
<1>5. ASSUME slot[n].st = "Running"
      PROVE  /\ Ongoing /\ a \in Accounts /\ a.slot = slot[n] /\ a.phase = body[n].phase
             /\ Entry(n, a) /\ Told(Here, n)
             /\ Begun(m, n) /\ m.slot[n] = s /\ b \in Accounts /\ b.slot = s
             /\ b.phase = a.phase /\ Same(a, b) /\ Entry(n, b) /\ m.scope = Here.scope
             /\ a.faults \cup a.ambiguous = {}
  <2>1. BlocksRelease(Here, n)
    BY <1>5, HereNear DEF BlocksRelease
  <2>2. /\ Ongoing /\ Begun(Here, n) /\ a \in Accounts /\ a.slot = slot[n]
        /\ a.phase = body[n].phase /\ Entry(n, a) /\ Told(Here, n)
    BY <1>5, <2>1, Alive
  <2>3. s.st \in StatesOf(n)
    BY <1>1, <1>2 DEF Reads
  <2>4. /\ Begun(m, n) /\ m.slot[n] = s /\ b \in Accounts /\ b.slot = s
        /\ b.phase = a.phase /\ Same(a, b) /\ m.scope = Here.scope
    BY <1>2, <2>2, <2>3, BegunAt DEF a, b
  <2> HIDE DEF m, a, b
  <2>5. Entry(n, b)
    BY <1>2, <2>2, <2>4, SameEntry
  <2>6. a.faults \cup a.ambiguous = {}
    BY <1>5, <2>2 DEF Entry, Lists, Past
  <2> QED BY <2>2, <2>4, <2>5, <2>6
<1> HIDE DEF m, a, b
<1>6. ASSUME slot[n].st = "Running", Decl(n).kind = "BlockingStep"
      PROVE  Path(late) /\ [p EXCEPT !.slot[n].timedOut = TRUE] = late
  <2>1. Draft(n, b)
    BY <1>5, <1>6 DEF Entry
  <2>2. /\ Begun(p, n) /\ c \in Accounts /\ Draft(n, c) /\ c.phase = b.phase
        /\ c.slot = p.slot[n] /\ c.slot = [b.slot EXCEPT !.parked = b.slot.parked \cup {slot[n].attempt}]
        /\ c.faults = b.faults /\ c.ambiguous = b.ambiguous /\ p.scope = m.scope
    BY <1>1, <1>5, <1>6, <2>1, ParkEdit DEF b
  <2> HIDE DEF p, c
  <2>3. [p EXCEPT !.slot[n].timedOut = TRUE] = late
    BY <2>2 DEF Begun, Typed, State
  <2>4. /\ p.slot[n] \in Slot /\ p.slot[n].st = "Running" /\ p.slot[n].attempt = slot[n].attempt
        /\ p.slot[n].held = slot[n].held /\ p.slot[n].restarts = slot[n].restarts
        /\ p.slot[n].cancelling = slot[n].cancelling
    BY <1>1, <1>2, <1>5, <1>6, <2>2 DEF Slot, Reads, Accounts
  <2>5. /\ t \in Slot /\ Reads(p.slot[n], t) /\ t.cancelling = slot[n].cancelling
        /\ t.st \in StatesOf(n)
    BY <1>1, <1>6, <2>4 DEF Slot, Reads
  <2> HIDE DEF t
  <2>6. /\ Begun(late, n) /\ late.slot[n] = t /\ d \in Accounts /\ d.slot = t
        /\ d.phase = c.phase /\ Same(c, d) /\ late.scope = p.scope
    BY <2>2, <2>5, BegunAt DEF c
  <2> HIDE DEF late, d
  <2>7. Entry(n, c)
    <3>1. Parks(n, c) /\ Lists(c)
      BY <1>5, <1>6, <2>2, <2>4 DEF Parks, Lists, Undecided, Same
    <3> QED BY <2>2, <3>1 DEF Entry
  <2>8. Entry(n, d)
    BY <2>2, <2>5, <2>6, <2>7, SameEntry
  <2>9. Told(late, n)
    BY <1>5, <1>6, <2>2, <2>4, <2>5, <2>6, HereNear DEF Told, Up, IsService, Reads
  <2>10. Path(late)
    BY <1>5, <1>6, <2>2, <2>4, <2>5, <2>6, <2>8, <2>9, KeptPath DEF d, Reads
  <2> QED BY <2>3, <2>10
<1>7. ASSUME slot[n].st = "Running"
      PROVE  /\ Path(cut)
             /\ [g EXCEPT !.slot[n].cancelling = TRUE, !.slot[n].timingOut = TRUE] = cut
  <2>1. S \in SUBSET Node
    OBVIOUS
  <2> HIDE DEF S
  <2>2. Begun(g, n) /\ Account(g, n) = b /\ g.slot[n] = s /\ g.scope = m.scope
    BY <1>5, <1>7, <2>1, AbortEdit DEF b
  <2> HIDE DEF g
  <2>3. [g EXCEPT !.slot[n].cancelling = TRUE, !.slot[n].timingOut = TRUE] = cut
    BY <2>2 DEF Begun, Typed, State
  <2>4. u \in Slot /\ Reads(s, u) /\ u.cancelling /\ u.timingOut /\ u.st \in StatesOf(n)
    BY <1>1, <1>2, <2>2 DEF Slot, Reads
  <2> HIDE DEF u
  <2>5. /\ Begun(cut, n) /\ cut.slot[n] = u /\ e \in Accounts /\ e.slot = u
        /\ e.phase = b.phase /\ Same(b, e)
    BY <2>2, <2>4, BegunAt
  <2> HIDE DEF cut, e
  <2>6. Entry(n, e)
    BY <1>5, <1>7, <2>4, <2>5, SameEntry
  <2>7. Told(cut, n)
    BY <2>4, <2>5 DEF Told
  <2>8. Path(cut)
    BY <1>2, <1>5, <1>7, <2>4, <2>5, <2>6, <2>7, KeptPath DEF e, Reads
  <2> QED BY <2>3, <2>8
<1> HIDE DEF late, cut, p, g
<1> QED BY <1>3, <1>4, <1>6, <1>7, Lands DEF Arrived

LEMMA GraceExpiresLands ==
  ASSUME TypeOK, Ledger(Here), NEW n \in Node, GraceExpires(n)
  PROVE  Arrived
<1> DEFINE S == {n}
           g == Abort(Here, S)
           s == [g.slot[n] EXCEPT !.timer = "none"]
           m == [g EXCEPT !.slot[n] = s]
           a == Account(Here, n)
           b == Account(m, n)
<1>1. slot[n].st = "Running" /\ slot[n].cancelling /\ BlocksRelease(Here, n)
  BY HereNear DEF GraceExpires, BlocksRelease
<1>2. /\ Ongoing /\ Begun(Here, n) /\ a \in Accounts /\ a.slot = slot[n] /\ a.phase = body[n].phase
      /\ Entry(n, a) /\ Told(Here, n) /\ slot[n] \in Slot /\ slot[n].st \in StatesOf(n)
  BY <1>1, Alive
<1>3. S \in SUBSET Node
  OBVIOUS
<1>4. Become([g EXCEPT !.slot[n].timer = "none"])
  BY DEF GraceExpires
<1> HIDE DEF S
<1>5. Begun(g, n) /\ Account(g, n) = a /\ g.slot[n] = slot[n] /\ g.scope = Here.scope
  BY <1>2, <1>3, AbortEdit, HereNear
<1> HIDE DEF g
<1>6. [g EXCEPT !.slot[n].timer = "none"] = m
  BY <1>5 DEF Begun, Typed, State
<1>7. /\ s \in Slot /\ Reads(slot[n], s) /\ s.st \in StatesOf(n)
      /\ s.cancelling = slot[n].cancelling /\ s.signalled = slot[n].signalled
      /\ s.timingOut = slot[n].timingOut
  BY <1>2, <1>5 DEF Slot, Reads
<1> HIDE DEF s
<1>8. /\ Begun(m, n) /\ m.slot[n] = s /\ b \in Accounts /\ b.slot = s
      /\ b.phase = a.phase /\ Same(a, b) /\ m.scope = g.scope
  BY <1>5, <1>7, BegunAt
<1> HIDE DEF m, a, b
<1>9. Entry(n, b)
  BY <1>2, <1>7, <1>8, SameEntry
<1>10. Told(m, n)
  BY <1>1, <1>2, <1>5, <1>7, <1>8, HereNear DEF Told, Up
<1>11. Path(m)
  BY <1>2, <1>7, <1>8, <1>9, <1>10, KeptPath DEF b, Reads
<1> QED BY <1>4, <1>6, <1>11, Lands

LEMMA BackoffExpiresLands ==
  ASSUME TypeOK, Ledger(Here), NEW n \in Node, BackoffExpires(n)
  PROVE  Arrived
<1> DEFINE s == [slot[n] EXCEPT !.st = "Pending", !.timer = "none"]
           m == [Here EXCEPT !.slot[n] = s]
           a == Account(Here, n)
           b == [a EXCEPT !.slot = s]
<1>1. slot[n].st = "Backoff" /\ BlocksRelease(Here, n)
  BY HereNear DEF BackoffExpires, BlocksRelease
<1>2. /\ Ongoing /\ Begun(Here, n) /\ a \in Accounts /\ a.slot = slot[n] /\ a.phase = body[n].phase
      /\ Entry(n, a) /\ slot[n] \in Slot /\ slot[n].st \in StatesOf(n) /\ plan \in Plans
  BY <1>1, Alive
<1>3. AfterSettle(m)
  <2>1. [Here EXCEPT !.slot[n].st = "Pending", !.slot[n].timer = "none"] = m
    BY HereNear DEF Here
  <2> QED BY <2>1 DEF BackoffExpires
<1>4. s \in Slot /\ s.st = "Pending" /\ Kept(slot[n], s) /\ s.st \in StatesOf(n)
      /\ Decl(n).kind # "Join"
  BY <1>1, <1>2, CommonStates, StatesKind DEF Slot, NodeStates, Kept
<1> HIDE DEF s
<1>5. Begun(m, n) /\ Account(m, n) = b /\ m.slot[n] = s /\ b.phase = a.phase
  BY <1>2, <1>4, BegunSlot
<1> HIDE DEF m, a
<1>6. Idle(n, a) /\ a.faults \cup a.ambiguous = {} /\ a.phase = "none"
  <2>1. /\ Draft(n, a) /\ a.phase = "none" /\ ~ (CanOwe(n) /\ a.slot.held)
        /\ a.slot.st # "Abandoned" /\ a.slot.st \notin Doubtful
        /\ a.faults \cup a.ambiguous = {}
    BY <1>1, <1>2 DEF Entry, Draft, Tasked, Earned, Lists, Past, Doubtful, Accounts
  <2> QED BY <1>2, <2>1, DraftIdle
<1>7. Entry(n, b)
  BY <1>2, <1>4, <1>6, IdleWaits
<1> HIDE DEF b
<1>8. Led(n, a, b)
  BY <1>1, <1>2, <1>5, <1>6, RestLed DEF Past
<1>9. Path(m)
  BY <1>2, <1>4, <1>5, <1>7, <1>8, Arrives DEF a
<1> QED BY <1>3, <1>9, Lands

LEMMA StopDeadlineLands ==
  ASSUME TypeOK, Ledger(Here), NEW n \in Node, StopDeadline(n)
  PROVE  Arrived
<1> DEFINE S == {n}
<1>1. slot[n].st = "Stopping" /\ BlocksRelease(Here, n)
  BY HereNear DEF StopDeadline, BlocksRelease, CleanupStates
<1>2. Ongoing
  BY <1>1, Alive
<1>3. S \in SUBSET In(Here, CleanupStates \cup {"Running", "RetryRelease"})
  BY <1>1, HereNear DEF In, CleanupStates
<1>4. AfterSettle(Abandon(Here, S))
  BY DEF StopDeadline
<1> HIDE DEF S
<1> QED BY <1>2, <1>3, <1>4, AbandonPath, Lands

LEMMA BudgetExpiresLands ==
  ASSUME TypeOK, Ledger(Here), BudgetExpires
  PROVE  Arrived
<1> DEFINE S == In(Here, CleanupStates \cup {"Running", "RetryRelease"})
           g == Abandon(Here, S)
           m == [g EXCEPT !.scope.budget = FALSE, !.scope.spent = TRUE]
<1>1. Ongoing
  BY HereNear DEF BudgetExpires, Ledger, Rested, Ongoing
<1>2. Path(g)
  BY <1>1, AbandonPath
<1>3. Become(TryCleanup(m))
  BY DEF BudgetExpires
<1> HIDE DEF g
<1>4. /\ Typed(m) /\ m.slot = g.slot /\ m.body = g.body /\ m.report = g.report
      /\ m.due = g.due /\ m.scope.st = g.scope.st
  BY <1>2 DEF Path, Typed, State, Scope
<1> HIDE DEF m
<1>5. Path(m)
  BY <1>2, <1>4, PathScope DEF Path, Rests, Admits, Up
<1> QED BY <1>3, <1>5, Lands

LEMMA ZeroExpiresLands ==
  ASSUME TypeOK, Ledger(Here), ZeroExpires
  PROVE  Arrived
<1> DEFINE S == In(Here, CleanupStates \cup {"RetryRelease"})
           g == Abandon(Here, S)
           m == [g EXCEPT !.scope.zero = FALSE]
<1>1. Ongoing
  BY HereNear DEF ZeroExpires, Ledger, Rested, Ongoing
<1>2. S \in SUBSET In(Here, CleanupStates \cup {"Running", "RetryRelease"})
  BY DEF In
<1>3. Path(g)
  BY <1>1, <1>2, AbandonPath
<1>4. Become(TryCleanup(m))
  BY DEF ZeroExpires
<1> HIDE DEF g
<1>5. /\ Typed(m) /\ m.slot = g.slot /\ m.body = g.body /\ m.report = g.report
      /\ m.due = g.due /\ m.scope.st = g.scope.st
  BY <1>3 DEF Path, Typed, State, Scope
<1> HIDE DEF m
<1>6. Path(m)
  BY <1>3, <1>5, PathScope DEF Path, Rests, Admits, Up
<1> QED BY <1>4, <1>6, Lands

-----------------------------------------------------------------------------
(* Requests.                                                               *)

LEMMA BeginLands ==
  ASSUME TypeOK, Ledger(Here), Begin
  PROVE  Arrived
<1> DEFINE m == [Here EXCEPT !.scope.st = "Admitting"]
<1>1. Typed(Here) /\ scope.st = "Planned" /\ Here.scope = scope
  BY HereNear DEF Begin
<1>2. /\ Typed(m) /\ m.slot = Here.slot /\ m.body = Here.body /\ m.report = Here.report
      /\ m.due = Here.due /\ m.scope.st = "Admitting"
  BY <1>1 DEF Typed, State, Scope
<1>3. AfterSettle(m)
  BY DEF Begin
<1> HIDE DEF m
<1>4. \A n \in Node : Account(m, n) = Account(Here, n)
  BY <1>2 DEF Account
<1>5. \A n \in Node : Untouched(Account(Here, n))
  BY <1>1 DEF Ledger, Rested
<1>6. \A n \in Node : Told(m, n)
  BY <1>2, <1>5 DEF Told, Untouched, Account
<1>7. \A n \in Node : Led(n, Account(Here, n), Account(m, n))
  BY <1>4, GoesLed DEF Goes
<1>8. Path(m)
  BY <1>1, <1>2, <1>4, <1>6, <1>7 DEF Path, Books, Ledger, Rests, Up
<1> QED BY <1>3, <1>8, Lands

LEMMA RequestLands ==
  ASSUME TypeOK, Ledger(Here), NEW cause \in {"Shutdown", "Cancel"}, Request(cause)
  PROVE  Arrived
<1> DEFINE m == [Here EXCEPT !.scope.cause = cause]
           e == End(m)
<1>1. CASE scope.st = "Planned" /\ Become(e)
  <2>1. Typed(Here) /\ Here.scope = scope
    BY HereNear
  <2>2. /\ Typed(m) /\ m.slot = Here.slot /\ m.body = Here.body /\ m.report = Here.report
        /\ m.due = Here.due
    BY <2>1 DEF Typed, State, Scope
  <2> HIDE DEF m
  <2>3. Typed(e)
    BY <2>2, EndTyped
  <2>4. /\ e.slot = m.slot /\ e.body = m.body /\ e.due = m.due
        /\ e.report.faults = m.report.faults /\ e.report.ambiguous = m.report.ambiguous
        /\ e.report.cleanupFailures = m.report.cleanupFailures
        /\ e.report.incomplete = m.report.incomplete
        /\ e.scope.st = "Ended" /\ ~ e.scope.budget /\ ~ e.scope.zero
    BY <2>2 DEF End, Typed, State, Scope, Report
  <2> HIDE DEF e
  <2>5. \A n \in Node : Account(e, n) = Account(Here, n)
    BY <2>2, <2>4 DEF Account
  <2>6. \A n \in Node : Untouched(Account(Here, n))
    BY <1>1, <2>1 DEF Ledger, Rested
  <2>7. \A n \in Node : Told(e, n)
    BY <2>2, <2>4, <2>6 DEF Told, Untouched, Account
  <2>8. \A n \in Node : Led(n, Account(Here, n), Account(e, n))
    BY <2>5, GoesLed DEF Goes
  <2>9. Rested(e)
    BY <2>4, <2>5, <2>6 DEF Rested
  <2>10. Landed(e)
    BY <2>3, <2>5, <2>7, <2>8, <2>9 DEF Landed, Ledger, Books
  <2> QED BY <1>1, <2>10 DEF Arrived
<1>2. CASE Admits(Here) /\ Become(TryCleanup(Settle(Here, cause)))
  <2>1. Ongoing
    BY <1>2 DEF Ongoing, Ledger, Rests, Admits
  <2>2. Sound(Here, Settle(Here, cause))
    BY HereNear, SettleSound DEF Ledger
  <2>3. Path(Settle(Here, cause))
    BY <2>1, <2>2, LivePath, PathSound
  <2> QED BY <1>2, <2>3, Lands
<1> QED BY <1>1, <1>2 DEF Request

-----------------------------------------------------------------------------
(* The invariant, and what an event may do to an account.                  *)

LEMMA ArrivedKeeps ==
  ASSUME Arrived
  PROVE  /\ Ledger(Here)' /\ plan' = plan
         /\ \A n \in Node : Led(n, Account(Here, n), Account(Here, n)')
<1>1. PICK x : Landed(x) /\ Become(x)
  BY DEF Arrived
<1>2. Here' = x /\ plan' = plan
  BY <1>1 DEF Landed, Typed, State, Become, Here
<1>3. \A n \in Node : Account(Here, n)' = Account(x, n)
  BY <1>2 DEF Account
<1>4. \A n \in Node : Led(n, Account(Here, n), Account(Here, n)')
  BY <1>1, <1>3 DEF Landed
<1>5. Books(Here)'
  <2>1. \A n \in Node : Entry(n, Account(x, n)) /\ Told(x, n)
    BY <1>1 DEF Landed, Ledger, Books
  <2>2. \A n \in Node : Entry(n, Account(Here, n))'
    BY <1>2, <1>3, <2>1
       DEF Entry, Draft, Balanced, Tasked, Earned, Parks, Lists, CanOwe, CanHold, Decl,
           RecoversAmbiguity
  <2>3. \A n \in Node : Told(Here, n)'
    BY <1>2, <2>1 DEF Told, Up, IsService, Decl
  <2> QED BY <2>2, <2>3 DEF Books
<1>6. Rested(Here)'
  <2>1. \A n \in Node : BlocksRelease(Here, n)' = BlocksRelease(x, n)
    BY <1>2 DEF BlocksRelease, Owes, IsService, CanOwe, CanHold, RecoversAmbiguity, Decl
  <2> QED BY <1>1, <1>2, <1>3, <2>1 DEF Landed, Ledger, Rested, Rests, Untouched
<1> QED BY <1>2, <1>4, <1>5, <1>6 DEF Ledger

LEMMA InitLedger == Init => Ledger(Here)
<1> SUFFICES ASSUME Init PROVE Ledger(Here)
  OBVIOUS
<1>1. TypeOK
  BY InitTyped
<1>2. ASSUME NEW n \in Node
      PROVE  /\ Untouched(Account(Here, n)) /\ Entry(n, Account(Here, n)) /\ Told(Here, n)
  <2> DEFINE a == Account(Here, n)
  <2>1. /\ a.slot = slot[n] /\ a.phase = "none" /\ ~ a.failed /\ ~ a.left /\ ~ a.owed
        /\ ~ a.twice /\ a.faults = {} /\ a.ambiguous = {} /\ a.dueFaults = {}
        /\ a.dueAmbiguous = {}
    BY DEF Init, Here, Account, Of
  <2>2. /\ slot[n].st = "Pending" /\ ~ slot[n].held /\ ~ slot[n].publishing
        /\ slot[n].parked = {} /\ slot[n].ambiguity = {} /\ ~ slot[n].recovering
    BY DEF Init
  <2> HIDE DEF a
  <2>3. Untouched(a)
    BY <2>1, <2>2 DEF Untouched
  <2>4. Balanced(n, a) /\ Tasked(a) /\ Parks(n, a) /\ Lists(a)
    BY <2>1, <2>2 DEF Balanced, Tasked, Parks, Lists
  <2>5. Earned(n, a)
    BY <2>1, <2>2 DEF Earned
  <2>6. Told(Here, n)
    BY <1>1, <2>2, HereNear DEF Told
  <2> QED BY <2>3, <2>4, <2>5, <2>6 DEF Entry, Draft, a
<1>3. Here.scope = scope /\ scope.st = "Planned" /\ ~ scope.budget /\ ~ scope.zero
  BY <1>1, HereNear DEF Init
<1> QED BY <1>2, <1>3 DEF Ledger, Books, Rested

(* Nothing happens, or every account is led.                               *)
AllLed == \A n \in Node : Led(n, Account(Here, n), Account(Here, n)')

LEMMA StepLanded ==
  ASSUME TypeOK, Ledger(Here), [Next]_vars
  PROVE  Ledger(Here)' /\ plan' = plan /\ (AllLed \/ UNCHANGED vars)
<1>1. ASSUME Arrived PROVE Ledger(Here)' /\ plan' = plan /\ AllLed
  BY <1>1, ArrivedKeeps DEF AllLed
<1>2. CASE Begin
  BY <1>1, <1>2, BeginLands
<1>3. ASSUME NEW cause \in {"Shutdown", "Cancel"}, Request(cause) PROVE Arrived
  BY <1>3, RequestLands
<1>4. ASSUME NEW n \in Node, Tasks(n) PROVE Arrived
  BY <1>4, BodyHeldLands, AbandonedTaskEndsLands, BodyReturnsLands, BodyCancelledLands,
     AcknowledgedLands, ServingEndsLands, ServiceStopsLands, CleanupReturnsLands,
     RetryReleaseReturnsLands
     DEF Tasks
<1>5. ASSUME NEW n \in Node, Timers(n) PROVE Arrived
  BY <1>5, WithinExpiresLands, GraceExpiresLands, BackoffExpiresLands, StopDeadlineLands
     DEF Timers
<1>6. CASE BudgetExpires
  BY <1>1, <1>6, BudgetExpiresLands
<1>7. CASE ZeroExpires
  BY <1>1, <1>7, ZeroExpiresLands
<1>8. CASE UNCHANGED vars
  <2>1. Here' = Here /\ plan' = plan
    BY <1>8 DEF vars, Here
  <2>2. \A n \in Node : Account(Here, n)' = Account(Here, n)
    BY <2>1 DEF Account
  <2>3. Books(Here)'
    <3>1. \A n \in Node : Entry(n, Account(Here, n)) /\ Told(Here, n)
      BY DEF Ledger, Books
    <3>2. \A n \in Node : Entry(n, Account(Here, n))'
      BY <2>1, <2>2, <3>1
         DEF Entry, Draft, Balanced, Tasked, Earned, Parks, Lists, CanOwe, CanHold, Decl,
             RecoversAmbiguity
    <3>3. \A n \in Node : Told(Here, n)'
      BY <2>1, <3>1 DEF Told, Up, IsService, Decl
    <3> QED BY <3>2, <3>3 DEF Books
  <2>4. Rested(Here)'
    <3>1. \A n \in Node : BlocksRelease(Here, n)' = BlocksRelease(Here, n)
      BY <2>1 DEF BlocksRelease, Owes, IsService, CanOwe, CanHold, RecoversAmbiguity, Decl
    <3> QED BY <2>1, <2>2, <3>1 DEF Ledger, Rested, Rests, Untouched
  <2> QED BY <1>8, <2>1, <2>3, <2>4 DEF Ledger
<1>9. CASE Terminated
  BY <1>8, <1>9 DEF Terminated
<1> QED BY <1>1, <1>2, <1>3, <1>4, <1>5, <1>6, <1>7, <1>8, <1>9 DEF Next

(* The inductive invariant of the next three theorems: for every node what *)
(* is observed is parked or reported, what was acquired is owed where it   *)
(* is held, and its task fits its state.                                   *)
LEMMA LedgerKept == Spec => [](TypeOK /\ Ledger(Here))
<1>1. Init => TypeOK /\ Ledger(Here)
  BY InitTyped, InitLedger
<1>2. TypeOK /\ Ledger(Here) /\ [Next]_vars => (TypeOK /\ Ledger(Here))'
  BY StepKeeps, StepLanded DEF Preserved
<1> QED BY <1>1, <1>2, PTL DEF Spec

-----------------------------------------------------------------------------
(* The theorems.                                                           *)

LEMMA ListedOf ==
  ASSUME TypeOK, NEW n \in Node
  PROVE  /\ (\E x \in due.ambiguous : x[1] = n) <=> Account(Here, n).dueAmbiguous # {}
         /\ (\E x \in report.ambiguous : x[1] = n) <=> Account(Here, n).ambiguous # {}
<1>1. due.ambiguous \subseteq Node \X Nat /\ report.ambiguous \subseteq Node \X Nat
  BY DEF TypeOK, Here, State, Due, Report
<1>2. /\ Account(Here, n).dueAmbiguous = Of(due.ambiguous, n)
      /\ Account(Here, n).ambiguous = Of(report.ambiguous, n)
  BY HereNear DEF Account
<1>3. ASSUME NEW R \in SUBSET (Node \X Nat)
      PROVE  (\E x \in R : x[1] = n) <=> Of(R, n) # {}
  <2>1. ASSUME NEW x \in R, x[1] = n PROVE Of(R, n) # {}
    <3>1. x = <<n, x[2]>> /\ x[2] \in Nat
      BY <2>1
    <3> QED BY <3>1 DEF Of
  <2>2. ASSUME NEW k \in Of(R, n) PROVE \E x \in R : x[1] = n
    <3>1. <<n, k>> \in R /\ <<n, k>>[1] = n
      BY DEF Of
    <3> QED BY <3>1
  <2> QED BY <2>1, <2>2
<1> QED BY <1>1, <1>2, <1>3

LEMMA RecordsOf ==
  ASSUME NEW R \in SUBSET (Node \X Nat), NEW S \in SUBSET (Node \X Nat),
         \A n \in Node : Of(R, n) = Of(S, n)
  PROVE  R = S
<1>1. ASSUME NEW n \in Node, NEW k \in Nat PROVE <<n, k>> \in R <=> <<n, k>> \in S
  BY DEF Of
<1> QED BY <1>1

(* What the books say at the end.                                          *)
LEMMA EndBalanced ==
  ASSUME TypeOK, Ledger(Here), Ended, NEW n \in Node
  PROVE  LET a == Account(Here, n) IN
         /\ a.faults = a.dueFaults /\ (a.ambiguous = {} <=> a.dueAmbiguous = {})
         /\ ~ a.owed /\ (a.slot.st = "ReleaseFailed" => a.failed)
         /\ (a.left <=> a.slot.st = "Abandoned")
<1> DEFINE a == Account(Here, n)
<1>1. Entry(n, a) /\ a \in Accounts /\ a.slot = slot[n]
  BY HereNear, AccountTyped DEF Ledger, Books, Account
<1>2. Untouched(a) \/ ~ BlocksRelease(Here, n)
  BY HereNear DEF Ended, Ledger, Rested
<1> HIDE DEF a
<1>3. a.slot.parked = {} /\ a.slot.ambiguity = {}
  BY <1>1, <1>2, HereNear
     DEF Entry, Parks, Untouched, BlocksRelease, Undecided, Accounts
<1>4. ~ (CanOwe(n) /\ a.slot.held /\ a.slot.st \in Holding)
  <2>1. CASE Untouched(a)
    BY <2>1 DEF Untouched, Holding
  <2>2. CASE ~ BlocksRelease(Here, n)
    BY <1>1, <2>2, HereNear DEF BlocksRelease, Owes, Holding, CleanupStates
  <2> QED BY <1>2, <2>1, <2>2
<1>5. ~ a.owed
  BY <1>1, <1>4 DEF Entry, Draft, Balanced
<1>6. a.faults = a.dueFaults /\ (a.ambiguous = {} <=> a.dueAmbiguous = {})
  BY <1>1, <1>3 DEF Entry, Draft, Balanced
<1>7. (a.slot.st = "ReleaseFailed" => a.failed) /\ (a.left <=> a.slot.st = "Abandoned")
  BY <1>1 DEF Entry, Draft, Balanced
<1> QED BY <1>5, <1>6, <1>7 DEF a

(* For every number of nodes and every set of valid plans (INV-3, INV-9):  *)
(* when a scope ends, every fault no later Ready or episode answered is in *)
(* the report and no other is, every effect of unknown outcome is listed,  *)
(* and every acquisition was released, failed to be, or is recorded as     *)
(* abandoned, however attempts, aborts, deadlines and the settle cross.    *)
THEOREM NothingIsLost == Spec => []NothingLost
<1>1. TypeOK /\ Ledger(Here) => NothingLost
  <2> SUFFICES ASSUME TypeOK, Ledger(Here), Ended
               PROVE  /\ report.faults = due.faults
                      /\ {x[1] : x \in report.ambiguous} = {x[1] : x \in due.ambiguous}
                      /\ due.held = {}
                      /\ In(Here, {"ReleaseFailed"}) \subseteq report.cleanupFailures
                      /\ In(Here, {"Abandoned"}) = report.incomplete
    BY DEF NothingLost
  <2>1. /\ report.faults \in SUBSET (Node \X Nat) /\ due.faults \in SUBSET (Node \X Nat)
        /\ report.ambiguous \in SUBSET (Node \X Nat) /\ due.ambiguous \in SUBSET (Node \X Nat)
        /\ due.held \subseteq Node /\ report.incomplete \subseteq Node
    BY DEF TypeOK, Here, State, Due, Report
  <2>2. ASSUME NEW n \in Node
        PROVE  /\ Of(report.faults, n) = Of(due.faults, n)
               /\ n \notin due.held /\ (slot[n].st = "ReleaseFailed" => n \in report.cleanupFailures)
               /\ (n \in report.incomplete <=> slot[n].st = "Abandoned")
               /\ (\E x \in report.ambiguous : x[1] = n) <=> (\E x \in due.ambiguous : x[1] = n)
    <3> DEFINE a == Account(Here, n)
    <3>1. /\ a.slot = slot[n] /\ a.faults = Of(report.faults, n)
          /\ a.dueFaults = Of(due.faults, n) /\ a.owed = (n \in due.held)
          /\ a.failed = (n \in report.cleanupFailures) /\ a.left = (n \in report.incomplete)
      BY HereNear DEF Account
    <3>2. /\ a.faults = a.dueFaults /\ (a.ambiguous = {} <=> a.dueAmbiguous = {})
          /\ ~ a.owed /\ (a.slot.st = "ReleaseFailed" => a.failed)
          /\ (a.left <=> a.slot.st = "Abandoned")
      BY EndBalanced
    <3>3. /\ (\E x \in due.ambiguous : x[1] = n) <=> a.dueAmbiguous # {}
          /\ (\E x \in report.ambiguous : x[1] = n) <=> a.ambiguous # {}
      BY ListedOf
    <3> HIDE DEF a
    <3> QED BY <3>1, <3>2, <3>3
  <2>3. report.faults = due.faults
    BY <2>1, <2>2, RecordsOf
  <2>4. {x[1] : x \in report.ambiguous} = {x[1] : x \in due.ambiguous}
    <3>1. /\ \A x \in report.ambiguous : x[1] \in Node
          /\ \A x \in due.ambiguous : x[1] \in Node
      BY <2>1
    <3> QED BY <2>2, <3>1
  <2>5. due.held = {} /\ In(Here, {"ReleaseFailed"}) \subseteq report.cleanupFailures
        /\ In(Here, {"Abandoned"}) = report.incomplete
    BY <2>1, <2>2, HereNear DEF In
  <2> QED BY <2>3, <2>4, <2>5
<1> QED BY <1>1, LedgerKept, PTL

(* The accounts a step finds and leaves.                                   *)
LEMMA StepAccount ==
  ASSUME TypeOK, Ledger(Here), Ledger(Here)', TypeOK', AllLed, plan' = plan, NEW n \in Node
  PROVE  \E a \in Accounts, b \in Accounts :
           /\ a = Account(Here, n)
           /\ Entry(n, a) /\ Entry(n, b) /\ Led(n, a, b)
           /\ a.slot = slot[n] /\ a.phase = body[n].phase
           /\ b.slot = slot'[n] /\ b.phase = body'[n].phase
           /\ b.owed = (n \in due'.held) /\ b.twice = (n \in due'.overlaps)
           /\ b.dueAmbiguous = Of(due'.ambiguous, n)
<1> DEFINE a == Account(Here, n)
           b == Account(Here', n)
<1>1. a \in Accounts /\ a.slot = slot[n] /\ a.phase = body[n].phase /\ Entry(n, a)
  BY HereNear, AccountTyped DEF Ledger, Books, Account
<1>2. Account(Here, n)' = b
  BY DEF Account
<1>3. /\ b.slot = slot'[n] /\ b.phase = body'[n].phase
      /\ b.owed = (n \in due'.held) /\ b.twice = (n \in due'.overlaps)
      /\ b.dueAmbiguous = Of(due'.ambiguous, n)
  BY DEF Account, Here
<1>4. b \in Accounts
  <2>1. /\ b.faults = Of(Here'.report.faults, n)
        /\ b.ambiguous = Of(Here'.report.ambiguous, n)
        /\ b.dueFaults = Of(Here'.due.faults, n)
    BY DEF Account
  <2>2. slot'[n] \in Slot /\ body'[n].phase \in {"none", "run", "serve", "cleanup"}
    BY DEF TypeOK, Here, State, Body
  <2> QED BY <2>2 DEF Account, Accounts, Of, Here
<1>5. Led(n, a, b)
  BY <1>2 DEF AllLed
<1>6. Entry(n, b)
  <2>1. Entry(n, Account(Here, n))'
    BY DEF Ledger, Books
  <2> HIDE DEF b
  <2> QED BY <1>2, <2>1
       DEF Entry, Draft, Balanced, Tasked, Earned, Parks, Lists, CanOwe, CanHold, Decl,
           RecoversAmbiguity
<1> HIDE DEF a, b
<1> QED BY <1>1, <1>3, <1>4, <1>5, <1>6 DEF a

(* For every number of nodes and every set of valid plans (INV-12, T5):    *)
(* an attempt starts only while nothing has stopped the scope, when the    *)
(* acquisition of the attempt before it is discharged and no body of the   *)
(* node is left; and so does a serving episode, but for that of an         *)
(* initializer past its deadline that outran both the abort and the settle.*)
THEOREM AttemptsAreBracketed == Spec => AttemptsBracketed
<1>1. TypeOK /\ Ledger(Here) /\ TypeOK' /\ [Next]_vars =>
        [\A n \in Node :
           /\ StartsAttempt(n) => Open /\ n \notin due'.held /\ n \notin due'.overlaps
           /\ StartsEpisode(n) => Open \/ (slot[n].st = "Running" /\ slot[n].timingOut)]_vars
  <2> SUFFICES ASSUME TypeOK, Ledger(Here), TypeOK', [Next]_vars, ~ UNCHANGED vars,
                      NEW n \in Node
               PROVE  /\ StartsAttempt(n) =>
                           Open /\ n \notin due'.held /\ n \notin due'.overlaps
                      /\ StartsEpisode(n) =>
                           Open \/ (slot[n].st = "Running" /\ slot[n].timingOut)
    OBVIOUS
  <2>1. AllLed /\ Ledger(Here)' /\ plan' = plan
    BY StepLanded
  <2>2. PICK a \in Accounts, b \in Accounts :
          /\ Entry(n, a) /\ Entry(n, b) /\ Led(n, a, b)
          /\ a.slot = slot[n] /\ a.phase = body[n].phase
          /\ b.slot = slot'[n] /\ b.phase = body'[n].phase
          /\ b.owed = (n \in due'.held) /\ b.twice = (n \in due'.overlaps)
    BY <2>1, StepAccount
  <2>3. Up(Here) = Open
    BY HereNear DEF Up, Open
  <2>4. StartsAttempt(n) => Open /\ n \notin due'.held /\ n \notin due'.overlaps
    <3>1. StartsAttempt(n) => Up(Here) /\ ~ b.slot.held
      BY <2>2 DEF StartsAttempt, Led
    <3>2. ~ b.twice /\ (b.owed => b.slot.held)
      BY <2>2 DEF Entry, Draft, Tasked, Balanced
    <3> QED BY <2>2, <2>3, <3>1, <3>2
  <2>5. StartsEpisode(n) => Open \/ (slot[n].st = "Running" /\ slot[n].timingOut)
    BY <2>2, <2>3 DEF StartsEpisode, Led
  <2> QED BY <2>4, <2>5
<1> QED BY <1>1, LedgerKept, PTL DEF Spec, AttemptsBracketed

(* For every number of nodes and every set of valid plans (INV-4, INV-11): *)
(* a cleanup body runs only for an acquisition of the attempt it follows,  *)
(* or to recover an effect of unknown outcome; and an effect of unknown    *)
(* outcome is done again only if it asked for that.                        *)
THEOREM BodiesAreEarned == Spec => NoUnearnedBody
<1>1. TypeOK /\ Ledger(Here) /\ TypeOK' /\ [Next]_vars =>
        [\A n \in Node :
           /\ StartsCleanup(n) =>
                \/ n \in due'.held
                \/ RecoversAmbiguity(n) /\ \E a \in due'.ambiguous : a[1] = n
           /\ StartsAttempt(n) /\ (\E a \in due.ambiguous : a[1] = n) =>
                Decl(n).ambiguity = "retry"]_vars
  <2> SUFFICES ASSUME TypeOK, Ledger(Here), TypeOK', [Next]_vars, ~ UNCHANGED vars,
                      NEW n \in Node
               PROVE  /\ StartsCleanup(n) =>
                           \/ n \in due'.held
                           \/ RecoversAmbiguity(n) /\ \E x \in due'.ambiguous : x[1] = n
                      /\ StartsAttempt(n) /\ (\E x \in due.ambiguous : x[1] = n) =>
                           Decl(n).ambiguity = "retry"
    OBVIOUS
  <2>1. AllLed /\ Ledger(Here)' /\ plan' = plan
    BY StepLanded
  <2>2. PICK a \in Accounts, b \in Accounts :
          /\ a = Account(Here, n)
          /\ Entry(n, a) /\ Entry(n, b) /\ Led(n, a, b)
          /\ a.slot = slot[n] /\ a.phase = body[n].phase
          /\ b.slot = slot'[n] /\ b.phase = body'[n].phase
          /\ b.owed = (n \in due'.held)
          /\ b.dueAmbiguous = Of(due'.ambiguous, n)
    BY <2>1, StepAccount
  <2>3. b.dueAmbiguous # {} => \E x \in due'.ambiguous : x[1] = n
    <3>1. ASSUME NEW k \in Of(due'.ambiguous, n) PROVE \E x \in due'.ambiguous : x[1] = n
      <4>1. <<n, k>> \in due'.ambiguous /\ <<n, k>>[1] = n
        BY DEF Of
      <4> QED BY <4>1
    <3> QED BY <2>2, <3>1
  <2>4. StartsCleanup(n) =>
          \/ n \in due'.held
          \/ RecoversAmbiguity(n) /\ \E x \in due'.ambiguous : x[1] = n
    <3>1. SUFFICES ASSUME StartsCleanup(n)
                   PROVE  b.owed \/ (RecoversAmbiguity(n) /\ b.dueAmbiguous # {})
      BY <2>2, <2>3
    <3>2. b.phase = "cleanup" /\ a.phase # "cleanup"
      BY <2>2, <3>1 DEF StartsCleanup
    <3>3. b.slot.st \in {"Releasing", "Compensating", "RetryRelease"}
      BY <2>2, <3>2 DEF Entry, Draft, Tasked, Led
    <3>4. CASE b.slot.st = "Compensating" /\ b.slot.recovering
      BY <2>2, <3>4 DEF Entry, Draft, Earned
    <3>5. CASE ~ (b.slot.st = "Compensating" /\ b.slot.recovering)
      <4>1. CanOwe(n) /\ b.slot.held /\ b.slot.st \in Holding
        BY <2>2, <3>3, <3>5 DEF Entry, Draft, Earned, Holding
      <4> QED BY <2>2, <4>1 DEF Entry, Draft, Balanced
    <3> QED BY <3>4, <3>5
  <2>5. StartsAttempt(n) /\ (\E x \in due.ambiguous : x[1] = n) => Decl(n).ambiguity = "retry"
    <3>1. (\E x \in due.ambiguous : x[1] = n) => a.dueAmbiguous # {}
      BY <2>2, ListedOf
    <3>2. StartsAttempt(n) => a.slot.st \notin Past
      BY <2>2 DEF StartsAttempt, Led
    <3>3. Decl(n).ambiguity # "retry" /\ a.dueAmbiguous # {} => a.slot.st \in Past
      BY <2>2 DEF Entry, Draft, Earned, Doubtful, Past
    <3> QED BY <3>1, <3>2, <3>3
  <2> QED BY <2>4, <2>5
<1> QED BY <1>1, LedgerKept, PTL DEF Spec, NoUnearnedBody
=============================================================================
