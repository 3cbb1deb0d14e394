------------------------- MODULE MachineProperties -------------------------
(***************************************************************************)
(* What the engine promises of one scope, stated over Machine.  The        *)
(* numbers INV-n are those of dev-docs/SdaxContract-v1.md section 4.       *)
(***************************************************************************)
EXTENDS Machine

(* The types of the bookkeeping, that a node only ever is in a state of    *)
(* its kind, and that only a service is served: what St and the table of   *)
(* tasks leave to the handlers of the engine.                              *)
TypeOK ==
  /\ plan \in Plans
  /\ Here \in State
  /\ \A n \in Node : slot[n].st \in StatesOf(n)
  /\ \A n \in Node : body[n].phase = "serve" => IsService(n)

Ended == scope.st = "Ended"

(* T1: an exclusive holder is alone on its resource: the grants taken in   *)
(* one pass, kept by a serving service and by a late thread, and freed on  *)
(* every other way out of an attempt, never conflict.                      *)
LockSafety ==
  \A h, g \in Granted(Here) : h # g => Decl(h).exclusive \cap Wants(g) = {}

(* T1: a pool is never over-subscribed, a thread past its deadline counted.*)
PoolSafety ==
  \A p \in Pool : Cardinality({h \in Granted(Here) : p \in Decl(h).pool}) <= plan.limit[p]

(* T1: who holds grants does so beside all the others.                     *)
GrantsAreExclusive == LockSafety /\ PoolSafety

(* Contract section 2: a waiter always has a reason.  While the scope      *)
(* admits, a node that is not started lacks a need, or a grant, or stands  *)
(* behind an earlier waiter for the same grant: no path that frees a grant *)
(* or settles a need forgets to admit again.                               *)
NoIdleGrant ==
  Admits(Here) =>
    /\ \A n \in In(Here, {"Pending"}) : ~ NeedsReady(Here, n)
    /\ \A w \in In(Here, {"Waiting"}) :
         \/ ~ GrantsAvailable(w, Granted(Here))
         \/ \E u \in ahead[w] : Contend(u, w)

(* INV-3, INV-9: at the end every fault that was observed and not answered *)
(* by a later Ready or a new episode is in the report, and no other; every *)
(* effect of unknown outcome is listed; every acquisition was released,    *)
(* failed to be, or is recorded as abandoned.                              *)
NothingLost ==
  Ended =>
    /\ report.faults = due.faults
    /\ {a[1] : a \in report.ambiguous} = {a[1] : a \in due.ambiguous}
    /\ due.held = {}
    /\ In(Here, {"ReleaseFailed"}) \subseteq report.cleanupFailures
    /\ In(Here, {"Abandoned"}) = report.incomplete

(* P-17: no obligation starts before every body was joined or abandoned    *)
(* and every value transfer acknowledged.                                  *)
JoinsBeforeCleanup ==
  scope.st \in {"Cleanup", "Ended"} =>
    \A n \in Node : /\ ~ slot[n].publishing
                    /\ body[n].phase = "run" => slot[n].st = "Abandoned"

(* T4, T1: under FailFast a reported fault and admission exclude each      *)
(* other; under Isolate, while the scope admits, exactly the dependents of *)
(* a failure are skipped, and nothing unstarted waits for a need that can  *)
(* no longer become ready: such a node would hang a finite run.            *)
PolicyHolds ==
  Admits(Here) =>
    /\ plan.policy = "FailFast" => report.faults = {}
    /\ \A n \in In(Here, {"Skipped"}) :
         \E d \in Decl(n).needs : slot[d].st \in {"Failed", "Ambiguous", "Skipped"}
    /\ \A n \in In(Here, Unstarted \cup {"Backoff"}) : \A d \in Decl(n).needs :
         \/ IsService(d) /\ slot[d].initialized
         \/ slot[d].st \notin {"Failed", "Interrupted", "Ambiguous", "Skipped", "Abandoned"}

-----------------------------------------------------------------------------

Open == scope.st \in {"Planned", "Admitting", "Steady"}

StartsAttempt(n) == body'[n].phase = "run" /\ slot'[n].attempt # slot[n].attempt

StartsEpisode(n) ==
  /\ body'[n].phase = "serve"
  /\ body[n].phase # "serve" \/ slot'[n].restarts # slot[n].restarts

StartsCleanup(n) == body'[n].phase = "cleanup" /\ body[n].phase # "cleanup"

(* INV-12, T5: an attempt starts only while the scope admits, when the     *)
(* acquisition of the attempt before it was discharged, and when no body   *)
(* of the node is left, whatever timer, retry or restart was under way;    *)
(* and a serving episode starts only while the scope admits, but for that  *)
(* of an initializer past its deadline that outran both the abort and the  *)
(* settle.                                                                 *)
AttemptsBracketed ==
  [][\A n \in Node :
       /\ StartsAttempt(n) => Open /\ n \notin due'.held /\ n \notin due'.overlaps
       /\ StartsEpisode(n) => Open \/ (slot[n].st = "Running" /\ slot[n].timingOut)]_vars

(* T1: nobody starts past an earlier waiter that stays queued for a grant  *)
(* they both declare, not a later waiter and not a node that joins now.    *)
TakesGrants(n) == slot'[n].granted /\ (~ slot[n].granted \/ StartsAttempt(n))

NoOvertaking ==
  [][\A u, w \in Node :
       /\ slot[u].st = "Waiting" /\ slot'[u].st = "Waiting" /\ TakesGrants(w)
       /\ slot[w].st = "Waiting" => u \in ahead[w]
       => Wants(u) \cap Wants(w) = {} /\ Decl(u).pool \cap Decl(w).pool = {}]_vars

(* INV-4, INV-11: a cleanup body runs only for an acquisition of the       *)
(* attempt it follows, or to recover an effect of unknown outcome; and an  *)
(* effect of unknown outcome is done again only if it asked for that.      *)
NoUnearnedBody ==
  [][\A n \in Node :
       /\ StartsCleanup(n) =>
            \/ n \in due'.held
            \/ RecoversAmbiguity(n) /\ \E a \in due'.ambiguous : a[1] = n
       /\ StartsAttempt(n) /\ (\E a \in due.ambiguous : a[1] = n) =>
            Decl(n).ambiguity = "retry"]_vars

-----------------------------------------------------------------------------
(* Three statements of the repository the engine does not keep.            *)

(* INV-9 and INV-11: every ambiguity the engine observed, and no later     *)
(* attempt or recovery answered, is in the report, attempt by attempt.     *)
EveryAmbiguityReported == Ended => due.ambiguous \subseteq report.ambiguous

(* admit.rs: a node whose needed service is between two serving episodes   *)
(* is not started.                                                         *)
StartsOnServingNeeds ==
  [][\A n \in Node : StartsAttempt(n) =>
       \A d \in Decl(n).needs : IsService(d) => slot'[d].st \in {"Ready", "Finished"}]_vars

(* Contract section 1: a service whose initializer returns after the stop  *)
(* request is interrupted, and what it would serve is dropped unpolled.    *)
NoLateEpisode == [][\A n \in Node : StartsEpisode(n) => Open]_vars

-----------------------------------------------------------------------------
(* Liveness.  Weak fairness of an event that ends what enables it says     *)
(* that the enabling condition does not stay true for ever.  The host      *)
(* delivers the timers it was given and acknowledges value transfers.      *)
HostFairness ==
  /\ []<>(~ scope.budget) /\ []<>(~ scope.zero)
  /\ \A n \in Node : []<>(~ slot[n].publishing)

(* Every body that was started, and asked to stop if it serves, ends; the  *)
(* number of attempts is bounded, so a node is not running for ever.       *)
BodyFairness ==
  \A n \in Node :
    /\ []<>(~ RunInFlight(n))
    /\ []<>(body[n].phase # "cleanup")
    /\ []<>(slot[n].st # "Stopping")
    /\ []<>(slot[n].st # "Backoff")

HostSpec == Spec /\ HostFairness
FairSpec == HostSpec /\ BodyFairness

(* A finite run whose bodies end comes to its end by itself, and so does a *)
(* shutdown without a bound.                                               *)
Completes ==
  (scope.st = "Settling" \/ (scope.st # "Planned" /\ plan.mode = "Finite")) ~> Ended
=============================================================================
