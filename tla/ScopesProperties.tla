-------------------------- MODULE ScopesProperties --------------------------
(***************************************************************************)
(* What the engine promises across scopes, stated over Scopes.  INV-n are  *)
(* the numbers of dev-docs/SdaxContract-v1.md section 4.                   *)
(***************************************************************************)
EXTENDS Scopes

Ended == sc[Root].st = "Ended"
Alive(n) == slot[n].st \in {"Running", "RetryRelease", "Releasing", "Stopping"}

(* INV-5, INV-16: once the cleanup of a row began, nothing that needs it   *)
(* by declaration or by import, in any scope, has a body in flight, an     *)
(* obligation still to come or an inner graph that is not over.  INV-15:   *)
(* a component, which has no body, was told how its attempt ended before   *)
(* its release opens, by whichever of its ways out it took.                *)
ReleaseOrder ==
  /\ \A n \in Node :
       R(n).kind = "Component" /\ slot[n].st \in {"Releasing", "Released"} => slot[n].closed
  /\ \A n \in In(Here, {"Releasing", "Stopping", "Released", "Stopped", "ReleaseFailed"}) :
       \A d \in Dependents(Here, n) :
         /\ ~ Alive(d) /\ slot[d].st \notin Unstarted \cup {"Backoff", "Publishing", "Live"}
         /\ R(d).kind = "Resource" => ~ (slot[d].held /\ slot[d].st = "Ready")
         /\ R(d).inner # 0 => sc[R(d).inner].st \in {"Planned", "Ended"}
         /\ R(d).kind = "Template" => LiveInstances(Here, d) = {}

(* INV-16, INV-15: when the run ends every scope that was born has ended,  *)
(* every instance was told to end, and nothing is left in flight that the  *)
(* budget did not abandon.                                                 *)
NothingOutlivesTheRun ==
  Ended =>
    /\ \A s \in born : sc[s].st = "Ended" /\ ~ sc[s].budget /\ ~ sc[s].zero
    /\ \A s \in born : P(s).template # 0 => sc[s].ended
    /\ \A n \in Node : R(n).scope \in born =>
         ~ Alive(n) /\ ~ Owes(Here, n) /\ slot[n].st \notin Unstarted \cup {"Backoff", "Publishing", "Live",
                                                         "StoppingInstances"}

(* T5: nothing inside a scope that stopped admitting admits: an inner      *)
(* scope or an instance is admitting only while everything around it is,   *)
(* and its component is coming up, publishing or ready.                    *)
AdmissionNests ==
  \A s \in born \ {Root} : Admits(Here, s) =>
    /\ Admits(Here, P(s).parent)
    /\ P(s).component # 0 => slot[P(s).component].st \in {"Running", "Publishing", "Ready"}
    /\ P(s).template # 0 => ~ sc[s].ended

(* T1 across scopes: an imported resource is one lock, and a pool belongs  *)
(* to its scope.                                                           *)
GrantsAreExclusive ==
  /\ \A h, g \in Granted(Here) : h # g => R(h).exclusive \cap R(g).exclusive = {}
  /\ \A s \in born : PoolUse(Here, s) <= P(s).limit

(* INV-1, contract section 2: in every scope that admits, a waiter lacks a *)
(* need or a grant somebody holds, or stands behind a waiter of its scope  *)
(* for the same grant.  Between the expiry of a nested budget and the      *)
(* re-check that follows in the same instant a grant may lie idle.         *)
NoIdleGrant ==
  (\A s \in born : ~ sc[s].zero) =>
    \A n \in In(Here, Unstarted) : Admits(Here, R(n).scope) =>
      \/ ~ NeedsReady(Here, n)
      \/ ~ GrantsAvailable(Here, n)
      \/ \E u \in In(Here, {"Waiting"}) :
           u # n /\ R(u).scope = R(n).scope /\ Wants(u) \cap Wants(n) # {}

(* A grant is given to one scope at a time, and to one that waits for it.  *)
GrantsAreExact == GrantsAreExclusive /\ NoIdleGrant

(* Something is still to come: a body that will answer, a timer, a value   *)
(* to be handed over, a spawn in the host's queue.                         *)
SomethingToDeliver ==
  \/ calls # {}
  \/ \E n \in Node : \/ slot[n].publishing \/ slot[n].timer # "none"
                     \/ R(n).inner = 0 /\ Alive(n)
                     \/ IsService(n) /\ slot[n].st = "Ready"
  \/ \E s \in Scope : sc[s].budget \/ sc[s].zero

(* Simulator::step: a run with nothing left to deliver has ended, or is    *)
(* resident and steady; it is not left half way by what one scope did to   *)
(* another.                                                                *)
NothingStalls ==
  Begun /\ ~ SomethingToDeliver => sc[Root].st = "Steady" /\ P(Root).mode = "Resident"

(* C-64: how an instance ended is told by its own scope.  It is Ok only if *)
(* no node of it failed, whatever ended it, and Cancelled only if the run  *)
(* was cancelled, not for being stopped or for a fault elsewhere.          *)
InstanceTellsItsOwn ==
  \A s \in born : sc[s].ended =>
    /\ sc[s].outcome = "Ok" => \A n \in Node : R(n).scope = s => slot[n].st # "Failed"
    /\ sc[s].outcome = "Cancelled" => sc[Root].cause = "Cancel"

-----------------------------------------------------------------------------

Fails(n) == slot[n].st # "Failed" /\ slot'[n].st = "Failed"
GoesOn(s) == sc'[s].st \in {"Admitting", "Steady"}

(* A step faults a row of s.  What fails may be released in the same step; *)
(* that a scope had a fault stays.                                         *)
FaultIn(s) ==
  \/ ~ sc[s].faulted /\ sc'[s].faulted
  \/ \E n \in Node : R(n).scope = s /\ Fails(n)

(* The fault is not handed up to s from a scope inside it.                 *)
FaultBegins(s) ==
  FaultIn(s) /\ \A t \in Scope \ {s} : Encloses(tree, s, t) => ~ FaultIn(t)

(* The scope of a component whose plan isolates its faults, while it runs. *)
Isolating(s) == P(s).component # 0 /\ P(s).policy = "Isolate" /\ Admits(Here, s)

(* The export failed, or it has not arrived and no longer can.             *)
ExportLost(s) ==
  LET e == P(s).export IN
  /\ e # 0
  /\ \/ Fails(e)
     \/ /\ slot[e].st \notin {"Ready", "Finished"}
        /\ slot'[e].st \notin Unstarted \cup {"Running", "Backoff", "RetryRelease",
                                             "Publishing", "Ready", "Finished"}

(* OD-INNER-POLICY: a fault that begins under a child plan that isolates   *)
(* faults leaves it only if the export is lost with it.  If not, the scope *)
(* and all scopes around it go on, and no other scope has a fault, at any  *)
(* depth of mounting.                                                      *)
IsolatedFaultsStayInside ==
  [][\A s \in Scope : FaultBegins(s) /\ Isolating(s) =>
       \/ ExportLost(s)
       \/ /\ \A around \in Scope : Encloses(tree, around, s) => GoesOn(around)
          /\ \A other \in Scope \ {s} : ~ FaultIn(other)]_vars

(* INV-7: only an expired budget, of the scope or of one around it, or its *)
(* own stop deadline, aborts a cleanup; a request or a stop never does.    *)
CleanupsAreShielded ==
  [][\A n \in In(Here, {"Releasing", "Stopping", "RetryRelease"}) :
       R(n).kind # "Component" /\ slot'[n].st = "Abandoned" =>
         \/ slot[n].timer = "StopDeadline"
         \/ \E s \in Scope : Encloses(tree, s, R(n).scope) /\ sc'[s].spent]_vars

-----------------------------------------------------------------------------
(* Three statements of the contract the engine does not keep.              *)

(* OD-INNER-POLICY again, of every fault in the scope: a component that    *)
(* fails because of what is inside it is a row of the child plan that      *)
(* mounts it, and that plan's own policy says whether its scope goes on.   *)
InnerPolicyGoverns ==
  [][\A s \in Scope : FaultIn(s) /\ Isolating(s) => ExportLost(s) \/ GoesOn(s)]_vars

(* Contract section 1: a grant is held from the start of the body to its   *)
(* Ready, fault or interrupt, by a service while it serves; no row that    *)
(* has ended keeps a waiter of an admitting scope from a lock.             *)
NoDeadHolder ==
  \A w \in In(Here, {"Waiting"}) : Admits(Here, R(w).scope) =>
    \A h \in Granted(Here) : R(h).exclusive \cap R(w).exclusive # {} =>
      slot[h].st \notin {"Stopped", "ReleaseFailed"}

(* T4, the states of section 2: a row whose need has ended Failed or       *)
(* Interrupted is skipped; it does not go on waiting.                      *)
NoDoomedWaiter ==
  \A n \in In(Here, Unstarted) : Admits(Here, R(n).scope) =>
    \A d \in R(n).needs : slot[d].st \notin {"Failed", "Interrupted", "Skipped"}

-----------------------------------------------------------------------------
(* Liveness.  The host delivers the timers it was given and acknowledges   *)
(* every value transfer; the bodies themselves may never end.  Each of     *)
(* these events withdraws its own condition, so its weak fairness says     *)
(* that the condition does not hold for ever.                              *)
HostFairness ==
  /\ \A n \in RowId :
       /\ []<>~ (n \in Node /\ slot[n].publishing)
       /\ []<>~ (n \in Node /\ slot[n].timer = "Grace" /\ slot[n].cancelling)
       /\ []<>~ (n \in Node /\ slot[n].timer = "StopDeadline" /\ slot[n].st = "Stopping")
  /\ \A s \in ScopeId : /\ []<>~ (s \in Scope /\ sc[s].budget)
                         /\ []<>~ (s \in Scope /\ sc[s].zero)

HostSpec == Spec /\ HostFairness

(* INV-8: a bounded run that settles ends, whatever its bodies, its        *)
(* components and its instances do.                                        *)
BoundedShutdown == sc[Root].st = "Settling" ~> Ended

(* F1: an instance that was stopped ends while the run goes on, within its *)
(* own budget.                                                             *)
StoppedInstanceEnds ==
  \A s \in ScopeId :
    s \in born /\ P(s).template # 0 /\ P(s).bounded /\ sc[s].st = "Cleanup" ~> s \in Scope /\ sc[s].ended
=============================================================================
