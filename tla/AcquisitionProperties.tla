------------------------ MODULE AcquisitionProperties ------------------------
(***************************************************************************)
(* What holds of an acquiring attempt wherever an abort lands in it.       *)
(***************************************************************************)
EXTENDS Acquisition

TypeOK ==
  /\ cell \in [st : {"Unused", "Reserved", "Held", "Discharged"},
               value : Authority \cup {NoValue, Output}]
  /\ repeated \in BOOLEAN /\ holds \in 0..1
  /\ effect \in [Authority -> Effects]
  /\ at \in {"idle", "polling", "completing", "guard", "over"}
  /\ acting \in Authority \cup {NoValue}
  /\ result \in Results /\ told \in BOOLEAN /\ aborted \in BOOLEAN
  /\ joined \in {"none", "done", "cancelled", "panicked", "joined"}
  /\ slot \in Authority \cup {NoValue, Output}
  /\ heard \in [held : BOOLEAN, outcome : Outcomes \cup {"none"}]

Invoked == {a \in Authority : effect[a] \in {"pending", "done", "failed", "dropped"}}
Done == {a \in Authority : effect[a] = "done"}

(* Wherever an abort can take effect, a completed acquisition is in the    *)
(* cell or already stored: there is no window in which the effect happened *)
(* and nobody owns its cleanup (cx/acquisition.rs:96).                     *)
NothingUnowned ==
  at # "completing" => \A a \in Done : cell.value = a \/ slot = a

(* However many authorities the host mints, the attempt runs one factory;  *)
(* a failed or dropped one is not followed by another.                     *)
OneAcquisition == \A a, b \in Invoked : a = b

(* The engine knows of the registration by the time it acts on the outcome *)
(* and by then the value is stored, so that the release it opens finds it; *)
(* it is told of none that is not there.                                   *)
OutcomeComesLast ==
  heard.outcome # "none" => (heard.held <=> Done # {}) /\ \A a \in Done : slot = a

(* An attempt that tried to register twice is reported as such, unless it  *)
(* panicked or was dropped first; no other attempt is.                     *)
MisuseIsReported ==
  /\ repeated => heard.outcome \in {"none", "DoubleHold", "Panic", "Cancelled"}
  /\ heard.outcome = "DoubleHold" => repeated

(* The engine hears how an aborted attempt ended.                          *)
AbortIsAnswered == aborted ~> heard.outcome # "none"
==============================================================================
