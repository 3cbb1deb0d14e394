------------------------ MODULE RunControlProperties ------------------------
(***************************************************************************)
(* What the callers of a run may rely on, whatever the driver, the bodies  *)
(* and the runtime's teardown do at the same time.                         *)
(***************************************************************************)
EXTENDS RunControl

(* Running::ready(): Ok is told only of a run that was steady, Err only of *)
(* one that is over, with the outcome of its report; and a run that is     *)
(* over, by its end or by the runtime's, has told both.  Child::ready()    *)
(* says ready only of an instance that was: its latch is not answered from *)
(* a step that another step has overtaken.                                 *)
ReadyIsTrue ==
  /\ latch = "Ready" => past.steady
  /\ latch \in Outcomes => driver.at \in {"report", "gone"}
  /\ channel # "none" => latch # "none"
  /\ channel # "none" /\ latch # "Ready" => latch = channel
  /\ At("gone") => channel # "none"
  /\ \A i \in Id : word[i] = "Ready" => i \in past.ready

(* C-11: a handle that is dropped before its first poll starts nothing,    *)
(* and a run that was asked to stop before it has no effect at all.        *)
NothingUnasked ==
  /\ user \in {"Idle", "Dropped"} /\ driver.at = "boot" => mail # <<>>
  /\ past.early => ~ past.effects

(* The engine opens an instance's slots with the input the body gave it.   *)
InputsArrive == past.missing = {}

(* What the callers of a run hold in their hands is never wrong: its two   *)
(* latches, its requests and the inputs of its instances.                  *)
CallersAreServed == ReadyIsTrue /\ NothingUnasked /\ InputsArrive

(* C-14: whoever awaits a run that ended, or whose runtime was torn down,  *)
(* is handed a report.                                                     *)
ReportArrives == user = "Live" /\ (engine.run = "Ended" \/ At("gone")) ~> user # "Live"

(* F1: a body that waits for an instance that is ready, or over, hears of  *)
(* it, even if it looked the latch up while it was being answered.         *)
ChildrenAreTold ==
  \A i \in Id :
    waiter[i] = "waiting" /\ engine.inst[i] \in {"Steady", "Ended"} ~>
      waiter[i] # "waiting" \/ At("gone")

-----------------------------------------------------------------------------
(* Two statements of the repository that do not hold.                      *)

(* cx/instances.rs: ForeignTemplate means that the template belongs to     *)
(* another plan; the body here asks for one its node declared.             *)
OwnTemplatesKnown == thread.at # "ForeignTemplate"

(* cx/instances.rs: ready() errors if the instance ended before it was     *)
(* steady.                                                                 *)
GoneMeansReady == \A i \in Id : waiter[i] = "gone" => i \in past.ready
=============================================================================
