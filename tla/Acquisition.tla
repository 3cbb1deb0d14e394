----------------------------- MODULE Acquisition -----------------------------
(***************************************************************************)
(* One attempt of a body that acquires: the registration cell behind its   *)
(* context, the future of cx.hold, the guard that polls the body and tells *)
(* the driver, the abort that may land between any two polls, and the      *)
(* driver's side, which takes what was registered when it hears the        *)
(* outcome.  A poll is several steps here, because the join of an abort    *)
(* and the driver's loop run on other threads; the runtime drops a task    *)
(* only between two polls.                                                 *)
(***************************************************************************)
EXTENDS Naturals, Sequences

CONSTANT Authority   \* the acquisition authorities the host mints for the attempt

ASSUME AuthorityAssumption == Authority # {}

NoValue == "none"
Output == "output"

ASSUME NamesAssumption == NoValue \notin Authority /\ Output \notin Authority

VARIABLES
  cell,     \* the registration: its state and the value in it
  repeated, \* a second registration was attempted
  holds,    \* how many registrations succeeded
  effect,   \* Authority -> the external effect its factory performs
  at,       \* where the task's thread is
  acting,   \* the authority whose effect completed in this poll
  result,   \* what the body's poll returned
  told,     \* the guard has reported a registration
  aborted,  \* the driver asked for the abort
  joined,   \* how the task ended, for the one that joins it
  mail,     \* messages of this attempt on their way to the driver
  slot,     \* the value stored for the node
  heard     \* what the engine was told: a registration, and the outcome

cellVars == <<cell, repeated, holds>>
guardVars == <<result, told>>
hostVars == <<aborted, joined, mail, slot, heard>>
vars == <<cellVars, effect, at, acting, guardVars, hostVars>>

Effects == {"none", "refused", "pending", "done", "failed", "dropped"}
Results == {"pending", "ok", "err", "panic"}
Outcomes == {"Ok", "Err", "DoubleHold", "Panic", "Cancelled"}

Message(ev, held) == [ev |-> ev, held |-> held]

Init ==
  /\ cell = [st |-> "Unused", value |-> NoValue] /\ repeated = FALSE /\ holds = 0
  /\ effect = [a \in Authority |-> "none"]
  /\ at = "idle" /\ acting = NoValue /\ result = "pending" /\ told = FALSE
  /\ aborted = FALSE /\ joined = "none" /\ mail = <<>>
  /\ slot = NoValue /\ heard = [held |-> FALSE, outcome |-> "none"]

-----------------------------------------------------------------------------
(* The cell.                                                               *)

Vacant == cell.st = "Unused"

Reserve ==
  IF Vacant
  THEN cell' = [cell EXCEPT !.st = "Reserved"] /\ UNCHANGED repeated
  ELSE repeated' = TRUE /\ UNCHANGED cell

Record(v) ==
  /\ cell' = [st |-> "Held", value |-> v]
  /\ holds' = holds + 1

-----------------------------------------------------------------------------
(* What the code of the body may do while it is polled.                    *)

Polled == at = "polling"

(* The reservation comes before the factory runs.                          *)
Hold(a) ==
  /\ Polled /\ effect[a] = "none"
  /\ Reserve
  /\ effect' = [effect EXCEPT ![a] = IF Vacant THEN "pending" ELSE "refused"]
  /\ UNCHANGED <<holds, at, acting, guardVars, hostVars>>

CompletesUnregistered(a) ==
  /\ Polled /\ effect[a] = "pending"
  /\ effect' = [effect EXCEPT ![a] = "done"]
  /\ UNCHANGED <<cellVars, at, acting, guardVars, hostVars>>

(* The effect completes under the poll of the hold future, which then has  *)
(* the value in hand ...                                                   *)
Complete(a) ==
  /\ Polled /\ effect[a] = "pending"
  /\ effect' = [effect EXCEPT ![a] = "done"]
  /\ at' = "completing" /\ acting' = a
  /\ UNCHANGED <<cellVars, guardVars, hostVars>>

(* ... and registers it before it returns.                                 *)
Register ==
  /\ at = "completing"
  /\ Record(acting)
  /\ at' = "polling" /\ acting' = NoValue
  /\ UNCHANGED <<repeated, effect, guardVars, hostVars>>

Fail(a) ==
  /\ Polled /\ effect[a] = "pending"
  /\ effect' = [effect EXCEPT ![a] = "failed"]
  /\ UNCHANGED <<cellVars, at, acting, guardVars, hostVars>>

(* The body may drop the hold future, as until_stop and timeout do with    *)
(* what they run.                                                          *)
Forget(a) ==
  /\ Polled /\ effect[a] = "pending"
  /\ effect' = [effect EXCEPT ![a] = "dropped"]
  /\ UNCHANGED <<cellVars, at, acting, guardVars, hostVars>>

(* A value that carries no effect; on a used authority it panics.          *)
HoldValue(a) ==
  /\ Polled /\ effect[a] = "none"
  /\ IF Vacant
     THEN /\ Record(a) /\ UNCHANGED <<repeated, result, at>>
          /\ effect' = [effect EXCEPT ![a] = "done"]
     ELSE /\ Reserve /\ UNCHANGED holds
          /\ effect' = [effect EXCEPT ![a] = "refused"]
          /\ result' = "panic" /\ at' = "guard"
  /\ UNCHANGED <<acting, told, hostVars>>

(* The output of a step or initializer shares the cell.                    *)
PutOutput ==
  /\ Polled
  /\ IF Vacant
     THEN cell' = [st |-> "Held", value |-> Output] /\ UNCHANGED repeated
     ELSE repeated' = TRUE /\ UNCHANGED cell
  /\ UNCHANGED <<holds, effect, at, acting, guardVars, hostVars>>

Return(r) ==
  /\ Polled
  /\ result' = r /\ at' = "guard"
  /\ UNCHANGED <<cellVars, effect, acting, told, hostVars>>

-----------------------------------------------------------------------------
(* The task: the guard around the body.                                    *)

StartPoll ==
  /\ at = "idle" /\ ~aborted
  /\ at' = "polling"
  /\ UNCHANGED <<cellVars, effect, acting, guardVars, hostVars>>

ReportsPending == ~told /\ holds > 0 /\ result = "pending"
Reports == ~told /\ holds > 0

OutcomeEvent ==
  CASE result = "panic" -> "Panic"
    [] result # "panic" /\ repeated -> "DoubleHold"
    [] result = "err" /\ ~repeated -> "Err"
    [] OTHER -> "Ok"

(* After every poll of the body, whatever it returned: the registration is *)
(* reported first, then the outcome, if this was the last poll.            *)
Guard ==
  LET held == IF Reports THEN <<Message("Held", TRUE)>> ELSE <<>> IN
  /\ at = "guard"
  /\ told' = (told \/ Reports)
  /\ IF result = "pending"
     THEN mail' = mail \o held /\ at' = "idle" /\ UNCHANGED <<joined, effect>>
     ELSE /\ mail' = mail \o held \o <<Message(OutcomeEvent, FALSE)>>
          /\ at' = "over" /\ joined' = "done"
          /\ effect' = [a \in Authority |->
                          IF effect[a] = "pending" THEN "dropped" ELSE effect[a]]
  /\ UNCHANGED <<cellVars, acting, result, aborted, slot, heard>>

(* An aborted task is dropped with its locals, which may panic.            *)
Drop(how) ==
  /\ at = "idle" /\ aborted
  /\ at' = "over" /\ joined' = how
  /\ effect' = [a \in Authority |-> IF effect[a] = "pending" THEN "dropped" ELSE effect[a]]
  /\ UNCHANGED <<cellVars, acting, guardVars, aborted, mail, slot, heard>>

-----------------------------------------------------------------------------
(* The host.                                                               *)

Abort ==
  /\ ~aborted /\ heard.outcome = "none"
  /\ aborted' = TRUE
  /\ UNCHANGED <<cellVars, effect, at, acting, guardVars, joined, mail, slot, heard>>

ReportsCancelled == joined = "cancelled"
ReportsJoin == joined \in {"cancelled", "panicked"}

(* The task that joins an aborted one; one that ended by itself has sent   *)
(* its own outcome.                                                        *)
JoinAborted ==
  /\ aborted /\ joined \in {"done", "cancelled", "panicked"}
  /\ mail' = IF ReportsJoin THEN Append(mail, Message("Cancelled", holds > 0)) ELSE mail
  /\ joined' = "joined"
  /\ UNCHANGED <<cellVars, effect, at, acting, guardVars, aborted, slot, heard>>

TakeHeld == cell' = [st |-> "Discharged", value |-> NoValue]

(* The driver's loop: with an outcome it stores what was registered, then  *)
(* the engine is told.                                                     *)
HandleHeld ==
  /\ mail # <<>> /\ Head(mail).ev = "Held"
  /\ heard' = [heard EXCEPT !.held = TRUE]
  /\ mail' = Tail(mail)
  /\ UNCHANGED <<cellVars, effect, at, acting, guardVars, aborted, joined, slot>>

HandleOutcome ==
  /\ mail # <<>> /\ Head(mail).ev \in Outcomes
  /\ TakeHeld
  /\ slot' = IF cell.st = "Held" THEN cell.value ELSE slot
  /\ heard' = [held |-> heard.held \/ Head(mail).held, outcome |-> Head(mail).ev]
  /\ mail' = Tail(mail)
  /\ UNCHANGED <<repeated, holds, effect, at, acting, guardVars, aborted, joined>>

BodyStep ==
  \/ \E a \in Authority :
       Hold(a) \/ Complete(a) \/ Fail(a) \/ Forget(a) \/ HoldValue(a)
  \/ Register
  \/ PutOutput
  \/ \E r \in Results : Return(r)

TaskStep == StartPoll \/ Guard \/ \E how \in {"cancelled", "panicked"} : Drop(how)
HostStep == JoinAborted \/ HandleHeld \/ HandleOutcome

(* Nothing more happens once the task is over and the mailbox is empty.    *)
Settled ==
  /\ at = "over" /\ mail = <<>> /\ (aborted => joined = "joined")
  /\ UNCHANGED vars

Next == BodyStep \/ TaskStep \/ Abort \/ HostStep \/ Settled

(* A body gives every poll back, the runtime drops an aborted task, and    *)
(* the mailbox is served.                                                  *)
Fairness ==
  /\ WF_vars(\E r \in Results : Return(r)) /\ WF_vars(Register) /\ WF_vars(Guard)
  /\ WF_vars(\E how \in {"cancelled", "panicked"} : Drop(how))
  /\ WF_vars(JoinAborted) /\ WF_vars(HandleHeld \/ HandleOutcome)

Spec == Init /\ [][Next]_vars /\ Fairness

==============================================================================
