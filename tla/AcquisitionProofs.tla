-------------------------- MODULE AcquisitionProofs --------------------------
(***************************************************************************)
(* What holds of an acquiring attempt for every set of authorities.  The   *)
(* cell and the effects, which only the task's thread changes, are one     *)
(* part of the inductive invariant; the other follows the outcome on its   *)
(* way to the engine, of which there is one: the guard sends it if the     *)
(* body ended, and else the task that joins the abort does.                *)
(***************************************************************************)
EXTENDS AcquisitionProperties, SequenceTheorems, TLAPS

Held == Message("Held", TRUE)

(* A registration is announced at most once, and before the outcome.       *)
Announced == mail # <<>> /\ mail[1] = Held
Unsent == mail = <<>> \/ mail = <<Held>>

(* An outcome on its way tells the truth about the attempt.                *)
True(o) ==
  /\ o.held => holds > 0
  /\ holds > 0 => told \/ o.held
  /\ o.ev \in {"Ok", "Err"} => ~ repeated
  /\ o.ev = "DoubleHold" => repeated

Sent == \E o \in [ev : Outcomes, held : BOOLEAN] : True(o) /\ (mail = <<o>> \/ mail = <<Held, o>>)

(* Until the outcome is heard a completed effect is in the cell, and       *)
(* afterwards in its slot.                                                 *)
CellInv ==
  /\ cell.st = "Unused" => \A a \in Authority : effect[a] = "none"
  /\ cell.st = "Unused" => holds = 0
  /\ \A a \in Authority : effect[a] = "pending" => cell.st = "Reserved" /\ at # "over"
  /\ \A a \in Authority : effect[a] = "pending" => at # "completing"
  /\ cell.st = "Reserved" => holds = 0
  /\ at = "completing" => /\ acting \in Authority /\ effect[acting] = "done"
                          /\ cell.st = "Reserved"
  /\ at # "completing" =>
       \A a \in Done : IF heard.outcome = "none"
                       THEN cell = [st |-> "Held", value |-> a] ELSE slot = a
  /\ at # "completing" => (holds > 0 <=> Done # {})

OutcomeInv ==
  /\ at # "over" <=> joined = "none"
  /\ at # "over" => Unsent /\ heard.outcome = "none"
  /\ joined \in {"cancelled", "panicked"} => Unsent /\ heard.outcome = "none"
  /\ joined \in {"done", "joined"} =>
       (Sent /\ heard.outcome = "none") \/ (mail = <<>> /\ heard.outcome # "none")
  /\ Announced => told
  /\ told => holds > 0 /\ (heard.held \/ Announced)
  /\ heard.held => holds > 0
  /\ heard.outcome # "none" => (holds > 0 => heard.held)

IInv == TypeOK /\ CellInv /\ OneAcquisition /\ OutcomeInv /\ MisuseIsReported

(* Every step is one of these.                                             *)
LEMMA StepCases ==
  ASSUME [Next]_vars
  PROVE  \/ \E a \in Authority : Hold(a)
         \/ \E a \in Authority : Complete(a)
         \/ \E a \in Authority : Fail(a) \/ Forget(a)
         \/ \E a \in Authority : HoldValue(a)
         \/ Register \/ PutOutput \/ (\E r \in Results : Return(r))
         \/ StartPoll \/ Guard \/ (\E how \in {"cancelled", "panicked"} : Drop(how))
         \/ Abort \/ JoinAborted \/ HandleHeld \/ HandleOutcome
         \/ UNCHANGED vars
BY DEF Next, BodyStep, TaskStep, HostStep, Settled

LEMMA InitInv == ASSUME Init PROVE IInv
<1> USE NamesAssumption, AuthorityAssumption
<1>1. TypeOK
  <2>1. cell \in [st : {"Unused", "Reserved", "Held", "Discharged"},
                  value : Authority \cup {NoValue, Output}]
    BY DEF Init
  <2>2. effect \in [Authority -> Effects]
    BY DEF Init, Effects
  <2>3. heard \in [held : BOOLEAN, outcome : Outcomes \cup {"none"}]
    BY DEF Init
  <2>4. holds \in 0 .. 1
    BY DEF Init
  <2>5. result \in Results
    BY DEF Init, Results
  <2> QED BY <2>1, <2>2, <2>3, <2>4, <2>5 DEF Init, TypeOK
<1>2. CellInv
  BY DEF Init, CellInv, Done
<1>3. OneAcquisition /\ OutcomeInv /\ MisuseIsReported
  BY DEF Init, OneAcquisition, Invoked, OutcomeInv, Unsent, Announced, MisuseIsReported
<1> QED BY <1>1, <1>2, <1>3 DEF IInv

(* A registration is the first: the cell it fills was not filled before.   *)
LEMMA TypeStep ==
  ASSUME TypeOK, CellInv, [Next]_vars
  PROVE  TypeOK'
<1> USE DEF TypeOK, cellVars, guardVars, hostVars
<1> DEFINE CellType == [st : {"Unused", "Reserved", "Held", "Discharged"},
                        value : Authority \cup {NoValue, Output}]
<1>1. ASSUME NEW a \in Authority, Hold(a) PROVE TypeOK'
  <2>1. cell' \in CellType /\ repeated' \in BOOLEAN
    BY <1>1 DEF Hold, Reserve, Vacant
  <2>2. effect' \in [Authority -> Effects]
    BY <1>1 DEF Hold, Effects
  <2> QED BY <1>1, <2>1, <2>2 DEF Hold
<1>2. ASSUME NEW a \in Authority, Complete(a) PROVE TypeOK'
  BY <1>2 DEF Complete, Effects
<1>3. ASSUME NEW a \in Authority, Fail(a) \/ Forget(a) PROVE TypeOK'
  BY <1>3 DEF Fail, Forget, Effects
<1>4. ASSUME NEW a \in Authority, HoldValue(a) PROVE TypeOK'
  <2>1. cell' \in CellType
    BY <1>4 DEF HoldValue, Reserve, Record, Vacant
  <2>4. repeated' \in BOOLEAN
    BY <1>4 DEF HoldValue, Reserve
  <2>2. effect' \in [Authority -> Effects] /\ result' \in Results
    BY <1>4 DEF HoldValue, Effects, Results
  <2>3. holds' \in 0 .. 1
    BY <1>4 DEF HoldValue, Record, Vacant, CellInv
  <2> QED BY <1>4, <2>1, <2>2, <2>3, <2>4 DEF HoldValue
<1>5. CASE Register
  <2>1. cell' \in CellType /\ holds' \in 0 .. 1
    BY <1>5 DEF Register, Record, CellInv
  <2> QED BY <1>5, <2>1 DEF Register
<1>6. CASE PutOutput
  <2>1. cell' \in CellType
    BY <1>6 DEF PutOutput
  <2>2. repeated' \in BOOLEAN
    BY <1>6 DEF PutOutput
  <2> QED BY <1>6, <2>1, <2>2 DEF PutOutput
<1>7. ASSUME NEW r \in Results, Return(r) PROVE TypeOK'
  BY <1>7 DEF Return
<1>8. CASE StartPoll
  BY <1>8 DEF StartPoll
<1>9. CASE Guard
  <2>1. effect' \in [Authority -> Effects]
    BY <1>9 DEF Guard, Effects
  <2>2. told' \in BOOLEAN
    BY <1>9 DEF Guard, Reports
  <2> QED BY <1>9, <2>1, <2>2 DEF Guard
<1>10. ASSUME NEW how \in {"cancelled", "panicked"}, Drop(how) PROVE TypeOK'
  <2>1. effect' \in [Authority -> Effects]
    BY <1>10 DEF Drop, Effects
  <2> QED BY <1>10, <2>1 DEF Drop
<1>11. CASE Abort
  BY <1>11 DEF Abort
<1>12. CASE JoinAborted
  BY <1>12 DEF JoinAborted
<1>13. CASE HandleHeld
  <2>1. heard' \in [held : BOOLEAN, outcome : Outcomes \cup {"none"}]
    BY <1>13 DEF HandleHeld
  <2> QED BY <1>13, <2>1 DEF HandleHeld
<1>14. CASE HandleOutcome
  BY <1>14 DEF HandleOutcome, TakeHeld
<1>15. CASE UNCHANGED vars
  BY <1>15 DEF vars
<1> QED
  BY StepCases, <1>1, <1>2, <1>3, <1>4, <1>5, <1>6, <1>7, <1>8, <1>9, <1>10, <1>11, <1>12,
     <1>13, <1>14, <1>15

(* Until a factory was started, or a value registered, the cell is unused, *)
(* so a vacant cell means that no other authority was used.                *)
LEMMA OneStep ==
  ASSUME TypeOK, CellInv, OneAcquisition, [Next]_vars
  PROVE  OneAcquisition'
<1> USE DEF TypeOK, OneAcquisition, Invoked, cellVars, guardVars, hostVars
<1>1. ASSUME NEW a \in Authority, Hold(a) PROVE OneAcquisition'
  BY <1>1 DEF Hold, Vacant, CellInv
<1>2. ASSUME NEW a \in Authority, Complete(a) PROVE OneAcquisition'
  BY <1>2 DEF Complete
<1>3. ASSUME NEW a \in Authority, Fail(a) \/ Forget(a) PROVE OneAcquisition'
  BY <1>3 DEF Fail, Forget
<1>4. ASSUME NEW a \in Authority, HoldValue(a) PROVE OneAcquisition'
  BY <1>4 DEF HoldValue, Vacant, CellInv
<1>5. CASE Guard
  BY <1>5 DEF Guard
<1>6. ASSUME NEW how \in {"cancelled", "panicked"}, Drop(how) PROVE OneAcquisition'
  BY <1>6 DEF Drop
<1>7. CASE UNCHANGED effect
  BY <1>7
<1> QED
  BY StepCases, <1>1, <1>2, <1>3, <1>4, <1>5, <1>6, <1>7
     DEF Register, PutOutput, Return, StartPoll, Abort, JoinAborted, HandleHeld, HandleOutcome,
         vars

(* The mailbox in the two situations the driver's loop can find.           *)
LEMMA OutcomeAtHead ==
  ASSUME TypeOK, OutcomeInv, mail # <<>>, Head(mail).ev \in Outcomes
  PROVE  /\ at = "over" /\ heard.outcome = "none" /\ joined \in {"done", "joined"}
         /\ \E o \in [ev : Outcomes, held : BOOLEAN] : True(o) /\ mail = <<o>>
<1>1. Held.ev \notin Outcomes
  BY DEF Held, Message, Outcomes
<1>2. mail # <<Held>> /\ \A o : mail # <<Held, o>>
  BY <1>1
<1>3. ~ Unsent
  BY <1>2 DEF Unsent
<1> QED BY <1>2, <1>3 DEF TypeOK, OutcomeInv, Sent

LEMMA CellStep ==
  ASSUME IInv, [Next]_vars
  PROVE  CellInv'
<1> USE NamesAssumption DEF cellVars, guardVars, hostVars, Done
<1>1. ASSUME NEW a \in Authority, Hold(a) PROVE CellInv'
  BY <1>1 DEF Hold, Reserve, Vacant, Polled, IInv, CellInv, TypeOK
<1>2. ASSUME NEW a \in Authority, Complete(a) PROVE CellInv'
  BY <1>2 DEF Complete, Polled, IInv, CellInv, TypeOK, OneAcquisition, Invoked
<1>3. ASSUME NEW a \in Authority, Fail(a) \/ Forget(a) PROVE CellInv'
  BY <1>3 DEF Fail, Forget, Polled, IInv, CellInv, TypeOK
<1>4. ASSUME NEW a \in Authority, HoldValue(a) PROVE CellInv'
  BY <1>4 DEF HoldValue, Record, Reserve, Vacant, Polled, IInv, CellInv, OutcomeInv, TypeOK
<1>5. CASE Register
  BY <1>5 DEF Register, Record, IInv, CellInv, OutcomeInv, TypeOK, OneAcquisition, Invoked
<1>6. CASE PutOutput
  BY <1>6 DEF PutOutput, Vacant, Polled, IInv, CellInv, TypeOK
<1>7. ASSUME NEW r \in Results, Return(r) PROVE CellInv'
  BY <1>7 DEF Return, Polled, IInv, CellInv
<1>8. CASE StartPoll
  BY <1>8 DEF StartPoll, IInv, CellInv
<1>9. CASE Guard
  BY <1>9 DEF Guard, IInv, CellInv, TypeOK
<1>10. ASSUME NEW how \in {"cancelled", "panicked"}, Drop(how) PROVE CellInv'
  BY <1>10 DEF Drop, IInv, CellInv, TypeOK
<1>11. CASE HandleHeld
  BY <1>11 DEF HandleHeld, IInv, CellInv, TypeOK
<1>12. CASE HandleOutcome
  <2>1. at = "over" /\ heard.outcome = "none" /\ Head(mail).ev # "none"
    BY <1>12, OutcomeAtHead DEF HandleOutcome, IInv, Outcomes
  <2> QED BY <1>12, <2>1 DEF HandleOutcome, TakeHeld, IInv, CellInv, TypeOK
<1>13. CASE UNCHANGED <<cellVars, effect, at, acting, slot, heard>>
  BY <1>13 DEF IInv, CellInv
<1> QED
  BY StepCases, <1>1, <1>2, <1>3, <1>4, <1>5, <1>6, <1>7, <1>8, <1>9, <1>10, <1>11, <1>12, <1>13
     DEF Abort, JoinAborted, vars

LEMMA MisuseStep ==
  ASSUME IInv, [Next]_vars
  PROVE  MisuseIsReported'
<1> USE DEF cellVars, guardVars, hostVars
<1>1. CASE HandleOutcome
  <2>1. PICK o \in [ev : Outcomes, held : BOOLEAN] : True(o) /\ mail = <<o>>
    BY <1>1, OutcomeAtHead DEF HandleOutcome, IInv
  <2>2. heard'.outcome = o.ev /\ repeated' = repeated
    BY <1>1, <2>1 DEF HandleOutcome
  <2>3. o.ev \in Outcomes
    OBVIOUS
  <2> QED BY <2>1, <2>2, <2>3 DEF True, Outcomes, MisuseIsReported
<1>2. CASE heard'.outcome = heard.outcome /\ (repeated' = repeated \/ at # "over")
  BY <1>2 DEF IInv, OutcomeInv, MisuseIsReported
<1> QED
  BY StepCases, <1>1, <1>2
     DEF Hold, Complete, Fail, Forget, HoldValue, Register, PutOutput, Return, StartPoll, Guard,
         Drop, Abort, JoinAborted, HandleHeld, Polled, vars, IInv, TypeOK

LEMMA Joined ==
  ASSUME NEW x, NEW y
  PROVE  /\ <<>> \o <<>> = <<>> /\ <<>> \o <<x>> = <<x>>
         /\ <<x>> \o <<>> = <<x>> /\ <<x>> \o <<y>> = <<x, y>>
         /\ Append(<<>>, x) = <<x>> /\ Append(<<x>>, y) = <<x, y>>
<1>1. <<>> \o <<>> = <<>>
  OBVIOUS
<1>2. <<>> \o <<x>> = <<x>>
  OBVIOUS
<1>3. <<x>> \o <<>> = <<x>>
  OBVIOUS
<1>4. <<x>> \o <<y>> = <<x, y>>
  <2>1. <<x>> \in Seq({x, y}) /\ <<y>> \in Seq({x, y}) /\ <<x, y>> \in Seq({x, y})
    OBVIOUS
  <2>2. <<x>> \o <<y>> \in Seq({x, y}) /\ Len(<<x>> \o <<y>>) = 2
    BY <2>1, ConcatProperties
  <2>3. \A i \in 1 .. 2 : (<<x>> \o <<y>>)[i] = <<x, y>>[i]
    BY <2>1, ConcatProperties
  <2> QED BY <2>1, <2>2, <2>3, SeqEqual
<1>5. Append(<<>>, x) = <<x>>
  OBVIOUS
<1>6. Append(<<x>>, y) = <<x, y>>
  <2>1. <<x>> \in Seq({x, y}) /\ y \in {x, y}
    OBVIOUS
  <2> QED BY <1>4, <2>1, AppendIsConcat
<1> QED BY <1>1, <1>2, <1>3, <1>4, <1>5, <1>6

LEMMA Taken ==
  ASSUME NEW x, NEW y
  PROVE  /\ Head(<<x>>) = x /\ Tail(<<x>>) = <<>>
         /\ Head(<<x, y>>) = x /\ Tail(<<x, y>>) = <<y>>
<1>1. Head(<<x>>) = x /\ Head(<<x, y>>) = x
  OBVIOUS
<1>2. Tail(<<x>>) = <<>>
  OBVIOUS
<1>3. Tail(<<x, y>>) = <<y>>
  OBVIOUS
<1> QED BY <1>1, <1>2, <1>3

LEMMA OutcomeStep ==
  ASSUME IInv, [Next]_vars
  PROVE  OutcomeInv'
<1> USE DEF cellVars, guardVars, hostVars
<1> DEFINE Body == /\ at # "over" /\ at' # "over" /\ UNCHANGED <<told, joined, mail, heard>>
                   /\ holds' >= holds
<1>1. CASE Body
  BY <1>1, TypeStep DEF IInv, OutcomeInv, Unsent, Announced, TypeOK
<1>2. CASE Guard
  <2> DEFINE news == IF Reports THEN <<Held>> ELSE <<>>
  <2>1. /\ at # "over" /\ Unsent /\ heard.outcome = "none" /\ joined = "none"
        /\ told' = (told \/ Reports) /\ UNCHANGED <<holds, repeated, heard>>
    BY <1>2 DEF Guard, IInv, OutcomeInv
  <2>2. mail \o news = IF Announced \/ Reports THEN <<Held>> ELSE <<>>
    <3>1. CASE Announced
      <4>1. mail = <<Held>> /\ news = <<>>
        BY <2>1, <3>1 DEF Reports, Unsent, Announced, IInv, OutcomeInv
      <4> QED BY <3>1, <4>1, Joined
    <3>2. CASE ~ Announced
      <4>1. mail = <<>>
        BY <2>1, <3>2 DEF Unsent, Announced
      <4> QED BY <3>2, <4>1, Joined
    <3> QED BY <3>1, <3>2
  <2>3. holds > 0 <=> told'
    BY <2>1 DEF Reports, IInv, OutcomeInv
  <2>4. CASE result = "pending"
    <3>1. mail' = mail \o news /\ at' = "idle" /\ joined' = joined
      BY <1>2, <2>4 DEF Guard, Held
    <3>2. mail' = IF Announced \/ Reports THEN <<Held>> ELSE <<>>
      BY <2>2, <3>1
    <3>3. Unsent' /\ (Announced' <=> Announced \/ Reports)
      BY <3>2 DEF Unsent, Announced
    <3> QED BY <2>1, <2>3, <3>1, <3>3 DEF OutcomeInv, IInv
  <2>5. CASE result # "pending"
    <3>1. PICK o : o = Message(OutcomeEvent, FALSE)
      OBVIOUS
    <3>2. mail' = (mail \o news) \o <<o>> /\ at' = "over" /\ joined' = "done"
      BY <1>2, <2>5, <3>1 DEF Guard, Held
    <3>3. o \in [ev : Outcomes, held : BOOLEAN] /\ True(o)'
      BY <2>1, <2>3, <3>1 DEF True, Message, OutcomeEvent, Outcomes
    <3>4. mail' = IF Announced \/ Reports THEN <<Held, o>> ELSE <<o>>
      BY <2>2, <3>2, Joined
    <3>5. o # Held
      BY <3>3 DEF Held, Message, Outcomes
    <3>6. Announced' <=> Announced \/ Reports
      BY <3>4, <3>5 DEF Announced
    <3>7. Sent'
      BY <3>3, <3>4 DEF Sent
    <3> QED BY <2>1, <2>3, <3>2, <3>6, <3>7 DEF OutcomeInv, IInv
  <2> QED BY <2>4, <2>5
<1>3. ASSUME NEW how \in {"cancelled", "panicked"}, Drop(how) PROVE OutcomeInv'
  BY <1>3 DEF Drop, IInv, OutcomeInv, Unsent, Announced
<1>4. CASE JoinAborted
  <2> DEFINE o == Message("Cancelled", holds > 0)
  <2>1. CASE joined = "done"
    BY <1>4, <2>1 DEF JoinAborted, ReportsJoin, IInv, OutcomeInv, Announced, Sent, True
  <2>2. CASE joined \in {"cancelled", "panicked"}
    <3>1. /\ mail' = Append(mail, o) /\ Unsent /\ heard.outcome = "none"
          /\ at = "over" /\ at' = "over" /\ joined' = "joined"
          /\ UNCHANGED <<holds, repeated, told, heard>>
      BY <1>4, <2>2 DEF JoinAborted, ReportsJoin, IInv, OutcomeInv
    <3>2. o \in [ev : Outcomes, held : BOOLEAN] /\ True(o)'
      <4>1. (holds > 0) \in BOOLEAN
        OBVIOUS
      <4>2. o \in [ev : Outcomes, held : BOOLEAN] /\ o.ev = "Cancelled" /\ o.held = (holds > 0)
        BY <4>1 DEF Message, Outcomes
      <4> QED BY <3>1, <4>2 DEF True
    <3>3. mail' = IF Announced THEN <<Held, o>> ELSE <<o>>
      BY <3>1, Joined DEF Unsent, Announced
    <3>4. Announced' <=> Announced
      BY <3>3 DEF Announced, Held, Message
    <3> QED BY <3>1, <3>2, <3>3, <3>4 DEF OutcomeInv, Sent, IInv
  <2> QED BY <1>4, <2>1, <2>2 DEF JoinAborted
<1>5. CASE HandleHeld
  <2>1. /\ UNCHANGED <<holds, repeated, told, at, joined>> /\ mail # <<>> /\ mail' = Tail(mail)
        /\ heard'.held /\ heard'.outcome = heard.outcome
    BY <1>5 DEF HandleHeld, IInv, TypeOK
  <2>2. \A o \in [ev : Outcomes, held : BOOLEAN] : mail # <<o>>
    BY <1>5 DEF HandleHeld, Outcomes
  <2>3. CASE mail = <<Held>>
    <3>1. mail' = <<>> /\ Announced
      BY <2>1, <2>3, Taken DEF Announced
    <3>2. at # "over" \/ joined \in {"cancelled", "panicked"}
      BY <2>1, <2>3 DEF IInv, OutcomeInv, Sent, Held, Message, Outcomes, TypeOK
    <3> QED BY <2>1, <3>1, <3>2 DEF IInv, OutcomeInv, Unsent, Announced
  <2>4. CASE mail # <<Held>>
    <3>1. Sent /\ heard.outcome = "none" /\ at = "over" /\ joined \in {"done", "joined"}
      BY <2>1, <2>4 DEF IInv, OutcomeInv, Unsent, TypeOK
    <3>2. PICK o \in [ev : Outcomes, held : BOOLEAN] : True(o) /\ mail = <<Held, o>>
      BY <2>2, <3>1 DEF Sent
    <3>3. mail' = <<o>> /\ Announced /\ o # Held
      BY <2>1, <3>2, Taken DEF Announced, Held, Message, Outcomes
    <3>4. True(o)' /\ ~ Announced'
      BY <2>1, <3>2, <3>3 DEF True, Announced
    <3> QED BY <2>1, <3>1, <3>3, <3>4 DEF IInv, OutcomeInv, Sent
  <2> QED BY <2>3, <2>4
<1>6. CASE HandleOutcome
  <2>1. PICK o \in [ev : Outcomes, held : BOOLEAN] : True(o) /\ mail = <<o>>
    BY <1>6, OutcomeAtHead DEF HandleOutcome, IInv
  <2>2. at = "over" /\ heard.outcome = "none" /\ joined \in {"done", "joined"}
    BY <1>6, OutcomeAtHead DEF HandleOutcome, IInv
  <2>3. mail' = <<>> /\ heard'.outcome # "none" /\ (heard'.held <=> heard.held \/ o.held)
    BY <1>6, <2>1, Taken DEF HandleOutcome, Outcomes
  <2>4. o # Held
    BY DEF Held, Message, Outcomes
  <2>5. UNCHANGED <<holds, told, at, joined>>
    BY <1>6 DEF HandleOutcome
  <2> QED BY <2>1, <2>2, <2>3, <2>4, <2>5 DEF IInv, OutcomeInv, Announced, True
<1>7. CASE UNCHANGED <<at, holds, repeated, told, joined, mail, heard>>
  BY <1>7 DEF IInv, OutcomeInv, Unsent, Announced, Sent, True
<1>8. ASSUME NEW a \in Authority, Hold(a) \/ Complete(a) \/ Fail(a) \/ Forget(a) \/ HoldValue(a)
      PROVE  Body
  BY <1>8 DEF Hold, Complete, Fail, Forget, HoldValue, Record, Polled, IInv, TypeOK
<1>9. Register \/ PutOutput \/ (\E r \in Results : Return(r)) \/ StartPoll => Body
  BY DEF Register, Record, PutOutput, Return, StartPoll, Polled, IInv, TypeOK
<1> QED
  BY StepCases, <1>1, <1>2, <1>3, <1>4, <1>5, <1>6, <1>7, <1>8, <1>9 DEF Abort, vars

-----------------------------------------------------------------------------
(* The theorems, for every set of authorities.                             *)

LEMMA Invariance == Spec => []IInv
<1>1. Init => IInv
  BY InitInv
<1>2. IInv /\ [Next]_vars => IInv'
  BY TypeStep, OneStep, CellStep, MisuseStep, OutcomeStep DEF IInv
<1> QED BY <1>1, <1>2, PTL DEF Spec

(* Every reachable state has its declared type.                            *)
THEOREM TypeCorrect == Spec => []TypeOK
BY Invariance, PTL DEF IInv

(* Wherever an abort may land, a completed effect is in the cell or in its *)
(* slot, so that a release will find it (cx/acquisition.rs, Hold::poll).   *)
THEOREM EffectsAreOwned == Spec => []NothingUnowned
<1>1. ASSUME IInv, at # "completing", NEW a \in Done
      PROVE  cell.value = a \/ slot = a
  <2>1. cell = [st |-> "Held", value |-> a] \/ slot = a
    BY <1>1 DEF IInv, CellInv
  <2> QED BY <2>1
<1>2. IInv => NothingUnowned
  BY <1>1 DEF NothingUnowned
<1> QED BY <1>2, Invariance, PTL

(* One attempt runs one factory, however many authorities it is given      *)
(* (cx.rs, Registration::reserve).                                         *)
THEOREM OneFactory == Spec => []OneAcquisition
BY Invariance, PTL DEF IInv

(* The engine knows of a registration, and the value is stored, when it    *)
(* hears the outcome (sdax-tokio body.rs, Guarded::poll; driver.rs,        *)
(* settled).                                                               *)
THEOREM OutcomesComeLast == Spec => []OutcomeComesLast
<1>1. IInv => OutcomeComesLast
  BY DEF IInv, CellInv, OutcomeInv, OutcomeComesLast
<1> QED BY <1>1, Invariance, PTL

(* An attempt that registered twice is told as misuse, and as neither a    *)
(* success nor an error of its body, unless it panicked or was dropped     *)
(* (sdax-tokio body.rs, outcome_event; an aborted task is joined).         *)
THEOREM MisuseIsTold == Spec => []MisuseIsReported
BY Invariance, PTL DEF IInv
=============================================================================
