-------------------------- MODULE RunControlProofs --------------------------
(***************************************************************************)
(* Theorems about what the callers of a run are told, for every number of  *)
(* instances, requests and events.  Three groups of facts are inductive,   *)
(* each by itself given the types: what the latches were set from, what    *)
(* was asked before the first poll, and where the input of an instance is  *)
(* on its way from the body to the engine.                                 *)
(***************************************************************************)
EXTENDS RunControlProperties, SequenceTheorems, FiniteSetTheorems, TLAPS

Past ==
  [steady : BOOLEAN, ready : SUBSET Id, missing : SUBSET Id, early : BOOLEAN,
   effects : BOOLEAN]

Thread ==
  [at : {"none", "free", "checked", "entered", "stored", "ForeignTemplate",
         "ScopeStopping", "gone"},
   id : Nat, aborted : BOOLEAN]

Spawning == thread.at \in {"entered", "stored"}

TypeInv ==
  /\ user \in {"Idle", "Live", "Done", "Dropped"}
  /\ engine \in Engine /\ driver \in Driver /\ mail \in Seq(Message)
  /\ table \in {"default", "open", "closed"}
  /\ latch \in {"none", "Ready"} \cup Outcomes /\ channel \in {"none"} \cup Outcomes
  /\ thread \in Thread /\ (Spawning => thread.id \in Id)
  /\ word \in [Id -> {"none", "Ready", "Failed"}] /\ inputs \in SUBSET Id
  /\ count \in [requests : Nat, events : Nat, ids : Nat]
  /\ thread.at = "checked" => count.ids < Cardinality(Id)
  /\ past \in Past

(* What the latches were set from is remembered, and the report is sent    *)
(* after the readiness latch was set from the same outcome.                *)
LatchInv ==
  /\ engine.run = "Steady" => past.steady
  /\ engine.run = "Ended" => engine.outcome \in Outcomes
  /\ At("finish") \/ At("report") => engine.run = "Ended"
  /\ At("report") => latch # "none" /\ (latch # "Ready" => latch = engine.outcome)
  /\ ~ At("gone") => channel = "none"
  /\ driver.answers \subseteq past.ready
  /\ \A i \in Id : engine.inst[i] = "Steady" => i \in past.ready
  /\ ReadyIsTrue

(* Until the machine has taken its first step nothing has happened, and a  *)
(* request that came before the first poll is still ahead of the ship      *)
(* boundary.                                                               *)
RequestInv ==
  /\ user = "Idle" => At("unborn")
  /\ At("unborn") => user \in {"Idle", "Dropped"}
  /\ At("unborn") \/ At("boot") => engine.run = "Planned" /\ ~ past.early
  /\ engine.run = "Planned" =>
       ~ past.effects /\ (At("unborn") \/ At("boot") \/ At("idle") \/ At("gone"))
  /\ engine.run = "Planned" /\ At("idle") /\ past.early => driver.backlog > 0
  /\ NothingUnasked

IsSpawned(k, i) == k \in DOMAIN mail /\ mail[k].msg = "Spawned" /\ mail[k].id = i

(* Every instance is announced once, and its input stays where the engine  *)
(* takes it from until then: announced, or just recorded by the engine.    *)
InputInv ==
  /\ \A i \in Id : \A k \in DOMAIN mail : IsSpawned(k, i) =>
       /\ i \in inputs /\ i <= count.ids
       /\ ~ (Spawning /\ thread.id = i)
       /\ \A j \in DOMAIN mail : IsSpawned(j, i) => j = k
  /\ \A k \in DOMAIN driver.todo : driver.todo[k].fx = "SpawnInstance" =>
       LET i == driver.todo[k].id IN
       /\ k = 1 /\ i \in inputs /\ i <= count.ids
       /\ ~ (Spawning /\ thread.id = i)
       /\ \A j \in DOMAIN mail : ~ IsSpawned(j, i)
  /\ Spawning => thread.id <= count.ids
  /\ thread.at = "stored" => thread.id \in inputs
  /\ InputsArrive

-----------------------------------------------------------------------------
(* The mailbox and the effects as sequences.                               *)

LEMMA Appended ==
  ASSUME mail \in Seq(Message), NEW m \in Message, Send(m)
  PROVE  /\ mail' \in Seq(Message)
         /\ mail # <<>> => mail' # <<>>
         /\ ~ At("gone") => mail' # <<>>
         /\ \A k \in DOMAIN mail : k \in DOMAIN mail' /\ mail'[k] = mail[k]
         /\ \A k \in DOMAIN mail' : k \in DOMAIN mail \/ mail'[k] = m
         /\ \A j, k \in DOMAIN mail' : j \in DOMAIN mail \/ k \in DOMAIN mail \/ j = k
BY DEF Send

LEMMA Received ==
  ASSUME NEW S, NEW s \in Seq(S), s # <<>>
  PROVE  /\ Tail(s) \in Seq(S) /\ 1 \in DOMAIN s /\ Head(s) = s[1] /\ s[1] \in S
         /\ \A k \in DOMAIN Tail(s) :
              k \in Nat /\ k + 1 \in DOMAIN s /\ k + 1 # 1 /\ Tail(s)[k] = s[k + 1]
OBVIOUS

LEMMA Perhaps ==
  ASSUME NEW S, NEW x \in S, NEW p \in BOOLEAN
  PROVE  LET s == IF p THEN <<x>> ELSE <<>>
         IN s \in Seq(S) /\ \A k \in DOMAIN s : s[k] = x
<1>1. <<x>> \in Seq(S) /\ \A k \in DOMAIN <<x>> : <<x>>[k] = x
  OBVIOUS
<1>2. <<>> \in Seq(S) /\ \A k \in DOMAIN <<>> : <<>>[k] = x
  OBVIOUS
<1> QED BY <1>1, <1>2

(* What the engine asks for begins with the instances just recorded.       *)
Starts(s, spawned) ==
  /\ s \in Seq(Effect)
  /\ \A k \in DOMAIN s : s[k].fx = "SpawnInstance" =>
       k \in DOMAIN spawned /\ s[k].id = spawned[k]

LEMMA StartsConcat ==
  ASSUME NEW spawned \in Seq(Id), NEW s, Starts(s, spawned), NEW t \in Seq(Effect),
         \A k \in DOMAIN t : t[k].fx # "SpawnInstance"
  PROVE  Starts(s \o t, spawned)
<1>1. s \in Seq(Effect) /\ s \o t \in Seq(Effect)
  BY DEF Starts
<1>2. ASSUME NEW k \in DOMAIN (s \o t), (s \o t)[k].fx = "SpawnInstance"
      PROVE  k \in DOMAIN spawned /\ (s \o t)[k].id = spawned[k]
  <2>1. k \in 1 .. (Len(s) + Len(t))
    BY <1>1
  <2>2. CASE k <= Len(s)
    BY <1>1, <1>2, <2>1, <2>2 DEF Starts
  <2>3. CASE k > Len(s)
    <3>1. (s \o t)[k] = t[k - Len(s)] /\ k - Len(s) \in DOMAIN t
      BY <1>1, <2>1, <2>3
    <3> QED BY <1>2, <3>1
  <2> QED BY <1>1, <2>1, <2>2, <2>3
<1> QED BY <1>1, <1>2 DEF Starts

LEMMA EffectsStart ==
  ASSUME NEW spawned \in Seq(Id), NEW endings \in Seq(Id), NEW bodies \in BOOLEAN,
         NEW aborts \in BOOLEAN, NEW out \in Outcomes \cup {"none"}
  PROVE  Starts(Effects(spawned, bodies, aborts, endings, out), spawned)
<1> DEFINE a == [i \in 1 .. Len(spawned) |-> [fx |-> "SpawnInstance", id |-> spawned[i]]]
           b == IF bodies THEN <<[fx |-> "Spawn"]>> ELSE <<>>
           c == IF aborts THEN <<[fx |-> "Abort"]>> ELSE <<>>
           d == [i \in 1 .. Len(endings) |-> [fx |-> "InstanceEnded", id |-> endings[i]]]
           e == IF out # "none" THEN <<[fx |-> "End", outcome |-> out]>> ELSE <<>>
           Plain(t) == t \in Seq(Effect) /\ \A k \in DOMAIN t : t[k].fx # "SpawnInstance"
<1>1. Starts(a, spawned)
  BY DEF Starts, Effect
<1>2. Plain(b) /\ Plain(c) /\ Plain(d) /\ Plain(e)
  <2>1. Plain(b)
    <3>1. [fx |-> "Spawn"] \in Effect
      BY DEF Effect
    <3> QED BY <3>1, Perhaps
  <2>2. Plain(c)
    <3>1. [fx |-> "Abort"] \in Effect
      BY DEF Effect
    <3> QED BY <3>1, Perhaps
  <2>3. Plain(d)
    BY DEF Effect
  <2>4. Plain(e)
    <3>1. CASE out # "none"
      <4>1. [fx |-> "End", outcome |-> out] \in Effect
        BY <3>1 DEF Effect
      <4> QED BY <3>1, <4>1, Perhaps
    <3>2. CASE out = "none"
      BY <3>2
    <3> QED BY <3>1, <3>2
  <2> QED BY <2>1, <2>2, <2>3, <2>4
<1>3. Effects(spawned, bodies, aborts, endings, out) = (((a \o b) \o c) \o d) \o e
  BY DEF Effects
<1> HIDE DEF a, b, c, d, e
<1>4. Starts(a \o b, spawned)
  BY <1>1, <1>2, StartsConcat
<1>5. Starts((a \o b) \o c, spawned)
  BY <1>2, <1>4, StartsConcat
<1>6. Starts(((a \o b) \o c) \o d, spawned)
  BY <1>2, <1>5, StartsConcat
<1> QED BY <1>2, <1>3, <1>6, StartsConcat

-----------------------------------------------------------------------------
(* One step of the engine.                                                 *)

LEMMA DriverTyped ==
  ASSUME driver \in Driver
  PROVE  /\ driver.at \in {"unborn", "boot", "idle", "perform", "table", "resolve", "wake",
                           "finish", "report", "gone"}
         /\ driver.backlog \in Nat /\ driver.begun \in BOOLEAN
         /\ driver.answers \in SUBSET Id /\ driver.todo \in Seq(Effect)
BY DEF Driver

LEMMA OrderTyped ==
  ASSUME NEW S \in SUBSET Id, NEW o \in Orders(S)
  PROVE  o \in Seq(Id)
<1>1. IsFiniteSet(S)
  BY IdAssumption, FS_Subset
<1>2. Cardinality(S) \in Nat
  BY <1>1, FS_CardinalityType
<1>3. o \in [1 .. Cardinality(S) -> S]
  BY DEF Orders
<1>4. o \in Seq(S)
  BY <1>2, <1>3
<1> QED BY <1>4

(* What one step of the engine leaves behind, in which the instances of    *)
(* the sequence spawned were recorded.                                     *)
Stepped(spawned) ==
  /\ engine' \in Engine /\ driver' \in Driver /\ past' \in Past
  /\ driver'.at = "perform" /\ driver'.answers = driver.answers
  /\ engine'.run # "Planned" /\ Starts(driver'.todo, spawned)
  /\ engine'.run = "Steady" => past'.steady
  /\ engine'.run = "Ended" => engine'.outcome \in Outcomes
  /\ \A i \in Id : engine'.inst[i] = "Steady" => i \in past'.ready
  /\ past.steady => past'.steady
  /\ past.ready \subseteq past'.ready /\ past'.missing = past.missing
  /\ past'.early = past.early /\ past'.effects = past.effects

LEMMA StepsStepped ==
  ASSUME TypeInv, NEW e \in Engine, e.run # "Planned", NEW spawned \in Seq(Id),
         Steps(e, spawned)
  PROVE  Stepped(spawned)
<1> PICK run \in After(e.run),
         inst \in [Id -> {"none", "Admitting", "Steady", "Settling", "Ended"}],
         out \in Outcomes, bodies \in BOOLEAN, aborts \in BOOLEAN, abandons \in BOOLEAN :
       LET flight == (e.flight \/ bodies) /\ ~ abandons
           ended  == {i \in Id : inst[i] = "Ended" /\ e.inst[i] # "Ended"}
       IN
       /\ \A i \in Id : inst[i] \in After(e.inst[i])
       /\ \A i \in Id : inst[i] \in Admitting => run \in Admitting
       /\ run = "Ended" => ~ flight /\ \A i \in Id : ~ Live(inst[i])
       /\ bodies => run \in Admitting /\ thread.at = "none"
       /\ abandons => e.flight /\ aborts /\ run \notin Admitting
       /\ aborts => e.flight
       /\ engine' = [run |-> run, inst |-> inst, flight |-> flight,
                     outcome |-> IF run = "Ended" THEN out ELSE "none"]
       /\ \E endings \in Orders(ended) :
            driver' = [driver EXCEPT
              !.at = "perform",
              !.todo = Effects(spawned, bodies, aborts, endings,
                               IF run = "Ended" THEN out ELSE "none")]
       /\ past' = [past EXCEPT !.steady = @ \/ run = "Steady",
                               !.ready = @ \cup {i \in Id : inst[i] = "Steady"}]
  BY DEF Steps
<1> DEFINE ended == {i \in Id : inst[i] = "Ended" /\ e.inst[i] # "Ended"}
<1>1. PICK endings \in Orders(ended) :
        driver' = [driver EXCEPT
          !.at = "perform",
          !.todo = Effects(spawned, bodies, aborts, endings,
                           IF run = "Ended" THEN out ELSE "none")]
  OBVIOUS
<1> DEFINE todo == Effects(spawned, bodies, aborts, endings,
                           IF run = "Ended" THEN out ELSE "none")
<1>2. endings \in Seq(Id)
  BY OrderTyped
<1>3. Starts(todo, spawned)
  BY <1>2, EffectsStart DEF Outcomes
<1>4. todo \in Seq(Effect)
  BY <1>3 DEF Starts
<1>5. driver' = [driver EXCEPT !.at = "perform", !.todo = todo]
  BY <1>1
<1> HIDE DEF todo, ended
<1>6. /\ driver' \in Driver /\ driver'.at = "perform" /\ driver'.answers = driver.answers
      /\ driver'.todo = todo
  BY <1>4, <1>5 DEF TypeInv, Driver
<1>7. run \in {"Admitting", "Steady", "Settling", "Ended"}
  BY DEF After, Admitting, Engine
<1>8. /\ engine' \in Engine /\ engine'.run = run /\ engine'.inst = inst
      /\ engine'.run = "Ended" => engine'.outcome \in Outcomes
  BY <1>7 DEF Engine, Outcomes
<1>9. /\ past' \in Past /\ past'.steady = (past.steady \/ run = "Steady")
      /\ past'.ready = past.ready \cup {i \in Id : inst[i] = "Steady"}
      /\ past'.missing = past.missing /\ past'.early = past.early
      /\ past'.effects = past.effects
  BY DEF TypeInv, Past
<1> QED BY <1>3, <1>6, <1>7, <1>8, <1>9 DEF Stepped

LEMMA EndsStepped ==
  ASSUME TypeInv, LatchInv, EndsUnstarted
  PROVE  Stepped(<<>>)
<1>1. <<>> \in Seq(Id)
  OBVIOUS
<1> DEFINE todo == Effects(<<>>, FALSE, FALSE, <<>>, "Cancelled")
<1>2. Starts(todo, <<>>)
  BY <1>1, EffectsStart DEF Outcomes
<1>3. todo \in Seq(Effect)
  BY <1>2 DEF Starts
<1>4. driver' = [driver EXCEPT !.at = "perform", !.todo = todo]
  BY DEF EndsUnstarted
<1> HIDE DEF todo
<1>5. /\ driver' \in Driver /\ driver'.at = "perform" /\ driver'.answers = driver.answers
      /\ driver'.todo = todo
  BY <1>3, <1>4 DEF TypeInv, Driver
<1>6. /\ engine' \in Engine /\ engine'.run = "Ended" /\ engine'.inst = engine.inst
      /\ engine'.outcome \in Outcomes
  BY DEF EndsUnstarted, TypeInv, Engine, Outcomes
<1>7. past' = past /\ past \in Past
  BY DEF EndsUnstarted, TypeInv
<1> QED BY <1>2, <1>5, <1>6, <1>7 DEF Stepped, LatchInv

(* The instance a message announces is the one the step records.           *)
LEMMA ReactStepped ==
  ASSUME TypeInv, LatchInv, NEW m \in Message, React(m)
  PROVE  \E spawned \in Seq(Id) :
           /\ Stepped(spawned)
           /\ spawned = <<>> \/ (m.msg = "Spawned" /\ spawned = <<m.id>>)
<1>0. <<>> \in Seq(Id)
  OBVIOUS
<1>1. CASE engine.run = "Planned"
  <2>1. EndsUnstarted
    BY <1>1 DEF React
  <2> QED BY <1>0, <2>1, EndsStepped
<1>2. CASE engine.run # "Planned" /\ m.msg = "Spawned"
  <2>1. m.id \in Id
    BY <1>2 DEF Message
  <2>2. Recorded(m.id) \in Engine /\ Recorded(m.id).run # "Planned"
    BY <1>2, <2>1 DEF Recorded, TypeInv, Engine
  <2>3. <<m.id>> \in Seq(Id) /\ Steps(Recorded(m.id), <<m.id>>)
    BY <1>2, <2>1 DEF React
  <2> QED BY <1>2, <2>2, <2>3, StepsStepped
<1>3. CASE engine.run # "Planned" /\ m.msg = "Body"
  <2> DEFINE e == [engine EXCEPT !.flight = FALSE]
  <2>1. e \in Engine /\ e.run # "Planned"
    BY <1>3 DEF TypeInv, Engine
  <2>2. Steps(e, <<>>)
    BY <1>3 DEF React
  <2> QED BY <1>0, <2>1, <2>2, StepsStepped
<1>4. CASE engine.run # "Planned" /\ m.msg \notin {"Spawned", "Body"}
  <2>1. engine \in Engine /\ Steps(engine, <<>>)
    BY <1>4 DEF React, TypeInv
  <2> QED BY <1>0, <1>4, <2>1, StepsStepped
<1> QED BY <1>1, <1>2, <1>3, <1>4

-----------------------------------------------------------------------------
(* The types.                                                              *)

LEMMA HeadTyped ==
  ASSUME TypeInv, Receive
  PROVE  /\ Head(mail) \in Message /\ React(Head(mail)) /\ mail' = Tail(mail)
         /\ mail # <<>> /\ mail' \in Seq(Message)
BY Received DEF TypeInv, Receive

LEMMA DriverTypes ==
  ASSUME TypeInv, LatchInv, DriverStep
  PROVE  TypeInv'
<1>1. CASE FirstPoll
  <2>1. Len(mail) \in Nat
    BY DEF TypeInv
  <2>2. driver' \in Driver
    BY <1>1, <2>1 DEF FirstPoll, TypeInv, Driver
  <2>3. past' \in Past
    BY <1>1 DEF FirstPoll, TypeInv, Past
  <2> QED BY <1>1, <2>2, <2>3 DEF FirstPoll, TypeInv, Spawning
<1>2. CASE BeginRun
  <2>1. PICK bodies \in BOOLEAN, run \in Admitting :
       /\ engine' = [engine EXCEPT !.run = run, !.flight = bodies]
       /\ driver' = [driver EXCEPT !.at = "perform", !.begun = TRUE,
                                   !.todo = Effects(<<>>, bodies, FALSE, <<>>, "none")]
       /\ past' = [past EXCEPT !.steady = @ \/ run = "Steady", !.effects = TRUE]
    BY <1>2 DEF BeginRun
  <2> DEFINE todo == Effects(<<>>, bodies, FALSE, <<>>, "none")
  <2>2. <<>> \in Seq(Id)
    OBVIOUS
  <2>3. todo \in Seq(Effect)
    BY <2>2, EffectsStart DEF Starts
  <2>4. driver' = [driver EXCEPT !.at = "perform", !.begun = TRUE, !.todo = todo]
    BY <2>1
  <2> HIDE DEF todo
  <2>5. driver' \in Driver
    BY <2>3, <2>4 DEF TypeInv, Driver
  <2>6. engine' \in Engine
    BY <2>1 DEF TypeInv, Engine, Admitting
  <2>7. past' \in Past
    BY <2>1 DEF TypeInv, Past
  <2> QED BY <1>2, <2>5, <2>6, <2>7 DEF BeginRun, TypeInv, Spawning
<1>3. CASE Receive
  <2>1. engine' \in Engine /\ driver' \in Driver /\ past' \in Past
    BY <1>3, HeadTyped, ReactStepped DEF Stepped
  <2> QED BY <1>3, <2>1, HeadTyped DEF Receive, TypeInv, Spawning
<1>4. CASE Perform
  <2>1. driver.todo \in Seq(Effect) /\ Tail(driver.todo) \in Seq(Effect)
    BY <1>4, DriverTyped, Received DEF Perform, TypeInv
  <2>2. driver' \in Driver
    BY <1>4, <2>1 DEF Perform, TypeInv, Driver
  <2>3. Head(driver.todo) \in Effect
    BY <1>4, <2>1, Received DEF Perform
  <2> DEFINE e == Head(driver.todo)
  <2>4. thread' \in Thread /\ (Spawning' => thread'.id \in Id)
    BY <1>4 DEF Perform, TypeInv, Thread, Spawning
  <2>5. inputs' \in SUBSET Id /\ past' \in Past
    <3>1. CASE e.fx = "SpawnInstance"
      <4>1. e.id \in Id
        BY <2>3, <3>1 DEF Effect
      <4> QED BY <1>4, <3>1, <4>1 DEF Perform, TypeInv, Past
    <3>2. CASE e.fx # "SpawnInstance"
      BY <1>4, <3>2 DEF Perform, TypeInv
    <3> QED BY <3>1, <3>2
  <2>6. word' \in [Id -> {"none", "Ready", "Failed"}]
    BY <1>4 DEF Perform, EndInstance, TypeInv
  <2>7. thread'.at = "checked" => thread.at = "checked"
    BY <1>4 DEF Perform, TypeInv, Thread
  <2> QED BY <1>4, <2>2, <2>4, <2>5, <2>6, <2>7 DEF Perform, TypeInv
<1>5. CASE PublishSnapshot
  BY <1>5 DEF PublishSnapshot, Goes, Latched, TypeInv, Driver, Spawning
<1>6. CASE PublishTable
  BY <1>6 DEF PublishTable, Goes, Gate, TypeInv, Driver, Spawning
<1>7. CASE Resolve
  <2>1. driver' \in Driver
    BY <1>7 DEF Resolve, TypeInv, Driver
  <2> QED BY <1>7, <2>1 DEF Resolve, TypeInv, Spawning
<1>8. CASE Wake
  <2> DEFINE at == IF engine.run = "Ended" THEN "finish" ELSE "idle"
             backlog == IF driver.backlog = 0 THEN 0 ELSE driver.backlog - 1
  <2>0. backlog \in Nat /\ at \in {"finish", "idle"}
    BY DriverTyped DEF TypeInv
  <2>a. driver' = [driver EXCEPT !.answers = {}, !.backlog = backlog, !.at = at]
    BY <1>8 DEF Wake
  <2> HIDE DEF at, backlog
  <2>1. driver' \in Driver
    BY <2>0, <2>a DEF TypeInv, Driver
  <2> QED BY <1>8, <2>1 DEF Wake, TypeInv, Spawning
<1>9. CASE Finish
  <2>1. engine.outcome \in Outcomes
    BY <1>9 DEF Finish, LatchInv
  <2> QED BY <1>9, <2>1 DEF Finish, Goes, Latched, TypeInv, Driver, Spawning
<1>10. CASE SendReport
  <2>1. engine.outcome \in Outcomes
    BY <1>10 DEF SendReport, LatchInv
  <2> QED BY <1>10, <2>1 DEF SendReport, Goes, TypeInv, Driver, Spawning
<1> QED BY <1>1, <1>2, <1>3, <1>4, <1>5, <1>6, <1>7, <1>8, <1>9, <1>10 DEF DriverStep

LEMMA SendTyped ==
  ASSUME mail \in Seq(Message), NEW m \in Message, Send(m)
  PROVE  mail' \in Seq(Message)
BY Appended

LEMMA OthersTypes ==
  ASSUME TypeInv, Next, ~ DriverStep
  PROVE  TypeInv'
<1>1. CASE TornDown
  BY <1>1 DEF TornDown, Goes, Latched, Outcomes, TypeInv, Driver, Thread, Spawning
<1>2. CASE CheckGate
  <2> DEFINE at == CASE table = "default" -> "ForeignTemplate"
                     [] table = "closed"  -> "ScopeStopping"
                     [] table = "open"    -> "checked"
  <2>1. at \in {"ForeignTemplate", "ScopeStopping", "checked"}
    BY DEF TypeInv
  <2>2. thread' = [thread EXCEPT !.at = at]
    BY <1>2 DEF CheckGate, Moves
  <2> HIDE DEF at
  <2>3. thread' \in Thread /\ thread'.at = at
    BY <2>1, <2>2 DEF TypeInv, Thread
  <2> QED BY <1>2, <2>1, <2>3 DEF CheckGate, TypeInv, Spawning
<1>3. CASE Enter
  <2>1. Cardinality(Id) \in Nat
    BY IdAssumption, FS_CardinalityType
  <2>2. count.ids \in Nat /\ count.ids < Cardinality(Id)
    BY <1>3 DEF Enter, TypeInv
  <2>3. count.ids + 1 \in Id /\ count.ids + 1 \in Nat
    BY <2>1, <2>2, IdAssumption
  <2>4. thread' \in Thread /\ thread'.id = count.ids + 1 /\ thread'.at = "entered"
    BY <1>3, <2>3 DEF Enter, TypeInv, Thread
  <2>5. count' \in [requests : Nat, events : Nat, ids : Nat]
    BY <1>3, <2>3 DEF Enter, TypeInv
  <2> QED BY <1>3, <2>3, <2>4, <2>5 DEF Enter, TypeInv, Spawning
<1>4. CASE Store
  <2>1. thread.id \in Id /\ thread' \in Thread /\ thread'.id = thread.id
        /\ thread'.at = "stored"
    BY <1>4 DEF Store, Moves, TypeInv, Thread, Spawning
  <2> QED BY <1>4, <2>1 DEF Store, TypeInv, Spawning
<1>5. CASE Announce
  <2>1. thread.id \in Id /\ thread' \in Thread /\ thread'.at = "free"
    BY <1>5 DEF Announce, Moves, TypeInv, Thread, Spawning
  <2>2. [msg |-> "Spawned", id |-> thread.id] \in Message
    BY <2>1 DEF Message
  <2>3. mail' \in Seq(Message)
    BY <1>5, <2>2, SendTyped DEF Announce, TypeInv
  <2> QED BY <1>5, <2>1, <2>3 DEF Announce, TypeInv, Spawning
<1>6. CASE BodyEnds
  <2>1. thread' \in Thread /\ thread'.at = "gone"
    BY <1>6 DEF BodyEnds, TypeInv, Thread
  <2>2. [msg |-> "Body"] \in Message
    BY DEF Message
  <2>3. mail' \in Seq(Message)
    BY <1>6, <2>2, SendTyped DEF BodyEnds, TypeInv
  <2> QED BY <1>6, <2>1, <2>3 DEF BodyEnds, TypeInv, Spawning
<1>7. ASSUME NEW i \in Id, Await(i) \/ Answered(i)
      PROVE  TypeInv'
  BY <1>7 DEF Await, Answered, TypeInv, Spawning
<1>8. ASSUME NEW i \in Id, Stop(i)
      PROVE  TypeInv'
  <2>1. [msg |-> "Stop", id |-> i] \in Message
    BY DEF Message
  <2>2. mail' \in Seq(Message)
    BY <1>8, <2>1, SendTyped DEF Stop, TypeInv
  <2>3. count' \in [requests : Nat, events : Nat, ids : Nat] /\ count'.ids = count.ids
    BY <1>8 DEF Stop, TypeInv
  <2> QED BY <1>8, <2>2, <2>3 DEF Stop, TypeInv, Spawning
<1>9. CASE Launch
  BY <1>9 DEF Launch, Goes, TypeInv, Driver, Spawning
<1>10. CASE DropRunning
  <2>1. [msg |-> "Dropped"] \in Message
    BY DEF Message
  <2>2. mail' \in Seq(Message)
    BY <1>10, <2>1, SendTyped DEF DropRunning, TypeInv
  <2> QED BY <1>10, <2>2 DEF DropRunning, TypeInv, Spawning
<1>11. CASE TakeReport
  BY <1>11 DEF TakeReport, TypeInv, Spawning
<1>12. CASE Request
  <2>1. [msg |-> "Request"] \in Message
    BY DEF Message
  <2>2. mail' \in Seq(Message)
    BY <1>12, <2>1, SendTyped DEF Request, TypeInv
  <2>3. count' \in [requests : Nat, events : Nat, ids : Nat] /\ count'.ids = count.ids
    BY <1>12 DEF Request, TypeInv
  <2> QED BY <1>12, <2>2, <2>3 DEF Request, TypeInv, Spawning
<1>13. CASE OtherEvent
  <2>1. [msg |-> "Event"] \in Message
    BY DEF Message
  <2>2. mail' \in Seq(Message)
    BY <1>13, <2>1, SendTyped DEF OtherEvent, TypeInv
  <2>3. count' \in [requests : Nat, events : Nat, ids : Nat] /\ count'.ids = count.ids
    BY <1>13 DEF OtherEvent, TypeInv
  <2> QED BY <1>13, <2>2, <2>3 DEF OtherEvent, TypeInv, Spawning
<1>14. CASE Terminated
  BY <1>14 DEF Terminated, vars, TypeInv, Spawning
<1> QED BY <1>1, <1>2, <1>3, <1>4, <1>5, <1>6, <1>7, <1>8, <1>9, <1>10, <1>11, <1>12,
           <1>13, <1>14 DEF Next, BodyStep

-----------------------------------------------------------------------------
(* The latches.                                                            *)

LEMMA DriverLatches ==
  ASSUME TypeInv, LatchInv, DriverStep
  PROVE  LatchInv'
<1>1. CASE FirstPoll
  BY <1>1 DEF FirstPoll, LatchInv, ReadyIsTrue, TypeInv, Driver, Past, At, Outcomes
<1>2. CASE BeginRun
  <2>1. PICK bodies \in BOOLEAN, run \in Admitting :
       /\ engine' = [engine EXCEPT !.run = run, !.flight = bodies]
       /\ driver' = [driver EXCEPT !.at = "perform", !.begun = TRUE,
                                   !.todo = Effects(<<>>, bodies, FALSE, <<>>, "none")]
       /\ past' = [past EXCEPT !.steady = @ \/ run = "Steady", !.effects = TRUE]
    BY <1>2 DEF BeginRun
  <2>2. engine'.run = run /\ engine'.inst = engine.inst /\ run \in {"Admitting", "Steady"}
    BY <2>1 DEF TypeInv, Engine, Admitting
  <2>3. driver'.at = "perform" /\ driver'.answers = driver.answers
    BY <2>1 DEF TypeInv, Driver
  <2>4. past'.steady = (past.steady \/ run = "Steady") /\ past'.ready = past.ready
    BY <2>1 DEF TypeInv, Past
  <2> QED BY <1>2, <2>2, <2>3, <2>4 DEF BeginRun, LatchInv, ReadyIsTrue, At, TypeInv, Outcomes
<1>3. CASE Receive
  <2>1. PICK spawned \in Seq(Id) : Stepped(spawned)
    BY <1>3, HeadTyped, ReactStepped
  <2> QED BY <1>3, <2>1 DEF Receive, Stepped, LatchInv, ReadyIsTrue, At, TypeInv, Outcomes
<1>4. CASE Perform
  <2>1. driver'.at = "perform" /\ driver'.answers = driver.answers /\ driver.at = "perform"
    BY <1>4 DEF Perform, At, TypeInv, Driver
  <2>2. past'.steady = past.steady /\ past'.ready = past.ready
    BY <1>4 DEF Perform, TypeInv, Past
  <2>3. \A i \in Id : word'[i] = "Ready" => word[i] = "Ready"
    BY <1>4 DEF Perform, EndInstance, TypeInv
  <2> QED BY <1>4, <2>1, <2>2, <2>3
          DEF Perform, LatchInv, ReadyIsTrue, At, TypeInv, Outcomes
<1>5. CASE PublishSnapshot
  <2>1. driver'.at = "table" /\ driver'.answers = driver.answers
    BY <1>5 DEF PublishSnapshot, Goes, TypeInv, Driver
  <2> QED BY <1>5, <2>1
          DEF PublishSnapshot, Latched, LatchInv, ReadyIsTrue, At, TypeInv, Outcomes
<1>6. CASE PublishTable
  <2>1. driver'.at = "resolve" /\ driver'.answers = driver.answers
    BY <1>6 DEF PublishTable, Goes, TypeInv, Driver
  <2> QED BY <1>6, <2>1 DEF PublishTable, LatchInv, ReadyIsTrue, At, TypeInv, Outcomes
<1>7. CASE Resolve
  <2>1. driver'.at = "wake" /\ driver'.answers = {i \in Id : Answerable(i)}
    BY <1>7 DEF Resolve, TypeInv, Driver
  <2>2. driver'.answers \subseteq past.ready
    BY <2>1 DEF Answerable, LatchInv
  <2> QED BY <1>7, <2>1, <2>2 DEF Resolve, LatchInv, ReadyIsTrue, At, TypeInv, Outcomes
<1>8. CASE Wake
  <2>1. /\ driver'.at \in {"finish", "idle"} /\ driver'.answers = {}
        /\ driver'.at = "finish" => engine.run = "Ended"
    BY <1>8 DEF Wake, TypeInv, Driver
  <2>2. \A i \in Id : word'[i] = "Ready" => word[i] = "Ready" \/ i \in driver.answers
    BY <1>8 DEF Wake, TypeInv
  <2> QED BY <1>8, <2>1, <2>2 DEF Wake, LatchInv, ReadyIsTrue, At, TypeInv, Outcomes
<1>9. CASE Finish
  <2>1. driver'.at = "report" /\ driver'.answers = driver.answers
    BY <1>9 DEF Finish, Goes, TypeInv, Driver
  <2> QED BY <1>9, <2>1 DEF Finish, Latched, LatchInv, ReadyIsTrue, At, TypeInv, Outcomes
<1>10. CASE SendReport
  <2>1. driver'.at = "gone" /\ driver'.answers = driver.answers
    BY <1>10 DEF SendReport, Goes, TypeInv, Driver
  <2> QED BY <1>10, <2>1 DEF SendReport, LatchInv, ReadyIsTrue, At, TypeInv, Outcomes
<1> QED BY <1>1, <1>2, <1>3, <1>4, <1>5, <1>6, <1>7, <1>8, <1>9, <1>10 DEF DriverStep

LEMMA OthersLatches ==
  ASSUME TypeInv, LatchInv, RequestInv, Next, ~ DriverStep
  PROVE  LatchInv'
<1>1. CASE TornDown
  <2>1. driver'.at = "gone" /\ driver'.answers = driver.answers /\ driver.at \in {"boot", "idle"}
    BY <1>1 DEF TornDown, Goes, At, TypeInv, Driver
  <2> QED BY <1>1, <2>1 DEF TornDown, Latched, LatchInv, ReadyIsTrue, At, TypeInv, Outcomes
<1>2. CASE BodyStep
  BY <1>2 DEF BodyStep, CheckGate, Enter, Store, Announce, BodyEnds, Await, Answered, Stop,
              LatchInv, ReadyIsTrue, At
<1>3. CASE Launch
  <2>1. /\ driver'.at = "boot" /\ driver'.answers = driver.answers
        /\ channel' = channel /\ latch' = latch
    BY <1>3 DEF Launch, Goes, TypeInv, Driver
  <2>2. At("unborn")
    BY <1>3 DEF Launch, RequestInv, At
  <2> QED BY <1>3, <2>1, <2>2 DEF Launch, LatchInv, ReadyIsTrue, At, TypeInv, Outcomes
<1>4. CASE DropRunning \/ TakeReport \/ Request \/ OtherEvent
  BY <1>4 DEF DropRunning, TakeReport, Request, OtherEvent, LatchInv, ReadyIsTrue, At
<1>5. CASE Terminated
  BY <1>5 DEF Terminated, vars, LatchInv, ReadyIsTrue, At
<1> QED BY <1>1, <1>2, <1>3, <1>4, <1>5 DEF Next

-----------------------------------------------------------------------------
(* What was asked before the first poll.                                   *)

LEMMA RequestsKept ==
  ASSUME TypeInv, LatchInv, RequestInv, Next
  PROVE  RequestInv'
<1>1. CASE FirstPoll
  <2>1. /\ driver'.at = "idle" /\ driver'.backlog = Len(mail)
        /\ past'.early = (mail # <<>>) /\ past'.effects = past.effects
    BY <1>1 DEF FirstPoll, TypeInv, Driver, Past
  <2>2. mail # <<>> => Len(mail) > 0
    BY DEF TypeInv
  <2> QED BY <1>1, <2>1, <2>2 DEF FirstPoll, RequestInv, NothingUnasked, At
<1>2. CASE BeginRun
  <2>1. /\ engine'.run \in Admitting /\ driver'.at = "perform" /\ driver.backlog = 0
        /\ past'.early = past.early /\ user' = user
    BY <1>2 DEF BeginRun, TypeInv, Engine, Driver, Past
  <2>2. ~ past.early /\ user # "Idle"
    BY <1>2 DEF BeginRun, RequestInv, At
  <2> QED BY <2>1, <2>2 DEF RequestInv, NothingUnasked, At, Admitting
<1>3. CASE Receive
  <2>1. PICK spawned \in Seq(Id) : Stepped(spawned)
    BY <1>3, HeadTyped, ReactStepped
  <2> QED BY <1>3, <2>1 DEF Receive, Stepped, RequestInv, NothingUnasked, At
<1>4. CASE Perform
  <2>1. driver'.at = "perform" /\ past'.early = past.early /\ past'.effects = past.effects
    BY <1>4 DEF Perform, At, TypeInv, Driver, Past
  <2> QED BY <1>4, <2>1 DEF Perform, RequestInv, NothingUnasked, At
<1>5. CASE PublishSnapshot \/ PublishTable \/ Resolve \/ Wake \/ Finish \/ SendReport
  <2>1. /\ driver.at \in {"perform", "table", "resolve", "wake", "finish", "report"}
        /\ driver'.at \in {"table", "resolve", "wake", "finish", "idle", "report", "gone"}
        /\ engine' = engine /\ past' = past /\ user' = user
    BY <1>5 DEF PublishSnapshot, PublishTable, Resolve, Wake, Finish, SendReport, Goes, At,
                TypeInv, Driver
  <2> QED BY <2>1 DEF RequestInv, NothingUnasked, At
<1>6. CASE TornDown
  <2>1. /\ driver'.at = "gone" /\ driver.at \in {"boot", "idle"}
        /\ engine' = engine /\ past' = past /\ user' = user
    BY <1>6 DEF TornDown, Goes, At, TypeInv, Driver
  <2> QED BY <2>1 DEF RequestInv, NothingUnasked, At
<1>7. CASE BodyStep
  <2>1. /\ engine' = engine /\ past' = past /\ user' = user /\ driver' = driver
        /\ mail' = mail \/ \E m : Send(m)
    BY <1>7 DEF BodyStep, CheckGate, Enter, Store, Announce, BodyEnds, Await, Answered, Stop
  <2>2. mail # <<>> => mail' # <<>>
    BY <2>1 DEF Send, TypeInv
  <2> QED BY <2>1, <2>2 DEF RequestInv, NothingUnasked, At
<1>8. CASE Launch
  <2>1. /\ driver'.at = "boot" /\ driver.at = "unborn" /\ user' = "Live"
        /\ engine' = engine /\ past' = past
    BY <1>8 DEF Launch, Goes, At, RequestInv, TypeInv, Driver
  <2> QED BY <2>1 DEF RequestInv, NothingUnasked, At
<1>9. CASE DropRunning
  <2>1. user = "Live" /\ At("boot") => mail' # <<>>
    BY <1>9 DEF DropRunning, Send, At, TypeInv
  <2> QED BY <1>9, <2>1 DEF DropRunning, RequestInv, NothingUnasked, At
<1>10. CASE TakeReport
  <2>1. driver.at # "unborn"
    BY <1>10 DEF TakeReport, RequestInv, At
  <2> QED BY <1>10, <2>1 DEF TakeReport, RequestInv, NothingUnasked, At
<1>11. CASE Request \/ OtherEvent
  <2>1. mail # <<>> => mail' # <<>>
    BY <1>11 DEF Request, OtherEvent, Send, TypeInv
  <2> QED BY <1>11, <2>1 DEF Request, OtherEvent, RequestInv, NothingUnasked, At
<1>12. CASE Terminated
  BY <1>12 DEF Terminated, vars, RequestInv, NothingUnasked, At
<1> QED BY <1>1, <1>2, <1>3, <1>4, <1>5, <1>6, <1>7, <1>8, <1>9, <1>10, <1>11, <1>12
        DEF Next, DriverStep

-----------------------------------------------------------------------------
(* The input of an instance on its way.                                    *)

LEMMA InputsReceived ==
  ASSUME TypeInv, LatchInv, InputInv, Receive
  PROVE  InputInv'
<1>1. PICK spawned \in Seq(Id) :
        /\ Stepped(spawned)
        /\ spawned = <<>> \/ (Head(mail).msg = "Spawned" /\ spawned = <<Head(mail).id>>)
  BY HeadTyped, ReactStepped
<1>2. /\ mail' = Tail(mail) /\ thread' = thread /\ inputs' = inputs /\ count' = count
      /\ past'.missing = past.missing
  BY <1>1 DEF Receive, Stepped
<1>3. /\ 1 \in DOMAIN mail /\ Head(mail) = mail[1]
      /\ \A k \in DOMAIN mail' :
           k \in Nat /\ k + 1 \in DOMAIN mail /\ k + 1 # 1 /\ mail'[k] = mail[k + 1]
  BY <1>2, HeadTyped, Received DEF TypeInv
<1>4. \A i \in Id : \A k \in DOMAIN mail' : IsSpawned(k, i)' => IsSpawned(k + 1, i)
  BY <1>3 DEF IsSpawned
<1>5. ASSUME NEW i \in Id, NEW k \in DOMAIN mail', IsSpawned(k, i)'
      PROVE  /\ i \in inputs' /\ i <= count'.ids
             /\ ~ (Spawning' /\ thread'.id = i)
             /\ \A j \in DOMAIN mail' : IsSpawned(j, i)' => j = k
  <2>1. k \in Nat /\ k + 1 \in DOMAIN mail /\ IsSpawned(k + 1, i)
    BY <1>3, <1>4, <1>5
  <2>2. ASSUME NEW j \in DOMAIN mail', IsSpawned(j, i)'
        PROVE  j = k
    <3>1. j \in Nat /\ j + 1 \in DOMAIN mail /\ IsSpawned(j + 1, i)
      BY <1>3, <1>4, <2>2
    <3>2. j + 1 = k + 1
      BY <2>1, <3>1 DEF InputInv
    <3> QED BY <2>1, <3>1, <3>2
  <2> QED BY <1>2, <2>1, <2>2 DEF InputInv, Spawning
<1>6. ASSUME NEW k \in DOMAIN driver'.todo, driver'.todo[k].fx = "SpawnInstance"
      PROVE  \E i \in Id :
               /\ i = driver'.todo[k].id /\ k = 1 /\ i \in inputs' /\ i <= count'.ids
               /\ ~ (Spawning' /\ thread'.id = i)
               /\ \A j \in DOMAIN mail' : ~ IsSpawned(j, i)'
  <2>1. k \in DOMAIN spawned /\ driver'.todo[k].id = spawned[k]
    BY <1>1, <1>6 DEF Stepped, Starts
  <2>2. Head(mail).msg = "Spawned" /\ k = 1 /\ driver'.todo[k].id = Head(mail).id
    BY <1>1, <2>1
  <2>3. PICK i \in Id : i = Head(mail).id
    BY <2>2, HeadTyped DEF Message
  <2>4. IsSpawned(1, i)
    BY <1>3, <2>2, <2>3 DEF IsSpawned
  <2>5. ASSUME NEW j \in DOMAIN mail', IsSpawned(j, i)'
        PROVE  FALSE
    <3>1. j + 1 \in DOMAIN mail /\ j + 1 # 1 /\ IsSpawned(j + 1, i)
      BY <1>3, <1>4, <2>5
    <3> QED BY <1>3, <2>4, <3>1 DEF InputInv
  <2> QED BY <1>2, <1>3, <2>2, <2>3, <2>4, <2>5 DEF InputInv, Spawning
<1>7. InputsArrive' /\ (Spawning' => thread'.id <= count'.ids)
      /\ (thread'.at = "stored" => thread'.id \in inputs')
  BY <1>2 DEF InputInv, InputsArrive, Spawning
<1> QED BY <1>5, <1>6, <1>7 DEF InputInv, IsSpawned

LEMMA InputsPerformed ==
  ASSUME TypeInv, InputInv, Perform
  PROVE  InputInv'
<1> DEFINE e == Head(driver.todo)
<1>1. /\ driver.todo \in Seq(Effect) /\ driver.todo # <<>> /\ e \in Effect
      /\ driver'.todo = Tail(driver.todo) /\ mail' = mail /\ count' = count
  BY DriverTyped, Received DEF Perform, TypeInv, Driver
<1>2. /\ 1 \in DOMAIN driver.todo /\ e = driver.todo[1]
      /\ \A k \in DOMAIN driver'.todo :
           k + 1 \in DOMAIN driver.todo /\ k + 1 # 1 /\ driver'.todo[k] = driver.todo[k + 1]
  BY <1>1, Received
<1>3. \A k \in DOMAIN driver'.todo : driver'.todo[k].fx # "SpawnInstance"
  BY <1>2 DEF InputInv
<1>4. /\ Spawning' => Spawning /\ thread'.id = thread.id
      /\ thread'.at = "stored" => thread.at = "stored"
  BY DEF Perform, Spawning, TypeInv, Thread
<1>5. CASE e.fx = "SpawnInstance"
  <2>1. e.id \in inputs /\ ~ (Spawning /\ thread.id = e.id)
        /\ \A j \in DOMAIN mail : ~ IsSpawned(j, e.id)
    BY <1>2, <1>5 DEF InputInv
  <2>2. inputs' = inputs \ {e.id} /\ past'.missing = past.missing
    <3>1. {e.id} \ inputs = {}
      BY <2>1
    <3>2. past' = [past EXCEPT !.missing = @ \cup {}] /\ inputs' = inputs \ {e.id}
      BY <1>5, <3>1 DEF Perform
    <3> QED BY <3>2 DEF TypeInv, Past
  <2> QED BY <1>1, <1>3, <1>4, <2>1, <2>2 DEF InputInv, IsSpawned, InputsArrive, Spawning
<1>6. CASE e.fx # "SpawnInstance"
  <2>1. inputs' = inputs /\ past' = past
    BY <1>6 DEF Perform
  <2> QED BY <1>1, <1>3, <1>4, <2>1 DEF InputInv, IsSpawned, InputsArrive, Spawning
<1> QED BY <1>5, <1>6

(* A message that announces nothing leaves the inputs where they are.      *)
LEMMA InputsSent ==
  ASSUME TypeInv, InputInv, NEW m \in Message, m.msg # "Spawned", Send(m),
         driver' = driver, inputs' = inputs, past' = past, count'.ids = count.ids,
         Spawning' => Spawning /\ thread'.id = thread.id,
         thread'.at = "stored" => thread.at = "stored" /\ thread'.id = thread.id
  PROVE  InputInv'
<1>1. /\ \A k \in DOMAIN mail : k \in DOMAIN mail' /\ mail'[k] = mail[k]
      /\ \A k \in DOMAIN mail' : k \in DOMAIN mail \/ mail'[k] = m
  BY Appended DEF TypeInv
<1>2. \A i \in Id, k \in DOMAIN mail' : IsSpawned(k, i)' => k \in DOMAIN mail /\ IsSpawned(k, i)
  BY <1>1 DEF IsSpawned
<1>3. \A k \in DOMAIN driver.todo : driver.todo[k].fx = "SpawnInstance" =>
        driver.todo[k].id \in Id
  BY DriverTyped DEF TypeInv, Effect
<1> QED BY <1>2, <1>3 DEF InputInv, InputsArrive

LEMMA InputsAnnounced ==
  ASSUME TypeInv, InputInv, Announce
  PROVE  InputInv'
<1> DEFINE m == [msg |-> "Spawned", id |-> thread.id]
<1>1. /\ thread.at = "stored" /\ thread.id \in Id /\ thread.id \in inputs
      /\ thread.id <= count.ids
  BY DEF Announce, TypeInv, InputInv, Spawning
<1>2. m \in Message
  BY <1>1 DEF Message
<1>3. /\ \A k \in DOMAIN mail : k \in DOMAIN mail' /\ mail'[k] = mail[k]
      /\ \A k \in DOMAIN mail' : k \in DOMAIN mail \/ mail'[k] = m
      /\ \A j, k \in DOMAIN mail' : j \in DOMAIN mail \/ k \in DOMAIN mail \/ j = k
  BY <1>2, Appended DEF Announce, TypeInv
<1>4. /\ thread'.at = "free" /\ driver' = driver /\ inputs' = inputs /\ past' = past
      /\ count' = count
  BY DEF Announce, Moves, TypeInv, Thread
<1>5. \A k \in DOMAIN mail : ~ IsSpawned(k, thread.id)
  BY <1>1 DEF InputInv, Spawning
<1>6. ASSUME NEW i \in Id, NEW k \in DOMAIN mail', IsSpawned(k, i)'
      PROVE  \/ k \in DOMAIN mail /\ IsSpawned(k, i) /\ i # thread.id
             \/ k \notin DOMAIN mail /\ i = thread.id
  BY <1>3, <1>5, <1>6 DEF IsSpawned
<1>7. ASSUME NEW i \in Id, NEW k \in DOMAIN mail', IsSpawned(k, i)'
      PROVE  i \in inputs' /\ i <= count'.ids /\ \A j \in DOMAIN mail' : IsSpawned(j, i)' => j = k
  <2>1. CASE k \in DOMAIN mail /\ IsSpawned(k, i) /\ i # thread.id
    BY <1>4, <1>6, <2>1 DEF InputInv
  <2>2. CASE k \notin DOMAIN mail /\ i = thread.id
    BY <1>1, <1>3, <1>4, <1>6, <2>2
  <2> QED BY <1>6, <1>7, <2>1, <2>2
<1>8. ASSUME NEW k \in DOMAIN driver.todo, driver.todo[k].fx = "SpawnInstance"
      PROVE  \E i \in Id :
               /\ i = driver.todo[k].id /\ k = 1 /\ i \in inputs /\ i <= count.ids
               /\ \A j \in DOMAIN mail' : ~ IsSpawned(j, i)'
  <2>1. PICK i \in Id : i = driver.todo[k].id
    BY <1>8, DriverTyped DEF TypeInv, Effect
  <2>2. /\ k = 1 /\ i \in inputs /\ i <= count.ids /\ i # thread.id
        /\ \A j \in DOMAIN mail : ~ IsSpawned(j, i)
    BY <1>1, <1>8, <2>1 DEF InputInv, Spawning
  <2> QED BY <1>6, <2>1, <2>2
<1> QED BY <1>4, <1>7, <1>8 DEF InputInv, IsSpawned, InputsArrive, Spawning

LEMMA InputsKept ==
  ASSUME TypeInv, LatchInv, InputInv, Next
  PROVE  InputInv'
<1>1. CASE FirstPoll \/ PublishSnapshot \/ PublishTable \/ Resolve \/ Wake \/ Finish
             \/ SendReport
  <2>1. /\ mail' = mail /\ thread' = thread /\ inputs' = inputs /\ count' = count
        /\ driver'.todo = driver.todo /\ past'.missing = past.missing
    BY <1>1 DEF FirstPoll, PublishSnapshot, PublishTable, Resolve, Wake, Finish, SendReport,
                Goes, TypeInv, Driver, Past
  <2> QED BY <2>1 DEF InputInv, IsSpawned, InputsArrive, Spawning
<1>2. CASE BeginRun
  <2>1. PICK bodies \in BOOLEAN, run \in Admitting :
       /\ engine' = [engine EXCEPT !.run = run, !.flight = bodies]
       /\ driver' = [driver EXCEPT !.at = "perform", !.begun = TRUE,
                                   !.todo = Effects(<<>>, bodies, FALSE, <<>>, "none")]
       /\ past' = [past EXCEPT !.steady = @ \/ run = "Steady", !.effects = TRUE]
    BY <1>2 DEF BeginRun
  <2> DEFINE todo == Effects(<<>>, bodies, FALSE, <<>>, "none")
  <2>2. <<>> \in Seq(Id)
    OBVIOUS
  <2>3. Starts(todo, <<>>)
    BY <2>2, EffectsStart
  <2> HIDE DEF todo
  <2>4. driver'.todo = todo
    BY <2>1 DEF TypeInv, Driver, todo
  <2>5. \A k \in DOMAIN driver'.todo : driver'.todo[k].fx # "SpawnInstance"
    BY <2>3, <2>4 DEF Starts
  <2>6. /\ mail' = mail /\ thread' = thread /\ inputs' = inputs /\ count' = count
        /\ past'.missing = past.missing
    BY <1>2, <2>1 DEF BeginRun, TypeInv, Past
  <2> QED BY <2>5, <2>6 DEF InputInv, IsSpawned, InputsArrive, Spawning
<1>3. CASE Receive
  BY <1>3, InputsReceived
<1>4. CASE Perform
  BY <1>4, InputsPerformed
<1>5. CASE TornDown
  <2>1. /\ thread'.at = thread.at /\ thread'.id = thread.id /\ driver'.todo = driver.todo
    BY <1>5 DEF TornDown, Goes, TypeInv, Driver, Thread
  <2> QED BY <1>5, <2>1 DEF TornDown, InputInv, IsSpawned, InputsArrive, Spawning
<1>6. CASE CheckGate
  <2>1. thread'.at \notin {"entered", "stored"}
    BY <1>6 DEF CheckGate, Moves, TypeInv, Thread
  <2> QED BY <1>6, <2>1 DEF CheckGate, InputInv, IsSpawned, InputsArrive, Spawning
<1>7. CASE Enter
  <2>1. /\ thread'.at = "entered" /\ thread'.id = count.ids + 1 /\ count.ids \in Nat
        /\ count'.ids = count.ids + 1 /\ thread.at = "checked"
    BY <1>7 DEF Enter, TypeInv, Thread
  <2>2. /\ mail' = mail /\ driver' = driver /\ inputs' = inputs /\ past' = past
    BY <1>7 DEF Enter
  <2>3. \A i \in Id : i \in Nat
    <3>1. Cardinality(Id) \in Nat
      BY IdAssumption, FS_CardinalityType
    <3> QED BY <3>1, IdAssumption
  <2>4. \A i \in Id : i <= count.ids => i <= count'.ids /\ i # thread'.id
    BY <2>1, <2>3
  <2>5. \A k \in DOMAIN driver.todo : driver.todo[k].fx = "SpawnInstance" =>
          driver.todo[k].id \in Id
    BY DriverTyped DEF TypeInv, Effect
  <2>6. thread'.id <= count'.ids
    BY <2>1
  <2> QED BY <2>1, <2>2, <2>4, <2>5, <2>6 DEF InputInv, IsSpawned, InputsArrive, Spawning
<1>8. CASE Store
  <2>1. thread.at = "entered" /\ thread'.at = "stored" /\ thread'.id = thread.id
    BY <1>8 DEF Store, Moves, TypeInv, Thread
  <2> QED BY <1>8, <2>1 DEF Store, InputInv, IsSpawned, InputsArrive, Spawning
<1>9. CASE Announce
  BY <1>9, InputsAnnounced
<1>10. CASE BodyEnds
  <2>1. thread'.at = "gone" /\ [msg |-> "Body"] \in Message
    BY <1>10 DEF BodyEnds, TypeInv, Thread, Message
  <2> QED BY <1>10, <2>1, InputsSent DEF BodyEnds, Spawning
<1>11. ASSUME NEW i \in Id, Stop(i)
       PROVE  InputInv'
  <2>1. /\ [msg |-> "Stop", id |-> i] \in Message /\ count'.ids = count.ids
        /\ thread' = thread
    BY <1>11 DEF Stop, Message, TypeInv
  <2> QED BY <1>11, <2>1, InputsSent DEF Stop, Spawning
<1>12. CASE Request
  <2>1. [msg |-> "Request"] \in Message /\ count'.ids = count.ids /\ thread' = thread
    BY <1>12 DEF Request, Message, TypeInv
  <2> QED BY <1>12, <2>1, InputsSent DEF Request, Spawning
<1>13. CASE OtherEvent
  <2>1. [msg |-> "Event"] \in Message /\ count'.ids = count.ids /\ thread' = thread
    BY <1>13 DEF OtherEvent, Message, TypeInv
  <2> QED BY <1>13, <2>1, InputsSent DEF OtherEvent, Spawning
<1>14. CASE DropRunning
  <2>1. CASE user = "Live"
    <3>1. [msg |-> "Dropped"] \in Message
      BY DEF Message
    <3> QED BY <1>14, <2>1, <3>1, InputsSent DEF DropRunning, Spawning
  <2>2. CASE user # "Live"
    BY <1>14, <2>2 DEF DropRunning, InputInv, IsSpawned, InputsArrive, Spawning
  <2> QED BY <2>1, <2>2
<1>15. CASE Launch
  <2>1. driver'.todo = driver.todo
    BY <1>15 DEF Launch, Goes, TypeInv, Driver
  <2> QED BY <1>15, <2>1 DEF Launch, InputInv, IsSpawned, InputsArrive, Spawning
<1>16. CASE TakeReport \/ Terminated \/ \E i \in Id : Await(i) \/ Answered(i)
  BY <1>16 DEF TakeReport, Terminated, vars, Await, Answered, InputInv, IsSpawned,
               InputsArrive, Spawning
<1> QED BY <1>1, <1>2, <1>3, <1>4, <1>5, <1>6, <1>7, <1>8, <1>9, <1>10, <1>11, <1>12,
           <1>13, <1>14, <1>15, <1>16 DEF Next, DriverStep, BodyStep

-----------------------------------------------------------------------------
RunInv == TypeInv /\ LatchInv /\ RequestInv /\ InputInv

(* Every value a run shares with the tasks outside its driver stays in the *)
(* range its type allows, and what the callers hold follows from where the *)
(* driver, the body and the mailbox stand.                                 *)
THEOREM RunInvariant == Spec => []RunInv
<1>1. Init => RunInv
  <2> SUFFICES ASSUME Init PROVE RunInv
    OBVIOUS
  <2>1. driver \in Driver /\ mail \in Seq(Message) /\ past \in Past
    <3>1. <<>> \in Seq(Effect) /\ <<>> \in Seq(Message)
      OBVIOUS
    <3> QED BY <3>1 DEF Init, Driver, Past
  <2>2. TypeInv
    BY <2>1 DEF Init, TypeInv, Engine, Thread, Spawning
  <2>3. LatchInv /\ RequestInv
    BY DEF Init, LatchInv, RequestInv, ReadyIsTrue, NothingUnasked, At, Outcomes
  <2>4. InputInv
    BY DEF Init, InputInv, InputsArrive, Spawning
  <2> QED BY <2>2, <2>3, <2>4 DEF RunInv
<1>2. RunInv /\ [Next]_vars => RunInv'
  <2> SUFFICES ASSUME RunInv, [Next]_vars PROVE RunInv'
    OBVIOUS
  <2>1. CASE Next
    <3>1. TypeInv'
      BY <2>1, DriverTypes, OthersTypes DEF RunInv
    <3>2. LatchInv'
      BY <2>1, DriverLatches, OthersLatches DEF RunInv
    <3>3. RequestInv' /\ InputInv'
      BY <2>1, RequestsKept, InputsKept DEF RunInv
    <3> QED BY <3>1, <3>2, <3>3 DEF RunInv
  <2>2. CASE UNCHANGED vars
    BY <2>2 DEF vars, RunInv, TypeInv, LatchInv, RequestInv, InputInv, ReadyIsTrue,
                NothingUnasked, InputsArrive, IsSpawned, Spawning, At
  <2> QED BY <2>1, <2>2
<1> QED BY <1>1, <1>2, PTL DEF Spec

(* Readiness and the report are told truly, once each; a handle dropped or *)
(* a request made before the first poll starts nothing; and no instance    *)
(* opens without the input its body gave it.                               *)
THEOREM CallersServed == Spec => []CallersAreServed
<1>1. RunInv => CallersAreServed
  BY DEF RunInv, LatchInv, RequestInv, InputInv, CallersAreServed
<1> QED BY <1>1, RunInvariant, PTL

=============================================================================
