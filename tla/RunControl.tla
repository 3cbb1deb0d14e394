----------------------------- MODULE RunControl -----------------------------
(***************************************************************************)
(* What a run shares with the tasks outside its driver: the Running handle *)
(* and its readiness latch, the report channel, the spawn gate, and the    *)
(* latches of the instances a body spawned.  The driver is one task among  *)
(* others on a runtime with several threads, so each critical section is a *)
(* step of its own.  The engine is what Machine and Scopes show of it: run *)
(* states only move on, and instances nest in the run.                     *)
(***************************************************************************)
EXTENDS Naturals, Sequences, FiniteSets

CONSTANTS
  Id,            \* the instances a body may spawn: 1 .. n
  MaxRequests,   \* requests from outside
  MaxEvents      \* events that tell the engine nothing about this module

ASSUME IdAssumption == Id = 1 .. Cardinality(Id) /\ IsFiniteSet(Id)

VARIABLES
  user,      \* the Running handle
  engine,    \* the machine, as far as this module can tell
  driver,    \* where the driver task is, and what it still has to perform
  mail,      \* the mailbox of the driver
  latch,     \* the run's readiness latch
  channel,   \* the oneshot the report goes through
  table,     \* the spawn gate the bodies read
  thread,    \* the body that spawns, and where in spawn_instance it is
  latches,   \* Id -> the entry of the instance in Children
  word,      \* Id -> what its latch was answered
  inputs,    \* instances whose input nobody has taken
  waiter,    \* Id -> a Child::ready() of the body
  count,     \* how many requests, events and instances there were
  past       \* history

vars == <<user, engine, driver, mail, latch, channel, table, thread, latches, word, inputs,
          waiter, count, past>>

Outcomes == {"Ok", "Cancelled"}
Admitting == {"Admitting", "Steady"}
Live(st) == st \in Admitting \cup {"Settling"}

Engine ==
  [run     : {"Planned", "Admitting", "Steady", "Settling", "Ended"},
   outcome : Outcomes \cup {"none"},
   inst    : [Id -> {"none", "Admitting", "Steady", "Settling", "Ended"}],
   flight  : BOOLEAN]     \* the body is in flight and not abandoned

Message ==
  [msg : {"Request", "Event", "Dropped", "Body"}] \cup [msg : {"Spawned", "Stop"}, id : Id]

(* What the engine asks of the driver, as far as this module follows it.   *)
Effect ==
  [fx : {"Spawn", "Abort"}] \cup [fx : {"SpawnInstance", "InstanceEnded"}, id : Id]
    \cup [fx : {"End"}, outcome : Outcomes]

Driver ==
  [at      : {"unborn", "boot", "idle", "perform", "table", "resolve", "wake",
              "finish", "report", "gone"},
   backlog : Nat,         \* messages that came before the first poll
   begun   : BOOLEAN,
   answers : SUBSET Id,   \* latches resolve is about to answer
   todo    : Seq(Effect)] \* what the engine asked for and is not done yet

Init ==
  /\ user = "Idle"
  /\ engine = [run |-> "Planned", outcome |-> "none", inst |-> [i \in Id |-> "none"],
               flight |-> FALSE]
  /\ driver = [at |-> "unborn", backlog |-> 0, begun |-> FALSE, answers |-> {}, todo |-> <<>>]
  /\ mail = <<>> /\ latch = "none" /\ channel = "none" /\ table = "default"
  /\ thread = [at |-> "none", id |-> 0, aborted |-> FALSE]
  /\ latches = [i \in Id |-> "absent"] /\ word = [i \in Id |-> "none"]
  /\ inputs = {} /\ waiter = [i \in Id |-> "none"]
  /\ count = [requests |-> 0, events |-> 0, ids |-> 0]
  /\ past = [steady |-> FALSE, ready |-> {}, missing |-> {},
             early |-> FALSE, effects |-> FALSE]

-----------------------------------------------------------------------------
(* The engine.  One call of step or begin: run states move on, an instance *)
(* admits only inside an admitting run, and the run ends only when nothing *)
(* of it is left.                                                          *)

After(st) ==
  CASE st \in Admitting -> {"Admitting", "Steady", "Settling", "Ended"}
    [] st = "Settling" -> {"Settling", "Ended"}
    [] OTHER -> {st}

(* The effects of one step, in the order the machine pushes them.          *)
Effects(spawned, bodies, aborts, endings, out) ==
  LET some(c, fx) == IF c THEN <<fx>> ELSE <<>>
  IN [i \in 1 .. Len(spawned) |-> [fx |-> "SpawnInstance", id |-> spawned[i]]]
       \o some(bodies, [fx |-> "Spawn"]) \o some(aborts, [fx |-> "Abort"])
       \o [i \in 1 .. Len(endings) |-> [fx |-> "InstanceEnded", id |-> endings[i]]]
       \o some(out # "none", [fx |-> "End", outcome |-> out])

(* The instances of S in some order: theirs is the order in which their    *)
(* scopes happen to end.                                                   *)
Orders(S) ==
  {o \in [1 .. Cardinality(S) -> S] : \A i \in S : \E k \in DOMAIN o : o[k] = i}

(* One step from the state e, in which the instances of the sequence       *)
(* spawned have just been recorded.                                        *)
Steps(e, spawned) ==
  \E run \in After(e.run), inst \in [Id -> {"none", "Admitting", "Steady", "Settling", "Ended"}],
     out \in Outcomes, bodies, aborts, abandons \in BOOLEAN :
    LET flight == (e.flight \/ bodies) /\ ~ abandons
        ended  == {i \in Id : inst[i] = "Ended" /\ e.inst[i] # "Ended"}
    IN
    /\ \A i \in Id : inst[i] \in After(e.inst[i])
    /\ \A i \in Id : inst[i] \in Admitting => run \in Admitting
    /\ run = "Ended" => ~ flight /\ \A i \in Id : ~ Live(inst[i])
    /\ bodies => run \in Admitting /\ thread.at = "none"
    /\ abandons => e.flight /\ aborts /\ run \notin Admitting
    /\ aborts => e.flight
    /\ engine' = [run |-> run, inst |-> inst, flight |-> flight,
                  outcome |-> IF run = "Ended" THEN out ELSE "none"]
    /\ \E endings \in Orders(ended) :
         driver' = [driver EXCEPT
           !.at = "perform",
           !.todo = Effects(spawned, bodies, aborts, endings,
                            IF run = "Ended" THEN out ELSE "none")]
    /\ past' = [past EXCEPT !.steady = @ \/ run = "Steady",
                            !.ready = @ \cup {i \in Id : inst[i] = "Steady"}]

(* A request before the first step ends the run there and then.            *)
EndsUnstarted ==
  /\ engine' = [engine EXCEPT !.run = "Ended", !.outcome = "Cancelled"]
  /\ driver' = [driver EXCEPT !.at = "perform",
                              !.todo = Effects(<<>>, FALSE, FALSE, <<>>, "Cancelled")]
  /\ past' = past

(* An instance that is announced to a scope that settled meanwhile is      *)
(* recorded and ended at once.                                             *)
Recorded(id) ==
  [engine EXCEPT !.inst[id] = IF engine.run \in Admitting THEN "Admitting" ELSE "Settling"]

React(m) ==
  CASE engine.run = "Planned" -> EndsUnstarted
    [] engine.run # "Planned" /\ m.msg = "Spawned" -> Steps(Recorded(m.id), <<m.id>>)
    [] engine.run # "Planned" /\ m.msg = "Body" -> Steps([engine EXCEPT !.flight = FALSE], <<>>)
    [] engine.run # "Planned" /\ m.msg \notin {"Spawned", "Body"} -> Steps(engine, <<>>)

-----------------------------------------------------------------------------
(* The driver task.                                                        *)

At(p) == driver.at = p
Goes(p) == driver' = [driver EXCEPT !.at = p]

(* MUTANT of FirstPoll: what was queued waits for its turn.                 *)
IgnoresQueued ==
  /\ At("boot") /\ Goes("idle")
  /\ past' = [past EXCEPT !.early = mail # <<>>]
  /\ UNCHANGED <<user, engine, mail, latch, channel, table, thread, latches, word, inputs,
                 waiter, count>>

(* What was queued before the first poll comes before the ship boundary.   *)
FirstPoll ==
  /\ At("boot")
  /\ driver' = [driver EXCEPT !.at = "idle", !.backlog = Len(mail)]
  /\ past' = [past EXCEPT !.early = mail # <<>>]
  /\ UNCHANGED <<user, engine, mail, latch, channel, table, thread, latches, word, inputs,
                 waiter, count>>

BeginRun ==
  /\ At("idle") /\ ~ driver.begun /\ driver.backlog = 0 /\ engine.run = "Planned"
  /\ \E bodies \in BOOLEAN, run \in Admitting :
       /\ engine' = [engine EXCEPT !.run = run, !.flight = bodies]
       /\ driver' = [driver EXCEPT !.at = "perform", !.begun = TRUE,
                                   !.todo = Effects(<<>>, bodies, FALSE, <<>>, "none")]
       /\ past' = [past EXCEPT !.steady = @ \/ run = "Steady", !.effects = TRUE]
  /\ UNCHANGED <<user, mail, latch, channel, table, thread, latches, word, inputs, waiter,
                 count>>

Receive ==
  /\ At("idle") /\ mail # <<>>
  /\ driver.begun \/ driver.backlog > 0
  /\ mail' = Tail(mail)
  /\ React(Head(mail))
  /\ UNCHANGED <<user, latch, channel, table, thread, latches, word, inputs, waiter, count>>

(* MUTANT of EndInstance: the entry is left to whoever reads it.           *)
LeavesEntry(id) == UNCHANGED <<latches, word>>

(* InstanceEnded: the entry is taken out and its latch answered.           *)
EndInstance(id) ==
  /\ latches' = [latches EXCEPT ![id] = "absent"]
  /\ word' = IF latches[id] # "absent" /\ word[id] = "none"
             THEN [word EXCEPT ![id] = "Failed"] ELSE word

Perform ==
  /\ At("perform") /\ driver.todo # <<>>
  /\ driver' = [driver EXCEPT !.todo = Tail(@)]
  /\ LET e == Head(driver.todo) IN
     /\ thread' = CASE e.fx = "Spawn" -> [thread EXCEPT !.at = "free"]
                    [] e.fx = "Abort" -> [thread EXCEPT !.aborted = TRUE]
                    [] OTHER -> thread
     /\ IF e.fx = "SpawnInstance"
        THEN /\ inputs' = inputs \ {e.id}
             /\ past' = [past EXCEPT !.missing = @ \cup ({e.id} \ inputs)]
        ELSE UNCHANGED <<inputs, past>>
     /\ IF e.fx = "InstanceEnded" THEN EndInstance(e.id) ELSE UNCHANGED <<latches, word>>
  /\ UNCHANGED <<user, engine, mail, latch, channel, table, waiter, count>>

Latched(v) == IF latch = "none" THEN v ELSE latch

PublishSnapshot ==
  /\ At("perform") /\ driver.todo = <<>>
  /\ latch' = IF engine.run = "Steady" THEN Latched("Ready") ELSE latch
  /\ Goes("table")
  /\ UNCHANGED <<user, engine, mail, channel, table, thread, latches, word, inputs, waiter,
                 count, past>>

Gate == IF engine.run \in Admitting THEN "open" ELSE "closed"

PublishTable ==
  /\ At("table")
  /\ table' = Gate
  /\ Goes("resolve")
  /\ UNCHANGED <<user, engine, mail, latch, channel, thread, latches, word, inputs, waiter,
                 count, past>>

(* MUTANT of Answerable: an instance that is coming up counts as ready.     *)
AnyLive(id) == Live(engine.inst[id]) /\ latches[id] = "open"

Answerable(id) == engine.inst[id] = "Steady" /\ latches[id] = "open"

(* The entries are marked under the lock and the latches set outside it.   *)
Resolve ==
  /\ At("resolve")
  /\ LET S == {i \in Id : Answerable(i)} IN
     /\ driver' = [driver EXCEPT !.at = "wake", !.answers = S]
     /\ latches' = [i \in Id |-> IF i \in S THEN "answered" ELSE latches[i]]
  /\ UNCHANGED <<user, engine, mail, latch, channel, table, thread, word, inputs, waiter,
                 count, past>>

Wake ==
  /\ At("wake")
  /\ word' = [i \in Id |-> IF i \in driver.answers /\ word[i] = "none" THEN "Ready" ELSE word[i]]
  /\ driver' = [driver EXCEPT
       !.answers = {}, !.backlog = IF @ = 0 THEN 0 ELSE @ - 1,
       !.at = IF engine.run = "Ended" THEN "finish" ELSE "idle"]
  /\ UNCHANGED <<user, engine, mail, latch, channel, table, thread, latches, inputs, waiter,
                 count, past>>

(* The latch first: whoever waits for readiness must not wait for the      *)
(* observer that is handed the report.                                     *)
Finish ==
  /\ At("finish")
  /\ latch' = Latched(engine.outcome)
  /\ Goes("report")
  /\ UNCHANGED <<user, engine, mail, channel, table, thread, latches, word, inputs, waiter,
                 count, past>>

SendReport ==
  /\ At("report")
  /\ channel' = engine.outcome
  /\ Goes("gone")
  /\ UNCHANGED <<user, engine, mail, latch, table, thread, latches, word, inputs, waiter,
                 count, past>>

(* MUTANT of TornDown: nothing speaks for the run.                          *)
Vanishes ==
  /\ At("boot") \/ (At("idle") /\ driver.begun)
  /\ Goes("gone")
  /\ thread' = [thread EXCEPT !.aborted = TRUE]
  /\ UNCHANGED <<user, engine, mail, table, latches, word, inputs, waiter, count, past, latch,
                 channel>>

(* The runtime is dropped with the run: the driver's future, which stands  *)
(* at an await, goes and says so; the bodies go too.                       *)
TornDown ==
  /\ At("boot") \/ (At("idle") /\ driver.begun)
  /\ latch' = Latched("Cancelled") /\ channel' = "Cancelled"
  /\ Goes("gone")
  /\ thread' = [thread EXCEPT !.aborted = TRUE]
  /\ UNCHANGED <<user, engine, mail, table, latches, word, inputs, waiter, count, past>>

-----------------------------------------------------------------------------
(* The handle.                                                             *)

Send(m) == mail' = IF At("gone") THEN mail ELSE Append(mail, m)

(* The first poll of Running, or ready(), spawns the driver.               *)
Launch ==
  /\ user = "Idle"
  /\ user' = "Live" /\ Goes("boot")
  /\ UNCHANGED <<engine, mail, latch, channel, table, thread, latches, word, inputs, waiter,
                 count, past>>

DropRunning ==
  /\ user \in {"Idle", "Live"} /\ user' = "Dropped"
  /\ IF user = "Live" THEN Send([msg |-> "Dropped"]) ELSE mail' = mail
  /\ UNCHANGED <<engine, driver, latch, channel, table, thread, latches, word, inputs, waiter,
                 count, past>>

TakeReport ==
  /\ user = "Live" /\ channel # "none"
  /\ user' = "Done"
  /\ UNCHANGED <<engine, driver, mail, latch, channel, table, thread, latches, word, inputs,
                 waiter, count, past>>

Request ==
  /\ count.requests < MaxRequests /\ user \in {"Idle", "Live"}
  /\ count' = [count EXCEPT !.requests = @ + 1]
  /\ Send([msg |-> "Request"])
  /\ UNCHANGED <<user, engine, driver, latch, channel, table, thread, latches, word, inputs,
                 waiter, past>>

(* A timer, or a body this module does not look at.                        *)
OtherEvent ==
  /\ count.events < MaxEvents /\ driver.begun /\ ~ At("gone")
  /\ count' = [count EXCEPT !.events = @ + 1]
  /\ Send([msg |-> "Event"])
  /\ UNCHANGED <<user, engine, driver, latch, channel, table, thread, latches, word, inputs,
                 waiter, past>>

-----------------------------------------------------------------------------
(* A body that spawns: spawn_instance, one lock after the other.           *)

Moves(p) == thread' = [thread EXCEPT !.at = p]

(* The gate as of the last step the driver published.                      *)
CheckGate ==
  /\ thread.at = "free" /\ count.ids < Cardinality(Id)
  /\ Moves(CASE table = "default" -> "ForeignTemplate"
             [] table = "closed"  -> "ScopeStopping"
             [] table = "open"    -> "checked")
  /\ UNCHANGED <<user, engine, driver, mail, latch, channel, table, latches, word, inputs,
                 waiter, count, past>>

(* An id of its own, and the entry that Child::ready() will look up.       *)
Enter ==
  /\ thread.at = "checked"
  /\ count' = [count EXCEPT !.ids = @ + 1]
  /\ thread' = [thread EXCEPT !.at = "entered", !.id = count.ids + 1]
  /\ latches' = [latches EXCEPT ![count.ids + 1] = "open"]
  /\ UNCHANGED <<user, engine, driver, mail, latch, channel, table, word, inputs, waiter, past>>

(* MUTANT of Store: the input stays with the body.                         *)
KeepsInput ==
  /\ thread.at = "entered"
  /\ Moves("stored")
  /\ UNCHANGED <<user, engine, driver, mail, latch, channel, table, latches, word, inputs,
                 waiter, count, past>>

Store ==
  /\ thread.at = "entered"
  /\ inputs' = inputs \cup {thread.id}
  /\ Moves("stored")
  /\ UNCHANGED <<user, engine, driver, mail, latch, channel, table, latches, word, waiter,
                 count, past>>

Announce ==
  /\ thread.at = "stored"
  /\ Send([msg |-> "Spawned", id |-> thread.id])
  /\ Moves("free")
  /\ UNCHANGED <<user, engine, driver, latch, channel, table, latches, word, inputs, waiter,
                 count, past>>

(* The ids the body holds a Child of.                                      *)
Children ==
  {i \in 1 .. count.ids :
     i # thread.id \/ thread.at \notin {"entered", "stored"}}

(* Child::ready() looks the latch up; one that is gone was answered.       *)
Await(i) ==
  /\ thread.at = "free" /\ i \in Children /\ waiter[i] = "none"
  /\ waiter' = [waiter EXCEPT ![i] = IF latches[i] = "absent" THEN "gone" ELSE "waiting"]
  /\ UNCHANGED <<user, engine, driver, mail, latch, channel, table, thread, latches, word,
                 inputs, count, past>>

Answered(i) ==
  /\ waiter[i] = "waiting" /\ word[i] # "none"
  /\ waiter' = [waiter EXCEPT ![i] = word[i]]
  /\ UNCHANGED <<user, engine, driver, mail, latch, channel, table, thread, latches, word,
                 inputs, count, past>>

Stop(i) ==
  /\ count.events < MaxEvents /\ thread.at = "free" /\ i \in Children
  /\ count' = [count EXCEPT !.events = @ + 1]
  /\ Send([msg |-> "Stop", id |-> i])
  /\ UNCHANGED <<user, engine, driver, latch, channel, table, thread, latches, word, inputs,
                 waiter, past>>

(* The body returns, or is dropped at an await once it was aborted.        *)
BodyEnds ==
  /\ thread.at \in {"free", "ForeignTemplate", "ScopeStopping"}
  /\ thread' = [thread EXCEPT !.at = "gone"]
  /\ Send([msg |-> "Body"])
  /\ UNCHANGED <<user, engine, driver, latch, channel, table, latches, word, inputs, waiter,
                 count, past>>

Terminated ==
  /\ At("gone") \/ (At("unborn") /\ user = "Dropped")
  /\ UNCHANGED vars

DriverStep ==
  \/ FirstPoll \/ BeginRun \/ Receive \/ Perform \/ PublishSnapshot
  \/ PublishTable \/ Resolve \/ Wake \/ Finish \/ SendReport

BodyStep ==
  \/ CheckGate \/ Enter \/ Store \/ Announce \/ BodyEnds
  \/ \E i \in Id : Await(i) \/ Answered(i) \/ Stop(i)

Next ==
  \/ DriverStep \/ TornDown \/ BodyStep
  \/ Launch \/ DropRunning \/ TakeReport \/ Request \/ OtherEvent
  \/ Terminated

Spec == Init /\ [][Next]_vars

(* The driver task is scheduled, an announced spawn is completed, and the  *)
(* waiting tasks that were woken are polled.                               *)
Fairness ==
  /\ WF_vars(DriverStep) /\ WF_vars(TakeReport)
  /\ WF_vars(Enter \/ Store \/ Announce)
  /\ \A i \in Id : WF_vars(Answered(i))

FairSpec == Spec /\ Fairness
=============================================================================
