---------------------------- MODULE DriverProofs ----------------------------
(***************************************************************************)
(* The driver keeps the engine's picture of its tasks true, for every      *)
(* number of nodes, every set of valid plans and any number of requests.   *)
(* The invariant says, node by node, what the tasks, the mailbox, the      *)
(* current attempt and the value slot have to do with what the engine      *)
(* asked for; that every step of the driver is a step of the engine or     *)
(* none then brings all that was proved of the engine over.                *)
(***************************************************************************)
EXTENDS DriverProperties, TaskProofs, AdmissionProofs

BodyMail ==
  [node : Node, epoch : Nat, phase : {"run", "serve", "cleanup"}, ev : BodyEvents]
TimerMail ==
  {ScopeTimer("Budget"), ScopeTimer("Zero")} \cup
  [timer : {"Within", "Grace", "Backoff", "StopDeadline"}, node : Node, attempt : Nat,
   restarts : Nat]
RequestMail == [request : {"Shutdown", "Cancel"}]
Mail == BodyMail \cup TimerMail \cup RequestMail

HostTyped ==
  /\ live \in [Node -> Live] /\ task \subseteq Task
  /\ mail \in Seq(Mail) /\ bank \in [Node -> Nat]

(* What ends an attempt, an episode or a cleanup.                          *)
IsAnswer(m) == IsBody(m) /\ m.ev \notin {"Started", "Held"}

(* The task is the one that was asked for, aborted if that was.            *)
Tracked(t) ==
  LET b == body[t.node] IN
  /\ b.phase # "none" /\ t.phase = b.phase /\ t.epoch = live[t.node].epoch
  /\ (t.aborted = "no") <=> ~ b.aborted

(* The message is of the current attempt, and says what its task may say.  *)
Current(m) ==
  LET n == m.node
      b == body[n]
      a == live[n]
  IN /\ m.epoch = a.epoch
     /\ ~ Ended \/ IsAnswer(m) => b.phase # "none"
     /\ b.phase # "none" => m.phase = b.phase
     /\ m.ev \in {"Started", "Held"} => m.phase = "run"
     /\ m.ev = "Held" => CanHold(n) /\ a.acquired /\ ~ slot[n].held
     /\ m.ev \in {"Ok", "Err"} => m.phase # "serve"
     /\ m.ev \in {"ServeOk", "ServeErr"} => m.phase = "serve"
     /\ m.ev = "Cancelled" => b.aborted
     /\ m.ev = "Ok" /\ m.phase = "run" => a.cx \in {"output", "held"}

(* A node has one task, or its answer is queued, behind all it said.       *)
OneTask == \A t, u \in task : t.node = u.node => t = u
OneAnswer ==
  /\ \A t \in task, i \in DOMAIN mail : IsAnswer(mail[i]) => mail[i].node # t.node
  /\ \A i, j \in DOMAIN mail :
       i < j /\ IsBody(mail[i]) /\ IsBody(mail[j]) /\ mail[i].node = mail[j].node =>
         /\ ~ IsAnswer(mail[i])
         /\ ~ (mail[i].ev = "Held" /\ mail[j].ev = "Held")
Heard(n) ==
  body[n].phase # "none" =>
    \/ \E t \in task : t.node = n
    \/ \E i \in DOMAIN mail : IsAnswer(mail[i]) /\ mail[i].node = n

(* The books of the driver on the current attempt of n, and its slot.      *)
Lodged(n) ==
  LET s == slot[n]
      b == body[n]
      a == live[n]
  IN /\ b.phase # "none" => a.epoch # 0 /\ (a.handle <=> ~ b.aborted)
     /\ b.phase = "run" /\ a.acquired => a.cx = "held" /\ CanHold(n)
     /\ b.phase = "run" /\ s.held => a.acquired
     /\ s.held => CanHold(n)
     /\ ~ Ended /\ b.phase # "run" /\ s.held => a.epoch # 0 /\ bank[n] = a.epoch
     /\ Valued(n, s) => bank[n] # 0

(* Before the run there is nothing but requests.                           *)
Asleep ==
  scope.st = "Planned" =>
    /\ ~ scope.budget /\ ~ scope.zero /\ task = {}
    /\ \A n \in Node : /\ slot[n].timer = "none" /\ ~ slot[n].publishing
                       /\ body[n].phase = "none"
    /\ \A i \in DOMAIN mail : IsRequest(mail[i])

Hosted ==
  /\ HostTyped /\ OneTask /\ OneAnswer /\ Asleep
  /\ \A t \in task : Tracked(t)
  /\ \A i \in DOMAIN mail : IsBody(mail[i]) => Current(mail[i])
  /\ \A n \in Node : Heard(n) /\ Lodged(n)
  /\ refused \subseteq {<<"Held", "Abandoned">>}

-----------------------------------------------------------------------------
(* The mailbox.                                                            *)

LEMMA Sorts ==
  /\ \A m \in BodyMail : IsBody(m) /\ ~ IsTimer(m) /\ ~ IsRequest(m)
  /\ \A m \in TimerMail : ~ IsBody(m) /\ IsTimer(m) /\ ~ IsRequest(m)
  /\ \A m \in RequestMail : ~ IsBody(m) /\ ~ IsTimer(m) /\ IsRequest(m)
BY DEF BodyMail, TimerMail, RequestMail, IsBody, IsTimer, IsRequest, ScopeTimer

LEMMA BodySort ==
  ASSUME NEW m \in Mail, IsBody(m)
  PROVE  /\ m \in BodyMail /\ m.node \in Node /\ m.epoch \in Nat
         /\ m.phase \in {"run", "serve", "cleanup"} /\ m.ev \in BodyEvents
BY Sorts DEF Mail, BodyMail

(* What is left of the mailbox, in its order.                              *)
Trimmed ==
  /\ mail' \in Seq(Mail)
  /\ \E k \in {0, 1} : \A i \in DOMAIN mail' :
       i \in Nat /\ i + k \in DOMAIN mail /\ mail'[i] = mail[i + k]

LEMMA TailTrims ==
  ASSUME HostTyped, mail # <<>>, mail' = Tail(mail)
  PROVE  /\ Trimmed /\ Head(mail) \in Mail /\ Head(mail) = mail[1] /\ 1 \in DOMAIN mail
         /\ \A i \in DOMAIN mail' : /\ i + 1 \in DOMAIN mail /\ 1 < i + 1
                                    /\ mail'[i] = mail[i + 1]
         /\ \A i \in DOMAIN mail : i = 1 \/ \E j \in DOMAIN mail' : mail'[j] = mail[i]
<1>1. mail \in Seq(Mail)
  BY DEF HostTyped
<1>2. /\ mail' \in Seq(Mail) /\ Head(mail) \in Mail /\ Head(mail) = mail[1] /\ 1 \in DOMAIN mail
      /\ Len(mail') = Len(mail) - 1
  BY <1>1
<1>3. DOMAIN mail' = 1 .. Len(mail') /\ DOMAIN mail = 1 .. Len(mail) /\ Len(mail) \in Nat
  BY <1>1, <1>2
<1>4. ASSUME NEW i \in DOMAIN mail'
      PROVE  i \in Nat /\ i + 1 \in DOMAIN mail /\ 1 < i + 1 /\ mail'[i] = mail[i + 1]
  BY <1>1, <1>2, <1>3
<1>5. ASSUME NEW i \in DOMAIN mail
      PROVE  i = 1 \/ \E j \in DOMAIN mail' : mail'[j] = mail[i]
  <2>1. CASE i # 1
    <3>1. i - 1 \in DOMAIN mail' /\ (i - 1) + 1 = i
      BY <1>2, <1>3, <2>1
    <3>2. mail'[i - 1] = mail[i]
      BY <3>1, <1>4
    <3> QED BY <3>1, <3>2
  <2> QED BY <2>1
<1> QED BY <1>2, <1>4, <1>5 DEF Trimmed

(* What is sent comes last.                                                *)
LEMMA SentLast ==
  ASSUME HostTyped, NEW r \in Seq(Mail), mail' = mail \o r
  PROVE  /\ mail' \in Seq(Mail)
         /\ \A i \in DOMAIN mail : i \in DOMAIN mail' /\ mail'[i] = mail[i]
         /\ \A i \in DOMAIN mail' :
              \/ i \in DOMAIN mail /\ mail'[i] = mail[i]
              \/ /\ i - Len(mail) \in DOMAIN r /\ mail'[i] = r[i - Len(mail)]
                 /\ i > Len(mail)
         /\ \A i \in DOMAIN r :
              i + Len(mail) \in DOMAIN mail' /\ mail'[i + Len(mail)] = r[i]
         /\ DOMAIN mail = 1 .. Len(mail) /\ DOMAIN r = 1 .. Len(r) /\ Len(mail) \in Nat
<1>1. mail \in Seq(Mail)
  BY DEF HostTyped
<1>2. /\ mail' \in Seq(Mail) /\ Len(mail') = Len(mail) + Len(r)
      /\ DOMAIN mail = 1 .. Len(mail) /\ DOMAIN r = 1 .. Len(r)
      /\ DOMAIN mail' = 1 .. (Len(mail) + Len(r)) /\ Len(mail) \in Nat /\ Len(r) \in Nat
  BY <1>1
<1>3. \A i \in 1 .. (Len(mail) + Len(r)) :
        mail'[i] = IF i <= Len(mail) THEN mail[i] ELSE r[i - Len(mail)]
  BY <1>1
<1>4. \A i \in DOMAIN mail : i \in DOMAIN mail' /\ mail'[i] = mail[i]
  BY <1>2, <1>3
<1>5. \A i \in DOMAIN mail' :
        \/ i \in DOMAIN mail /\ mail'[i] = mail[i]
        \/ i - Len(mail) \in DOMAIN r /\ mail'[i] = r[i - Len(mail)] /\ i > Len(mail)
  BY <1>2, <1>3
<1>6. \A i \in DOMAIN r : i + Len(mail) \in DOMAIN mail' /\ mail'[i + Len(mail)] = r[i]
  <2> SUFFICES ASSUME NEW i \in DOMAIN r
               PROVE  i + Len(mail) \in DOMAIN mail' /\ mail'[i + Len(mail)] = r[i]
    OBVIOUS
  <2>1. i \in Nat /\ i + Len(mail) \in DOMAIN mail' /\ ~ (i + Len(mail) <= Len(mail))
    BY <1>2
  <2>2. (i + Len(mail)) - Len(mail) = i
    BY <1>2, <2>1
  <2> QED BY <1>2, <1>3, <2>1, <2>2
<1> QED BY <1>2, <1>4, <1>5, <1>6

-----------------------------------------------------------------------------
(* What the driver does with what the engine asked for.                    *)

(* d keeps its task, or gets one where it had none.                        *)
Continues(d) ==
  /\ body[d].phase # "none" => /\ body'[d].phase = body[d].phase
                               /\ body[d].aborted => body'[d].aborted
                               /\ slot'[d].attempt = slot[d].attempt
  /\ body[d].phase = "none" => ~ body'[d].aborted
  /\ slot'[d].restarts = slot[d].restarts

(* The task of d has ended, and the one it has then is another.            *)
Frees(d) == ~ body'[d].aborted /\ (body'[d].phase # "none" => SpawnAsked(d))

LEMMA FollowsAsks ==
  ASSUME NEW d \in Node, Continues(d)
  PROVE  /\ SpawnAsked(d) <=> body[d].phase = "none" /\ body'[d].phase # "none"
         /\ AbortAsked(d) => body[d].phase # "none"
BY DEF Continues, SpawnAsked, AbortAsked

LEMMA FreesAsks ==
  ASSUME NEW d \in Node, Frees(d)
  PROVE  /\ SpawnAsked(d) <=> body'[d].phase # "none"
         /\ ~ AbortAsked(d)
BY DEF Frees, SpawnAsked, AbortAsked

LEMMA FreshIs ==
  ASSUME HostTyped, TypeOK', NEW d \in Node, SpawnAsked(d)
  PROVE  /\ Fresh(d) \in Task /\ Fresh(d).node = d /\ Fresh(d).phase = body'[d].phase
         /\ Fresh(d).epoch = EpochFor(d, body'[d].phase) /\ Fresh(d).aborted = "no"
         /\ EpochFor(d, body'[d].phase) \in Nat \ {0}
<1>1. live[d].epoch \in Nat
  BY DEF HostTyped, Live
<1>2. EpochFor(d, body'[d].phase) \in Nat \ {0}
  BY <1>1 DEF EpochFor
<1>3. body'[d].phase \in {"run", "serve", "cleanup"}
  BY DEF SpawnAsked, TypeOK, Here, State, Body
<1> QED BY <1>2, <1>3 DEF Fresh, Task

LEMMA PerformLive ==
  ASSUME HostTyped, TypeOK', NEW lv \in [Node -> Live], Perform(lv)
  PROVE  /\ live' \in [Node -> Live]
         /\ \A d \in Node :
              /\ SpawnAsked(d) => /\ live'[d].epoch = EpochFor(d, body'[d].phase)
                                  /\ ~ live'[d].acquired /\ live'[d].handle
              /\ ~ SpawnAsked(d) => /\ live'[d].epoch = lv[d].epoch /\ live'[d].cx = lv[d].cx
                                    /\ live'[d].acquired = lv[d].acquired
                                    /\ live'[d].handle = (lv[d].handle /\ ~ AbortAsked(d))
<1> DEFINE f(d) ==
             IF SpawnAsked(d)
             THEN [epoch |-> EpochFor(d, body'[d].phase), cx |-> "empty", acquired |-> FALSE,
                   handle |-> TRUE]
             ELSE IF AbortAsked(d) THEN [lv[d] EXCEPT !.handle = FALSE] ELSE lv[d]
<1>1. live' = [d \in Node |-> f(d)]
  <2>1. \A d \in Node : d \in {n \in Node : SpawnAsked(n)} <=> SpawnAsked(d)
    OBVIOUS
  <2> QED BY <2>1 DEF Perform
<1>2. ASSUME NEW d \in Node
      PROVE  /\ f(d) \in Live
             /\ SpawnAsked(d) => /\ f(d).epoch = EpochFor(d, body'[d].phase)
                                 /\ ~ f(d).acquired /\ f(d).handle
             /\ ~ SpawnAsked(d) => /\ f(d).epoch = lv[d].epoch /\ f(d).cx = lv[d].cx
                                   /\ f(d).acquired = lv[d].acquired
                                   /\ f(d).handle = (lv[d].handle /\ ~ AbortAsked(d))
  <2>1. CASE SpawnAsked(d)
    <3>1. EpochFor(d, body'[d].phase) \in Nat
      BY <2>1, FreshIs
    <3> QED BY <2>1, <3>1 DEF Live
  <2>2. CASE ~ SpawnAsked(d)
    <3>1. lv[d] \in Live
      OBVIOUS
    <3> QED BY <2>2, <3>1 DEF Live
  <2> QED BY <2>1, <2>2
<1> HIDE DEF f
<1>3. \A d \in Node : live'[d] = f(d)
  BY <1>1
<1> QED BY <1>1, <1>2, <1>3

(* The tasks after it are those that were asked for.                       *)
LEMMA PerformTasks ==
  ASSUME HostTyped, TypeOK', OneTask, \A t \in task : Tracked(t), \A n \in Node : Lodged(n),
         NEW lv \in [Node -> Live], \A n \in Node : lv[n].epoch = live[n].epoch, Perform(lv),
         \A d \in Node : Continues(d) \/ (Frees(d) /\ \A t \in task : t.node # d)
  PROVE  /\ task' \subseteq Task /\ OneTask' /\ \A u \in task' : Tracked(u)'
         /\ \A t \in task : \E u \in task' : u.node = t.node
         /\ \A u \in task' : SpawnAsked(u.node) \/ \E t \in task : u.node = t.node
         /\ \A d \in Node : SpawnAsked(d) => \E u \in task' : u.node = d
<1> DEFINE g(t) == IF Aborts(t) THEN [t EXCEPT !.aborted = "yes"] ELSE t
<1>1. task' = {g(t) : t \in task} \cup {Fresh(n) : n \in {d \in Node : SpawnAsked(d)}}
  BY DEF Perform
<1>2. ASSUME NEW t \in task
      PROVE  /\ g(t) \in Task /\ g(t).node = t.node /\ t.node \in Node
             /\ ~ SpawnAsked(t.node) /\ \A u \in {g(t)} : Tracked(u)'
  <2>1. t \in Task /\ t.node \in Node /\ Tracked(t) /\ Lodged(t.node)
    BY DEF HostTyped, Task
  <2>2. /\ g(t) \in Task /\ g(t).node = t.node /\ g(t).phase = t.phase
        /\ g(t).epoch = t.epoch
        /\ g(t).aborted = IF Aborts(t) THEN "yes" ELSE t.aborted
    BY <2>1 DEF Task
  <2> HIDE DEF g
  <2>3. Continues(t.node) /\ body[t.node].phase # "none"
    BY <2>1 DEF Tracked
  <2>4. /\ ~ SpawnAsked(t.node) /\ body'[t.node].phase = body[t.node].phase
        /\ live'[t.node].epoch = live[t.node].epoch
    BY <2>1, <2>3, FollowsAsks, PerformLive DEF Continues
  <2>5. Aborts(t) <=> AbortAsked(t.node)
    BY <2>1, <2>3 DEF Aborts, Lodged, Tracked, AbortAsked
  <2>6. (g(t).aborted = "no") <=> ~ body'[t.node].aborted
    <3>1. (t.aborted = "no") <=> ~ body[t.node].aborted
      BY <2>1 DEF Tracked
    <3>2. body[t.node].aborted => body'[t.node].aborted
      BY <2>3 DEF Continues
    <3>3. CASE AbortAsked(t.node)
      BY <2>2, <2>5, <3>3 DEF AbortAsked
    <3>4. CASE ~ AbortAsked(t.node)
      BY <2>2, <2>5, <3>1, <3>2, <3>4 DEF AbortAsked
    <3> QED BY <3>3, <3>4
  <2>7. /\ body'[g(t).node].phase # "none" /\ g(t).phase = body'[g(t).node].phase
        /\ g(t).epoch = live'[g(t).node].epoch
    BY <2>1, <2>2, <2>3, <2>4 DEF Tracked
  <2> QED BY <2>1, <2>2, <2>4, <2>6, <2>7 DEF Tracked
<1> HIDE DEF g
<1>3. ASSUME NEW d \in Node, SpawnAsked(d)
      PROVE  Fresh(d) \in Task /\ Fresh(d).node = d /\ \A u \in {Fresh(d)} : Tracked(u)'
  <2>1. ~ body'[d].aborted /\ body'[d].phase # "none"
    BY <1>3, FollowsAsks, FreesAsks DEF Continues, Frees
  <2>2. /\ Fresh(d) \in Task /\ Fresh(d).node = d /\ Fresh(d).phase = body'[d].phase
        /\ Fresh(d).epoch = live'[d].epoch /\ Fresh(d).aborted = "no"
    BY <1>3, FreshIs, PerformLive
  <2> QED BY <2>1, <2>2 DEF Tracked
<1>4. ASSUME NEW u \in task'
      PROVE  \/ \E t \in task : u = g(t)
             \/ \E d \in Node : SpawnAsked(d) /\ u = Fresh(d)
  BY <1>1
<1>5. OneTask'
  <2> SUFFICES ASSUME NEW u \in task', NEW w \in task', u.node = w.node
               PROVE  u = w
    BY DEF OneTask
  <2>1. CASE \E t \in task : u = g(t)
    <3>1. PICK t \in task : u = g(t)
      BY <2>1
    <3>2. ~ \E d \in Node : SpawnAsked(d) /\ w = Fresh(d)
      BY <1>2, <1>3, <3>1
    <3>3. PICK x \in task : w = g(x)
      BY <1>4, <3>2
    <3>4. t = x
      BY <1>2, <3>1, <3>3 DEF OneTask
    <3> QED BY <3>1, <3>3, <3>4
  <2>2. CASE \E d \in Node : SpawnAsked(d) /\ u = Fresh(d)
    <3>1. PICK d \in Node : SpawnAsked(d) /\ u = Fresh(d)
      BY <2>2
    <3>2. ~ \E t \in task : w = g(t)
      BY <1>2, <1>3, <3>1
    <3>3. PICK e \in Node : SpawnAsked(e) /\ w = Fresh(e)
      BY <1>4, <3>2
    <3>4. d = e
      BY <1>3, <3>1, <3>3
    <3> QED BY <3>1, <3>3, <3>4
  <2> QED BY <1>4, <2>1, <2>2
<1>6. \A u \in task' : u \in Task /\ Tracked(u)'
  BY <1>2, <1>3, <1>4
<1>7. \A t \in task : \E u \in task' : u.node = t.node
  BY <1>1, <1>2
<1>8. \A d \in Node : SpawnAsked(d) => \E u \in task' : u.node = d
  BY <1>1, <1>3
<1>9. \A u \in task' : SpawnAsked(u.node) \/ \E t \in task : u.node = t.node
  BY <1>2, <1>3, <1>4
<1> QED BY <1>5, <1>6, <1>7, <1>8, <1>9

(* Who is still queued, and where the answers went.                        *)
Survives(R) ==
  \A i \in DOMAIN mail :
    IsAnswer(mail[i]) => mail[i].node \in R \/ \E j \in DOMAIN mail' : mail'[j] = mail[i]

(* The tasks of R have ended and nobody speaks for them any more; the      *)
(* others go on, with the driver's own books on them as they were.         *)
Parting(R, lv) ==
  /\ \A d \in Node :
       IF d \in R
       THEN /\ Frees(d) /\ \A t \in task : t.node # d
            /\ \A i \in DOMAIN mail' : IsBody(mail'[i]) => mail'[i].node # d
       ELSE Continues(d) /\ lv[d] = live[d]
  /\ lv \in [Node -> Live]
  /\ \A d \in Node : lv[d].epoch = live[d].epoch

(* The slot of d after the event fits what the driver has banked.          *)
Suits(d) ==
  /\ slot'[d].held => CanHold(d)
  /\ slot'[d].held /\ body'[d].phase = "run" => ~ SpawnAsked(d) /\ live[d].acquired
  /\ slot'[d].held /\ body'[d].phase # "run" =>
       live[d].epoch # 0 /\ bank'[d] = live[d].epoch
  /\ Valued(d, slot'[d]) => bank'[d] # 0

Unheld ==
  \A i \in DOMAIN mail' :
    IsBody(mail'[i]) /\ mail'[i].ev = "Held" => ~ slot'[mail'[i].node].held

LEMMA PerformMail ==
  ASSUME Hosted, TypeOK', plan' = plan, ~ Ended, Trimmed, Unheld,
         NEW R, NEW lv, Parting(R, lv), Survives(R), Perform(lv)
  PROVE  /\ OneAnswer'
         /\ \A i \in DOMAIN mail' : IsBody(mail'[i]) => Current(mail[i])'
         /\ \A n \in Node : Heard(n)'
<1>1. /\ \A d \in Node : Continues(d) \/ (Frees(d) /\ \A t \in task : t.node # d)
      /\ lv \in [Node -> Live] /\ \A d \in Node : lv[d].epoch = live[d].epoch
  BY DEF Parting
<1>2. /\ HostTyped /\ OneTask /\ OneAnswer /\ \A t \in task : Tracked(t)
      /\ \A n \in Node : Lodged(n)
  BY DEF Hosted
<1>3. /\ \A t \in task : \E u \in task' : u.node = t.node
      /\ \A u \in task' : SpawnAsked(u.node) \/ \E t \in task : u.node = t.node
      /\ \A d \in Node : SpawnAsked(d) => \E u \in task' : u.node = d
      /\ task' \subseteq Task
  BY <1>1, <1>2, PerformTasks
<1>4. PICK k \in {0, 1} : \A i \in DOMAIN mail' :
        i \in Nat /\ i + k \in DOMAIN mail /\ mail'[i] = mail[i + k]
  BY DEF Trimmed
<1>5. \A i \in DOMAIN mail : mail[i] \in Mail
  BY <1>2 DEF HostTyped
<1>6. ASSUME NEW i \in DOMAIN mail', IsBody(mail'[i])
      PROVE  /\ mail'[i].node \in Node /\ mail'[i].node \notin R
             /\ body[mail'[i].node].phase # "none" /\ Current(mail'[i])
             /\ mail'[i].ev \in BodyEvents
  <2>1. i + k \in DOMAIN mail /\ mail'[i] = mail[i + k]
    BY <1>4
  <2>2. mail'[i] \in Mail /\ Current(mail'[i])
    BY <1>5, <1>6, <2>1 DEF Hosted
  <2>3. mail'[i].node \in Node /\ mail'[i].ev \in BodyEvents
    BY <1>6, <2>2, BodySort
  <2> QED BY <1>6, <2>2, <2>3 DEF Current, Parting
<1>7. ASSUME NEW i \in DOMAIN mail', IsBody(mail'[i])
      PROVE  Current(mail[i])'
  <2> DEFINE m == mail'[i]
             n == m.node
  <2>1. /\ n \in Node /\ n \notin R /\ body[n].phase # "none" /\ Current(m)
        /\ m.ev \in BodyEvents
    BY <1>6, <1>7
  <2>2. Continues(n) /\ lv[n] = live[n]
    BY <2>1 DEF Parting
  <2>3. /\ body'[n].phase = body[n].phase /\ (body[n].aborted => body'[n].aborted)
        /\ ~ SpawnAsked(n)
    BY <2>1, <2>2, FollowsAsks DEF Continues
  <2>4. /\ live'[n].epoch = live[n].epoch /\ live'[n].cx = live[n].cx
        /\ live'[n].acquired = live[n].acquired
    BY <1>1, <1>2, <2>1, <2>2, <2>3, PerformLive
  <2>5. m.ev = "Held" => ~ slot'[n].held
    BY <1>7 DEF Unheld
  <2>6. \A d : CanHold(d)' = CanHold(d)
    BY DEF CanHold, Decl
  <2> QED BY <2>1, <2>3, <2>4, <2>5, <2>6 DEF Current, Decl, CanHold
<1>8. OneAnswer'
  <2>1. ASSUME NEW u \in task', NEW i \in DOMAIN mail', IsAnswer(mail'[i])
        PROVE  mail'[i].node # u.node
    <3>1. /\ mail'[i].node \in Node /\ mail'[i].node \notin R
          /\ body[mail'[i].node].phase # "none" /\ IsBody(mail'[i])
      BY <1>6, <2>1 DEF IsAnswer
    <3>2. ~ SpawnAsked(mail'[i].node)
      BY <3>1, FollowsAsks DEF Parting
    <3>3. ASSUME NEW t \in task PROVE mail'[i].node # t.node
      BY <1>2, <1>4, <2>1 DEF OneAnswer
    <3> QED BY <1>3, <3>2, <3>3
  <2>2. ASSUME NEW i \in DOMAIN mail', NEW j \in DOMAIN mail', i < j, IsBody(mail'[i]),
               IsBody(mail'[j]), mail'[i].node = mail'[j].node
        PROVE  ~ IsAnswer(mail'[i]) /\ ~ (mail'[i].ev = "Held" /\ mail'[j].ev = "Held")
    <3>1. i + k < j + k
      BY <1>4, <2>2
    <3> QED BY <1>2, <1>4, <2>2, <3>1 DEF OneAnswer
  <2> QED BY <2>1, <2>2 DEF OneAnswer, IsAnswer, IsBody
<1>9. ASSUME NEW n \in Node PROVE Heard(n)'
  <2> SUFFICES ASSUME body'[n].phase # "none"
               PROVE  \/ \E u \in task' : u.node = n
                      \/ \E i \in DOMAIN mail' : IsAnswer(mail'[i]) /\ mail'[i].node = n
    BY DEF Heard, IsAnswer, IsBody
  <2>1. CASE SpawnAsked(n)
    BY <1>3, <2>1
  <2>2. CASE ~ SpawnAsked(n)
    <3>1. n \notin R /\ body[n].phase # "none"
      BY <2>2, FollowsAsks DEF Parting, Frees
    <3>2. \/ \E t \in task : t.node = n
          \/ \E i \in DOMAIN mail : IsAnswer(mail[i]) /\ mail[i].node = n
      BY <3>1 DEF Hosted, Heard
    <3>3. CASE \E t \in task : t.node = n
      BY <1>3, <3>3
    <3>4. CASE \E i \in DOMAIN mail : IsAnswer(mail[i]) /\ mail[i].node = n
      BY <3>1, <3>4 DEF Survives
    <3> QED BY <3>2, <3>3, <3>4
  <2> QED BY <2>1, <2>2
<1> QED BY <1>7, <1>8, <1>9

LEMMA PerformLodges ==
  ASSUME Hosted, TypeOK', plan' = plan, ~ Ended, NEW R, NEW lv, Parting(R, lv), Perform(lv),
         NEW n \in Node, Suits(n)
  PROVE  Lodged(n)'
<1>1. lv \in [Node -> Live] /\ HostTyped /\ Lodged(n) /\ lv[n].epoch = live[n].epoch
  BY DEF Parting, Hosted
<1>2. /\ SpawnAsked(n) => /\ live'[n].epoch = EpochFor(n, body'[n].phase)
                          /\ ~ live'[n].acquired /\ live'[n].handle
      /\ ~ SpawnAsked(n) => /\ live'[n].epoch = live[n].epoch /\ live'[n].cx = lv[n].cx
                            /\ live'[n].acquired = lv[n].acquired
                            /\ live'[n].handle = (lv[n].handle /\ ~ AbortAsked(n))
  BY <1>1, PerformLive
<1>3. SpawnAsked(n) =>
        /\ EpochFor(n, body'[n].phase) # 0 /\ ~ body'[n].aborted
        /\ body'[n].phase = "cleanup" /\ live[n].epoch # 0 =>
             EpochFor(n, body'[n].phase) = live[n].epoch
  BY <1>1, FreshIs, FollowsAsks DEF Parting, Frees, Continues, EpochFor
<1>4. ~ SpawnAsked(n) /\ body'[n].phase # "none" =>
        /\ lv[n] = live[n] /\ body'[n].phase = body[n].phase
        /\ (body[n].aborted => body'[n].aborted)
  BY FollowsAsks DEF Parting, Frees, Continues
<1>5. /\ CanHold(n)' = CanHold(n) /\ Valued(n, slot'[n]) = Valued(n, slot[n])'
      /\ IsService(n)' = IsService(n)
  BY DEF CanHold, Decl, Valued, IsService
<1>6. /\ body'[n].phase = "serve" => ~ CanHold(n)
      /\ body'[n].phase \in {"none", "run", "serve", "cleanup"}
      /\ ~ SpawnAsked(n) => (body'[n].aborted => body[n].aborted \/ AbortAsked(n))
  BY <1>5 DEF TypeOK, Here, State, Body, IsService, CanHold, AbortAsked
<1>7. body'[n].phase # "none" =>
        live'[n].epoch # 0 /\ (live'[n].handle <=> ~ body'[n].aborted)
  <2>1. CASE SpawnAsked(n)
    BY <1>2, <1>3, <2>1
  <2>2. CASE ~ SpawnAsked(n)
    BY <1>1, <1>2, <1>4, <1>6, <2>2 DEF Lodged, AbortAsked
  <2> QED BY <2>1, <2>2
<1>8. body'[n].phase = "run" /\ live'[n].acquired => live'[n].cx = "held" /\ CanHold(n)
  BY <1>1, <1>2, <1>4 DEF Lodged
<1>9. body'[n].phase = "run" /\ slot'[n].held => live'[n].acquired
  BY <1>1, <1>2, <1>4 DEF Suits
<1>10. body'[n].phase # "run" /\ slot'[n].held =>
         live'[n].epoch # 0 /\ bank'[n] = live'[n].epoch
  <2> SUFFICES ASSUME body'[n].phase # "run", slot'[n].held
               PROVE  live'[n].epoch # 0 /\ bank'[n] = live'[n].epoch
    OBVIOUS
  <2>1. live[n].epoch # 0 /\ bank'[n] = live[n].epoch /\ CanHold(n)
    BY DEF Suits
  <2>2. CASE SpawnAsked(n)
    <3>1. body'[n].phase = "cleanup"
      BY <1>6, <2>1, <2>2 DEF SpawnAsked
    <3> QED BY <1>2, <1>3, <2>1, <2>2, <3>1
  <2>3. CASE ~ SpawnAsked(n)
    BY <1>2, <2>1, <2>3
  <2> QED BY <2>2, <2>3
<1> QED BY <1>5, <1>7, <1>8, <1>9, <1>10 DEF Suits, Lodged

LEMMA PerformHosts ==
  ASSUME Hosted, TypeOK', plan' = plan, ~ Ended, Launched(Here)', Trimmed, Unheld,
         NEW R, NEW lv, Parting(R, lv), Survives(R), Perform(lv), \A n \in Node : Suits(n),
         bank' \in [Node -> Nat], refused' \subseteq {<<"Held", "Abandoned">>}
  PROVE  Hosted'
<1>1. /\ \A d \in Node : Continues(d) \/ (Frees(d) /\ \A t \in task : t.node # d)
      /\ lv \in [Node -> Live] /\ \A d \in Node : lv[d].epoch = live[d].epoch
      /\ HostTyped /\ OneTask /\ \A t \in task : Tracked(t)
      /\ \A n \in Node : Lodged(n)
  BY DEF Parting, Hosted
<1>2. task' \subseteq Task /\ OneTask' /\ \A t \in task' : Tracked(t)'
  BY <1>1, PerformTasks
<1>3. HostTyped'
  BY <1>1, <1>2, PerformLive DEF HostTyped, Trimmed
<1>4. Asleep'
  BY DEF Launched, Here, Asleep
<1>5. /\ OneAnswer' /\ \A i \in DOMAIN mail' : IsBody(mail'[i]) => Current(mail[i])'
      /\ \A n \in Node : Heard(n)'
  BY PerformMail
<1>6. \A n \in Node : Lodged(n)'
  BY PerformLodges
<1>7. (\A i \in DOMAIN mail : IsBody(mail[i]) => Current(mail[i]))'
  BY <1>5 DEF IsBody
<1> QED BY <1>2, <1>3, <1>4, <1>5, <1>6, <1>7 DEF Hosted

-----------------------------------------------------------------------------
(* The cases of a step of the driver's loop.                               *)

LEMMA MovesFollows ==
  ASSUME NEW d \in Node, Moves(d), AllManned(Here)'
  PROVE  Continues(d)
<1>1. Manned(d, slot[d], body[d])'
  BY DEF AllManned, Here
<1>2. body'[d].aborted => body'[d].phase # "none"
  BY <1>1 DEF Manned
<1> QED BY <1>2 DEF Moves, Continues

LEMMA RetiresFrees ==
  ASSUME NEW d \in Node, NEW h, NEW v, Retires(d, h, v)
  PROVE  Frees(d)
BY DEF Retires, Frees, SpawnAsked

(* A node whose task did not end has nothing new in its slot.              *)
LEMMA MovesSuits ==
  ASSUME NEW d \in Node, Moves(d), Lodged(d), ~ Ended, bank'[d] = bank[d]
  PROVE  Suits(d)
BY DEF Moves, Lodged, Suits, SpawnAsked

LEMMA MovesUnheld ==
  ASSUME Hosted, Trimmed,
         \A i \in DOMAIN mail' : IsBody(mail'[i]) => Moves(mail'[i].node)
  PROVE  Unheld
<1>1. PICK k \in {0, 1} : \A i \in DOMAIN mail' :
        i \in Nat /\ i + k \in DOMAIN mail /\ mail'[i] = mail[i + k]
  BY DEF Trimmed
<1> SUFFICES ASSUME NEW i \in DOMAIN mail', IsBody(mail'[i]), mail'[i].ev = "Held"
             PROVE  ~ slot'[mail'[i].node].held
  BY DEF Unheld
<1>2. Current(mail'[i])
  BY <1>1 DEF Hosted
<1> QED BY <1>2 DEF Current, Moves

(* Nobody's task ended.                                                    *)
LEMMA MovedHosts ==
  ASSUME Hosted, TypeOK', AllManned(Here)', plan' = plan, ~ Ended, Launched(Here)', Trimmed,
         AllMoved, Survives({}), Perform(live), bank' = bank,
         refused' \subseteq {<<"Held", "Abandoned">>}
  PROVE  Hosted'
<1>1. /\ HostTyped /\ live \in [Node -> Live] /\ bank \in [Node -> Nat]
      /\ \A n \in Node : Lodged(n)
  BY DEF Hosted, HostTyped
<1>2. ASSUME NEW d \in Node PROVE Continues(d) /\ Suits(d)
  BY <1>1, MovesFollows, MovesSuits DEF AllMoved
<1>3. Unheld
  <2>1. PICK k \in {0, 1} : \A i \in DOMAIN mail' :
          i \in Nat /\ i + k \in DOMAIN mail /\ mail'[i] = mail[i + k]
    BY DEF Trimmed
  <2>2. \A i \in DOMAIN mail : mail[i] \in Mail
    BY <1>1 DEF HostTyped
  <2>3. \A i \in DOMAIN mail' : IsBody(mail'[i]) => mail'[i].node \in Node
    BY <2>1, <2>2, BodySort
  <2> QED BY <2>3, MovesUnheld DEF AllMoved
<1>4. Parting({}, live)
  BY <1>1, <1>2 DEF Parting
<1> QED BY <1>1, <1>2, <1>3, <1>4, PerformHosts

(* The message is an answer: the task of its node has ended.               *)
LEMMA RetiredHosts ==
  ASSUME Hosted, TypeOK', AllManned(Here)', plan' = plan, ~ Ended, Launched(Here)',
         mail # <<>>, mail' = Tail(mail), NEW m, m = Head(mail), IsAnswer(m), NEW h, NEW v,
         Retired(m.node, h, v),
         h => body[m.node].phase = "run" /\ live[m.node].acquired,
         v => body[m.node].phase = "run" /\ m.ev = "Ok",
         NEW lv, lv = [live EXCEPT ![m.node].cx = IF Settled(m) THEN "taken" ELSE @],
         bank' = [bank EXCEPT ![m.node] = IF Settled(m) THEN m.epoch ELSE @],
         Perform(lv), refused' = refused
  PROVE  Hosted'
<1> DEFINE n == m.node
<1>1. /\ HostTyped /\ live \in [Node -> Live] /\ bank \in [Node -> Nat] /\ OneAnswer
      /\ \A d \in Node : Lodged(d)
  BY DEF Hosted, HostTyped
<1>2. /\ Trimmed /\ m \in Mail /\ m = mail[1] /\ 1 \in DOMAIN mail
      /\ \A i \in DOMAIN mail' : i + 1 \in DOMAIN mail /\ 1 < i + 1 /\ mail'[i] = mail[i + 1]
      /\ \A i \in DOMAIN mail : i = 1 \/ \E j \in DOMAIN mail' : mail'[j] = mail[i]
  BY <1>1, TailTrims
<1>3. IsBody(m) /\ n \in Node /\ m.epoch \in Nat /\ m.ev \in BodyEvents /\ Current(m)
  BY <1>2, BodySort DEF IsAnswer, Hosted
<1>4. \A t \in task : t.node # n
  BY <1>1, <1>2 DEF OneAnswer
<1>5. ASSUME NEW i \in DOMAIN mail', IsBody(mail'[i]) PROVE mail'[i].node # n
  <2>1. i + 1 \in DOMAIN mail /\ 1 < i + 1 /\ IsBody(mail[i + 1]) /\ mail'[i] = mail[i + 1]
    BY <1>2, <1>5
  <2> QED BY <1>1, <1>2, <1>3, <2>1 DEF OneAnswer
<1>6. Survives({n})
  BY <1>2 DEF Survives
<1>7. /\ lv \in [Node -> Live] /\ \A d \in Node : lv[d].epoch = live[d].epoch
      /\ \A d \in Node \ {n} : lv[d] = live[d]
  <2> DEFINE c == IF Settled(m) THEN "taken" ELSE live[n].cx
  <2>1. c \in {"empty", "output", "held", "taken"} /\ live[n] \in Live
    BY <1>1, <1>3 DEF Live
  <2>2. lv = [live EXCEPT ![n] = [live[n] EXCEPT !.cx = c]]
    BY <1>1, <1>3
  <2> HIDE DEF c
  <2>3. [live[n] EXCEPT !.cx = c] \in Live /\ [live[n] EXCEPT !.cx = c].epoch = live[n].epoch
    BY <2>1 DEF Live
  <2> QED BY <1>1, <1>3, <2>2, <2>3
<1>8. /\ bank' \in [Node -> Nat] /\ \A d \in Node \ {n} : bank'[d] = bank[d]
      /\ bank'[n] = IF Settled(m) THEN m.epoch ELSE bank[n]
  BY <1>1, <1>3
<1>9. ASSUME NEW d \in Node \ {n} PROVE Continues(d) /\ Suits(d) /\ Moves(d)
  BY <1>1, <1>8, MovesFollows, MovesSuits DEF Retired
<1>10. Retires(n, h, v) /\ Frees(n)
  BY <1>3, RetiresFrees DEF Retired
<1>11. Parting({n}, lv)
  BY <1>4, <1>5, <1>7, <1>9, <1>10 DEF Parting
<1>12. Suits(n)
  <2>1. Lodged(n) /\ m.epoch = live[n].epoch /\ body[n].phase # "none" /\ live[n].epoch # 0
    BY <1>1, <1>3 DEF Current, IsAnswer, Lodged
  <2>2. body[n].phase = "run" /\ live[n].cx \in {"output", "held"} => Settled(m)
    <3>1. body[n].phase = "run" => m.ev \in {"Ok", "Err", "Cancelled"}
      BY <1>3, <2>1 DEF Current, IsAnswer, BodyEvents
    <3> QED BY <3>1 DEF Settled
  <2>3. ASSUME slot'[n].held
        PROVE  CanHold(n) /\ body'[n].phase # "run" /\ bank'[n] = live[n].epoch
    <3>1. slot[n].held \/ h
      BY <1>10, <2>3 DEF Retires
    <3>2. body'[n].phase # "run"
      BY <1>10, <2>3 DEF Retires
    <3>3. CASE body[n].phase = "run"
      <4>1. live[n].acquired /\ live[n].cx = "held" /\ CanHold(n)
        BY <2>1, <3>1, <3>3 DEF Lodged
      <4> QED BY <1>8, <2>1, <2>2, <3>2, <3>3, <4>1
    <3>4. CASE body[n].phase # "run"
      <4>1. slot[n].held /\ CanHold(n) /\ bank[n] = live[n].epoch
        BY <2>1, <3>1, <3>4 DEF Lodged
      <4> QED BY <1>8, <2>1, <3>2, <4>1
    <3> QED BY <3>3, <3>4
  <2>4. ASSUME Valued(n, slot'[n]) PROVE bank'[n] # 0
    <3>1. Valued(n, slot[n]) \/ v
      BY <1>10, <2>4 DEF Retires
    <3>2. v => live[n].cx \in {"output", "held"}
      BY <1>3, <2>1 DEF Current
    <3>3. v => Settled(m)
      BY <2>2, <3>2
    <3>4. Valued(n, slot[n]) => bank[n] # 0
      BY <2>1 DEF Lodged
    <3> QED BY <1>8, <2>1, <3>1, <3>3, <3>4
  <2> QED BY <2>1, <2>3, <2>4 DEF Suits
<1>13. Unheld
  <2>1. \A i \in DOMAIN mail' : IsBody(mail'[i]) => mail'[i].node \in Node \ {n}
    <3>1. \A i \in DOMAIN mail : mail[i] \in Mail
      BY <1>1 DEF HostTyped
    <3> QED BY <1>2, <1>5, <3>1, BodySort
  <2> QED BY <1>2, <1>9, <2>1, MovesUnheld
<1>14. \A d \in Node : Suits(d)
  BY <1>9, <1>12
<1>15. refused' \subseteq {<<"Held", "Abandoned">>}
  BY DEF Hosted
<1> QED BY <1>2, <1>6, <1>8, <1>11, <1>13, <1>14, <1>15, PerformHosts

(* The message is a registration.                                          *)
LEMMA HeldHosts ==
  ASSUME Hosted, TypeOK, AllManned(Here), TypeOK', plan' = plan, ~ Ended, Launched(Here)',
         mail # <<>>, mail' = Tail(mail), NEW m, m = Head(mail), IsBody(m), m.ev = "Held",
         BodyHeld(m.node), Perform(live), bank' = bank, refused' = refused
  PROVE  Hosted'
<1> DEFINE n == m.node
<1>1. /\ HostTyped /\ live \in [Node -> Live] /\ bank \in [Node -> Nat] /\ OneAnswer
      /\ \A d \in Node : Lodged(d)
  BY DEF Hosted, HostTyped
<1>2. /\ Trimmed /\ m \in Mail /\ m = mail[1] /\ 1 \in DOMAIN mail
      /\ \A i \in DOMAIN mail' : i + 1 \in DOMAIN mail /\ 1 < i + 1 /\ mail'[i] = mail[i + 1]
      /\ \A i \in DOMAIN mail : i = 1 \/ \E j \in DOMAIN mail' : mail'[j] = mail[i]
  BY <1>1, TailTrims
<1>3. n \in Node /\ Current(m) /\ RunInFlight(n)
  BY <1>2, BodySort DEF Hosted, BodyHeld
<1>4. /\ body' = body /\ slot' = [slot EXCEPT ![n].held = TRUE]
      /\ slot \in [Node -> Slot] /\ slot[n] \in Slot
  BY <1>3, BodyHeldFits, HereNear DEF Typed, State
<1>5. /\ \A d \in Node \ {n} : slot'[d] = slot[d]
      /\ slot'[n].held /\ slot'[n].attempt = slot[n].attempt /\ slot'[n].st = slot[n].st
      /\ slot'[n].restarts = slot[n].restarts /\ slot'[n].initialized = slot[n].initialized
  BY <1>3, <1>4 DEF Slot
<1>6. ASSUME NEW d \in Node PROVE body[d].phase = "none" => ~ body[d].aborted
  <2>1. Manned(d, slot[d], body[d])
    BY HereNear DEF AllManned
  <2> QED BY <2>1 DEF Manned
<1>7. ASSUME NEW d \in Node PROVE Continues(d) /\ ~ SpawnAsked(d)
  BY <1>4, <1>5, <1>6 DEF Continues, SpawnAsked
<1>8. ASSUME NEW d \in Node PROVE Suits(d)
  <2>1. Lodged(d)
    BY <1>1
  <2>2. CASE d # n
    BY <1>4, <1>5, <1>7, <2>1, <2>2 DEF Suits, Lodged
  <2>3. CASE d = n
    <3>1. CanHold(n) /\ live[n].acquired /\ body'[n].phase = "run"
      BY <1>3, <1>4 DEF Current, RunInFlight
    <3>2. Valued(n, slot'[n]) => Valued(n, slot[n])
      BY <1>5 DEF Valued
    <3> QED BY <1>7, <2>1, <2>3, <3>1, <3>2 DEF Suits, Lodged
  <2> QED BY <2>2, <2>3
<1>9. Unheld
  <2> SUFFICES ASSUME NEW i \in DOMAIN mail', IsBody(mail'[i]), mail'[i].ev = "Held"
               PROVE  ~ slot'[mail'[i].node].held
    BY DEF Unheld
  <2>1. i + 1 \in DOMAIN mail /\ 1 < i + 1 /\ IsBody(mail[i + 1]) /\ mail'[i] = mail[i + 1]
    BY <1>2
  <2>2. mail'[i].node # n
    BY <1>1, <1>2, <2>1 DEF OneAnswer
  <2>3. mail'[i] \in Mail /\ Current(mail'[i])
    BY <1>1, <2>1 DEF Hosted, HostTyped
  <2>4. mail'[i].node \in Node \ {n} /\ ~ slot[mail'[i].node].held
    BY <2>2, <2>3, BodySort DEF Current
  <2> QED BY <1>5, <2>4
<1>10. Parting({}, live)
  BY <1>1, <1>7 DEF Parting
<1>11. Survives({})
  BY <1>2 DEF Survives, IsAnswer
<1>12. refused' \subseteq {<<"Held", "Abandoned">>}
  BY DEF Hosted
<1> QED BY <1>1, <1>2, <1>8, <1>9, <1>10, <1>11, <1>12, PerformHosts

-----------------------------------------------------------------------------
(* The loop.                                                               *)

EngineOK == TypeOK /\ HereSafe /\ Ledger(Here) /\ Admitted /\ AllManned(Here)

LEMMA EngineStays ==
  ASSUME EngineOK, [Next]_vars
  PROVE  EngineOK' /\ plan' = plan /\ Fitting
BY StepKeeps, StepLanded, StepAdmits, StepFits DEF EngineOK, Preserved, Fitting

(* Nothing happened.                                                       *)
LEMMA StillMoves ==
  ASSUME EngineOK, UNCHANGED vars
  PROVE  AllMoved
<1> SUFFICES ASSUME NEW d \in Node PROVE Moves(d)
  BY DEF AllMoved
<1> QED BY DEF vars, Moves, Valued, Decl

(* A run that ended owes nothing, and what is left of it was abandoned.    *)
LEMMA EndedRests ==
  ASSUME EngineOK, Ended
  PROVE  /\ ~ scope.budget /\ ~ scope.zero
         /\ \A n \in Node : /\ ~ slot[n].publishing
                            /\ body[n].phase # "none" => slot[n].st = "Abandoned"
<1>1. Rested(Here) /\ Rests(Here) /\ TypeOK
  BY HereNear DEF EngineOK, Ledger, Ended, Rests
<1>2. ~ scope.budget /\ ~ scope.zero
  BY <1>1, HereNear DEF Rested
<1>3. ASSUME NEW n \in Node
      PROVE  ~ slot[n].publishing /\ (body[n].phase # "none" => slot[n].st = "Abandoned")
  <2>1. CASE Untouched(Account(Here, n))
    BY <1>1, <2>1, HereNear DEF Untouched, Account
  <2>2. CASE ~ BlocksRelease(Here, n)
    <3>1. /\ ~ slot[n].publishing
          /\ slot[n].st \notin Unstarted \cup CleanupStates \cup
                               {"Running", "Backoff", "RetryRelease"}
          /\ ~ Owes(Here, n)
      BY <1>1, <2>2, HereNear DEF BlocksRelease
    <3>2. slot[n].st = "Ready" /\ IsService(n) => Owes(Here, n)
      BY <1>1, HereNear DEF Owes
    <3>3. Manned(n, slot[n], body[n])
      BY <1>1, HereNear DEF EngineOK, AllManned
    <3> QED BY <3>1, <3>2, <3>3 DEF Manned, PhaseOf, CleanupStates
  <2> QED BY <1>1, <2>1, <2>2, HereNear DEF Rested, Ended
<1> QED BY <1>2, <1>3

LEMMA AnswerRetires ==
  ASSUME EngineOK, Hosted, NEW m \in Mail, IsAnswer(m), EngineStep(m)
  PROVE  /\ Tasks(m.node)
         /\ \E h, v : /\ Retired(m.node, h, v)
                      /\ h => body[m.node].phase = "run" /\ live[m.node].acquired
                      /\ v => body[m.node].phase = "run" /\ m.ev = "Ok"
<1> DEFINE n == m.node
           Left == \E h, v : /\ Retired(n, h, v)
                             /\ h => body[n].phase = "run" /\ live[n].acquired
                             /\ v => body[n].phase = "run" /\ m.ev = "Ok"
<1>1. n \in Node /\ m.ev \in {"Ok", "Err", "Cancelled", "ServeOk", "ServeErr"}
  BY BodySort DEF IsAnswer, BodyEvents
<1>2. TypeOK /\ AllManned(Here)
  BY DEF EngineOK
<1>3. Retired(n, FALSE, FALSE) => Left
  OBVIOUS
<1>4. AbandonedTaskEnds(n) => Tasks(n) /\ Left
  BY <1>1, <1>2, <1>3, AbandonedTaskEndsRetires DEF Tasks
<1>5. ASSUME NEW ok \in BOOLEAN,
             CleanupReturns(n, ok) \/ RetryReleaseReturns(n, ok) \/ ServingEnds(n, ok)
               \/ ServiceStops(n, ok)
      PROVE  Tasks(n) /\ Left
  BY <1>1, <1>2, <1>3, <1>5, CleanupReturnsRetires, RetryReleaseReturnsRetires,
     ServingEndsRetires, ServiceStopsRetires DEF Tasks
<1>6. ASSUME BodyCancelled(n, live[n].acquired)
      PROVE  Tasks(n) /\ Left
  <2> live[n].acquired \in BOOLEAN
    BY <1>1 DEF Hosted, HostTyped, Live
  <2>1. Retired(n, live[n].acquired, FALSE) /\ body[n].phase = "run"
    BY <1>1, <1>2, <1>6, BodyCancelledRetires DEF BodyCancelled, RunInFlight
  <2>2. Left
    BY <2>1
  <2> QED BY <1>6, <2>2 DEF Tasks
<1>7. ASSUME NEW ok \in BOOLEAN, ok <=> m.ev = "Ok", BodyReturns(n, ok)
      PROVE  Tasks(n) /\ Left
  <2>1. Retired(n, FALSE, ok) /\ body[n].phase = "run"
    BY <1>1, <1>2, <1>7, BodyReturnsRetires DEF BodyReturns, RunInFlight
  <2>2. Left
    BY <1>7, <2>1
  <2> QED BY <1>7, <2>2 DEF Tasks
<1> SUFFICES Tasks(n) /\ Left
  OBVIOUS
<1> HIDE DEF Left
<1>8. CASE m.ev = "Cancelled"
  <2>1. BodyCancelled(n, live[n].acquired) \/ AbandonedTaskEnds(n)
    BY <1>8 DEF EngineStep
  <2> QED BY <1>4, <1>6, <2>1
<1>9. CASE m.ev \in {"Ok", "Err"}
  <2>1. \/ BodyReturns(n, m.ev = "Ok") \/ CleanupReturns(n, m.ev = "Ok")
        \/ RetryReleaseReturns(n, m.ev = "Ok") \/ AbandonedTaskEnds(n)
    BY <1>9 DEF EngineStep
  <2> QED BY <1>4, <1>5, <1>7, <2>1
<1>10. CASE m.ev \in {"ServeOk", "ServeErr"}
  <2>1. \/ ServingEnds(n, m.ev = "ServeOk") \/ ServiceStops(n, m.ev = "ServeOk")
        \/ AbandonedTaskEnds(n)
    BY <1>10 DEF EngineStep
  <2> QED BY <1>4, <1>5, <2>1
<1> QED BY <1>1, <1>8, <1>9, <1>10

(* All that can be refused is the registration of an abandoned body.       *)
LEMMA RefusedIs ==
  ASSUME EngineOK, ~ Ended, NEW m \in Mail, IsBody(m), Current(m), ~ Accepts(m)
  PROVE  m.ev = "Held" /\ slot[m.node].st = "Abandoned"
<1> DEFINE n == m.node
           st == slot[n].st
<1>1. n \in Node /\ m.ev \in BodyEvents
  BY BodySort
<1>2. body[n].phase # "none" /\ m.phase = body[n].phase
  BY DEF Current
<1>3. Manned(n, slot[n], body[n])
  BY <1>1, HereNear DEF EngineOK, AllManned
<1>4. st # "Abandoned" => body[n].phase = PhaseOf(n, st)
  BY <1>3 DEF Manned
<1>5. CASE m.ev \in {"Started", "Held"}
  <2>1. st = "Running" \/ st = "Abandoned"
    BY <1>2, <1>4, <1>5 DEF Current, PhaseOf
  <2> QED BY <1>5, <2>1 DEF Accepts, Current
<1>6. CASE m.ev = "Cancelled"
  BY <1>3, <1>6 DEF Accepts, Current, Manned
<1>7. CASE m.ev \in {"Ok", "Err"}
  <2>1. st \in {"Running", "Releasing", "Compensating", "RetryRelease", "Abandoned"}
    BY <1>2, <1>4, <1>7 DEF Current, PhaseOf
  <2> QED BY <1>7, <2>1 DEF Accepts
<1>8. CASE m.ev \in {"ServeOk", "ServeErr"}
  <2>1. body[n].phase = "serve" /\ IsService(n)
    BY <1>1, <1>2, <1>8 DEF Current, EngineOK, TypeOK
  <2>2. st \in {"Ready", "Stopping", "Abandoned"}
    BY <1>4, <2>1 DEF PhaseOf
  <2> QED BY <1>8, <2>1, <2>2 DEF Accepts
<1> QED BY <1>1, <1>5, <1>6, <1>7, <1>8 DEF BodyEvents

(* A step of the engine that ends no task.                                 *)
LEMMA MovesOn ==
  ASSUME Hosted, EngineOK, [Next]_vars, AllMoved, ~ Ended,
         scope.st # "Planned" \/ Launched(Here)', Trimmed, Survives({}), Perform(live),
         bank' = bank, refused' \subseteq {<<"Held", "Abandoned">>}
  PROVE  Hosted'
<1>1. EngineOK' /\ plan' = plan /\ Fitting
  BY EngineStays
<1>2. Launched(Here)'
  BY <1>1, HereNear DEF EngineOK, Fitting, Launched
<1> QED BY <1>1, <1>2, MovedHosts DEF EngineOK

LEMMA BodyHandled ==
  ASSUME Hosted, EngineOK, Free, mail # <<>>, mail' = Tail(mail), NEW m, m = Head(mail),
         IsBody(m), HandleBody(m)
  PROVE  [Next]_vars /\ Hosted'
<1> DEFINE n == m.node
           banks == Settled(m)
           lv == [live EXCEPT ![m.node].cx = IF Settled(m) THEN "taken" ELSE @]
<1>1. /\ HostTyped /\ live \in [Node -> Live] /\ bank \in [Node -> Nat]
      /\ ~ Ended /\ scope.st # "Planned"
  BY DEF Hosted, HostTyped, Free
<1>2. /\ Trimmed /\ m \in Mail /\ m = mail[1] /\ 1 \in DOMAIN mail
      /\ \A i \in DOMAIN mail : i = 1 \/ \E j \in DOMAIN mail' : mail'[j] = mail[i]
  BY <1>1, TailTrims
<1>3. n \in Node /\ Current(m) /\ m.ev \in BodyEvents /\ live[n] \in Live
  BY <1>1, <1>2, BodySort DEF Hosted
<1>4. /\ bank' = [bank EXCEPT ![m.node] = IF Settled(m) THEN m.epoch ELSE @]
      /\ IF Accepts(m)
         THEN EngineStep(m) /\ refused' = refused
         ELSE UNCHANGED vars /\ refused' = refused \cup {<<m.ev, slot[m.node].st>>}
      /\ Perform(lv)
  BY <1>3 DEF HandleBody, IsCurrent, Current
<1>5. ~ Settled(m) => lv = live /\ bank' = bank
  <2>1. [live EXCEPT ![n].cx = live[n].cx] = live
    BY <1>1, <1>3 DEF Live
  <2> QED BY <1>1, <1>3, <1>4, <2>1
<1> HIDE DEF lv
<1>6. CASE ~ Accepts(m)
  <2>1. m.ev = "Held" /\ slot[m.node].st = "Abandoned"
    BY <1>1, <1>2, <1>3, <1>6, RefusedIs
  <2>2. ~ Settled(m) /\ ~ IsAnswer(m)
    BY <2>1 DEF Settled, IsAnswer
  <2>3. /\ UNCHANGED vars /\ Perform(live) /\ bank' = bank
        /\ refused' \subseteq {<<"Held", "Abandoned">>}
    BY <1>4, <1>5, <1>6, <2>1, <2>2 DEF Hosted
  <2>4. Survives({})
    BY <1>2, <2>2 DEF Survives
  <2> QED BY <1>1, <1>2, <2>3, <2>4, StillMoves, MovesOn
<1>7. CASE Accepts(m) /\ m.ev = "Started"
  <2>1. ~ Settled(m) /\ ~ IsAnswer(m)
    BY <1>7 DEF Settled, IsAnswer
  <2>2. /\ UNCHANGED vars /\ Perform(live) /\ bank' = bank
        /\ refused' \subseteq {<<"Held", "Abandoned">>}
    BY <1>4, <1>5, <1>7, <2>1 DEF Hosted, EngineStep
  <2>3. Survives({})
    BY <1>2, <2>1 DEF Survives
  <2> QED BY <1>1, <1>2, <2>2, <2>3, StillMoves, MovesOn
<1>8. CASE Accepts(m) /\ m.ev = "Held"
  <2>1. ~ Settled(m)
    BY <1>8 DEF Settled
  <2>2. BodyHeld(n) /\ Perform(live) /\ bank' = bank /\ refused' = refused
    BY <1>4, <1>5, <1>8, <2>1 DEF EngineStep
  <2>3. [Next]_vars
    BY <1>3, <2>2 DEF Next, Tasks
  <2>4. EngineOK' /\ plan' = plan /\ Launched(Here)'
    BY <1>1, <2>3, EngineStays, HereNear DEF Fitting, Launched, EngineOK
  <2> QED BY <1>1, <1>8, <2>2, <2>3, <2>4, HeldHosts DEF EngineOK
<1>9. CASE Accepts(m) /\ IsAnswer(m)
  <2>1. EngineStep(m) /\ refused' = refused
    BY <1>4, <1>9
  <2>2. PICK h, v : /\ Retired(n, h, v)
                    /\ h => body[n].phase = "run" /\ live[n].acquired
                    /\ v => body[n].phase = "run" /\ m.ev = "Ok"
    BY <1>2, <1>9, <2>1, AnswerRetires
  <2>3. [Next]_vars
    <3>1. Tasks(n)
      BY <1>2, <1>9, <2>1, AnswerRetires
    <3> QED BY <1>3, <3>1 DEF Next
  <2>4. EngineOK' /\ plan' = plan /\ Launched(Here)'
    BY <1>1, <2>3, EngineStays, HereNear DEF Fitting, Launched, EngineOK
  <2> QED BY <1>1, <1>4, <1>9, <2>1, <2>2, <2>3, <2>4, RetiredHosts DEF EngineOK, lv
<1> QED BY <1>3, <1>6, <1>7, <1>8, <1>9 DEF IsAnswer

(* A timer or a request is read: no answer is lost by it.                  *)
LEMMA OtherMail ==
  ASSUME HostTyped, mail # <<>>, mail' = Tail(mail), ~ IsBody(Head(mail))
  PROVE  Trimmed /\ Survives({})
BY TailTrims DEF Survives, IsAnswer

LEMMA TimerHandled ==
  ASSUME Hosted, EngineOK, Free, mail # <<>>, mail' = Tail(mail), NEW m, m = Head(mail),
         IsTimer(m), HandleTimer(m)
  PROVE  [Next]_vars /\ Hosted'
<1>1. HostTyped /\ ~ Ended /\ scope.st # "Planned" /\ m \in Mail
  BY TailTrims DEF Hosted, Free
<1>2. m \in TimerMail /\ ~ IsBody(m)
  BY <1>1, Sorts DEF Mail
<1>3. Trimmed /\ Survives({})
  BY <1>1, <1>2, OtherMail
<1>4. /\ BudgetExpires \/ ZeroExpires \/ UNCHANGED vars \/ \E n \in Node : Timers(n)
      /\ Perform(live) /\ bank' = bank /\ refused' = refused
  <2>1. \/ m = ScopeTimer("Budget") \/ m = ScopeTimer("Zero")
        \/ m.node \in Node /\ m.node # 0 /\ m # ScopeTimer("Budget") /\ m # ScopeTimer("Zero")
    BY <1>2 DEF TimerMail, Node, ScopeTimer
  <2>2. ScopeTimer("Budget") # ScopeTimer("Zero") /\ ScopeTimer("Budget").node = 0
        /\ ScopeTimer("Zero").node = 0
    BY DEF ScopeTimer
  <2> QED BY <2>1, <2>2 DEF HandleTimer
<1>5. [Next]_vars
  BY <1>4 DEF Next
<1>6. AllMoved
  BY <1>4, StillMoves, BudgetExpiresMoves, ZeroExpiresMoves, TimersMove DEF EngineOK
<1>7. refused' \subseteq {<<"Held", "Abandoned">>}
  BY <1>4 DEF Hosted
<1> QED BY <1>1, <1>3, <1>4, <1>5, <1>6, <1>7, MovesOn

LEMMA RequestHandled ==
  ASSUME Hosted, EngineOK, Free, mail # <<>>, mail' = Tail(mail), NEW m, m = Head(mail),
         IsRequest(m), HandleRequest(m)
  PROVE  [Next]_vars /\ Hosted'
<1>1. HostTyped /\ ~ Ended /\ scope.st # "Planned" /\ m \in Mail
  BY TailTrims DEF Hosted, Free
<1>2. m \in RequestMail /\ ~ IsBody(m) /\ m.request \in {"Shutdown", "Cancel"}
  BY <1>1, Sorts DEF Mail, RequestMail
<1>3. Trimmed /\ Survives({})
  BY <1>1, <1>2, OtherMail
<1>4. /\ Request(m.request) \/ UNCHANGED vars
      /\ Perform(live) /\ bank' = bank /\ refused' = refused
  BY DEF HandleRequest
<1>5. [Next]_vars
  BY <1>2, <1>4 DEF Next
<1>6. AllMoved
  BY <1>2, <1>4, StillMoves, RequestMoves DEF EngineOK
<1>7. refused' \subseteq {<<"Held", "Abandoned">>}
  BY <1>4 DEF Hosted
<1> QED BY <1>1, <1>3, <1>4, <1>5, <1>6, <1>7, MovesOn

LEMMA AllHandled ==
  ASSUME Hosted, EngineOK, Handle
  PROVE  [Next]_vars /\ Hosted'
BY BodyHandled, TimerHandled, RequestHandled DEF Handle

LEMMA TransferHandled ==
  ASSUME Hosted, EngineOK, AcknowledgeNext
  PROVE  [Next]_vars /\ Hosted'
<1>1. PICK n \in Node, ok \in BOOLEAN : Acknowledged(n, ok)
  BY DEF AcknowledgeNext
<1>2. [Next]_vars /\ AllMoved
  BY <1>1, AcknowledgedMoves DEF Next, Tasks, EngineOK
<1>3. ~ Ended /\ scope.st # "Planned"
  BY <1>1, EndedRests DEF Acknowledged, Hosted, Asleep
<1>4. HostTyped /\ mail' = mail /\ mail \in Seq(Mail)
  BY DEF AcknowledgeNext, Hosted, HostTyped
<1>5. Trimmed
  <2>1. \A i \in DOMAIN mail : i \in Nat /\ i + 0 = i
    BY <1>4
  <2> QED BY <1>4, <2>1 DEF Trimmed
<1>6. Survives({})
  BY <1>4 DEF Survives
<1>7. Perform(live) /\ bank' = bank /\ refused' \subseteq {<<"Held", "Abandoned">>}
  BY DEF AcknowledgeNext, Hosted
<1> QED BY <1>2, <1>3, <1>5, <1>6, <1>7, MovesOn

LEMMA BootHandled ==
  ASSUME Hosted, EngineOK, Boot
  PROVE  [Next]_vars /\ Hosted'
<1>1. HostTyped /\ mail \in Seq(Mail) /\ scope.st = "Planned" /\ ~ Ended /\ mail' = <<>>
  BY DEF Boot, Hosted, HostTyped, Ended
<1>2. \A i \in DOMAIN mail : IsRequest(mail[i]) /\ mail[i] \in Mail
  BY <1>1 DEF Hosted, Asleep
<1>3. mail # <<>> => Head(mail).request \in {"Shutdown", "Cancel"}
  <2>1. mail # <<>> => Head(mail) = mail[1] /\ 1 \in DOMAIN mail
    BY <1>1
  <2>2. \A i \in DOMAIN mail : mail[i] \in RequestMail
    BY <1>2, Sorts DEF Mail
  <2> QED BY <2>1, <2>2 DEF RequestMail
<1>4. Begin \/ \E cause \in {"Shutdown", "Cancel"} : Request(cause)
  BY <1>3 DEF Boot
<1>5. [Next]_vars /\ AllMoved /\ Launched(Here)'
  BY <1>4, BeginMoves, RequestMoves DEF Next, EngineOK
<1>6. Trimmed
  <2>1. <<>> \in Seq(Mail) /\ DOMAIN <<>> = {}
    OBVIOUS
  <2> QED BY <1>1, <2>1 DEF Trimmed
<1>7. Survives({})
  BY <1>2, Sorts DEF Survives, IsAnswer, Mail
<1>8. Perform(live) /\ bank' = bank /\ refused' \subseteq {<<"Held", "Abandoned">>}
  BY DEF Boot, Hosted
<1> QED BY <1>1, <1>5, <1>6, <1>7, <1>8, MovesOn

-----------------------------------------------------------------------------
(* The runtime.                                                            *)

(* The engine, the tasks and the driver's books stay as they are.          *)
Resting == UNCHANGED <<vars, live, task, bank, refused>>

LEMMA RestingSame ==
  ASSUME Resting
  PROVE  /\ \A t : Tracked(t)' <=> Tracked(t)
         /\ \A m : Current(m)' <=> Current(m)
         /\ \A n : Lodged(n)' <=> Lodged(n)
         /\ OneTask' <=> OneTask
<1>1. /\ slot' = slot /\ body' = body /\ scope' = scope /\ plan' = plan
      /\ live' = live /\ task' = task /\ bank' = bank
  BY DEF Resting, vars
<1>2. \A m : Current(m)' <=> Current(m)
  BY <1>1 DEF Current, Ended, CanHold, Decl, IsAnswer, IsBody
<1>3. \A n : Lodged(n)' <=> Lodged(n)
  BY <1>1 DEF Lodged, Ended, CanHold, Decl, Valued
<1> QED BY <1>1, <1>2, <1>3 DEF Tracked, OneTask

(* Something is dropped from the mailbox.                                  *)
LEMMA DroppedHosts ==
  ASSUME Hosted, Resting, Trimmed, Survives({})
  PROVE  Hosted'
<1>1. /\ slot' = slot /\ body' = body /\ scope' = scope
      /\ live' = live /\ task' = task /\ bank' = bank /\ refused' = refused
  BY DEF Resting, vars
<1>2. PICK k \in {0, 1} : \A i \in DOMAIN mail' :
        i \in Nat /\ i + k \in DOMAIN mail /\ mail'[i] = mail[i + k]
  BY DEF Trimmed
<1>3. HostTyped'
  BY <1>1 DEF Hosted, HostTyped, Trimmed
<1>4. \A i \in DOMAIN mail' : IsBody(mail'[i]) => Current(mail[i])'
  <2> SUFFICES ASSUME NEW i \in DOMAIN mail', IsBody(mail'[i]) PROVE Current(mail[i])'
    OBVIOUS
  <2>1. Current(mail[i + k]) /\ mail'[i] = mail[i + k]
    BY <1>2 DEF Hosted
  <2>2. \A m : Current(m)' <=> Current(m)
    BY RestingSame
  <2> QED BY <2>1, <2>2
<1>5. \A n \in Node : Heard(n)'
  <2> SUFFICES ASSUME NEW n \in Node, body[n].phase # "none"
               PROVE  \/ \E t \in task : t.node = n
                      \/ \E i \in DOMAIN mail' : IsAnswer(mail'[i]) /\ mail'[i].node = n
    BY <1>1 DEF Heard, IsAnswer, IsBody
  <2> QED BY DEF Hosted, Heard, Survives
<1>6. OneAnswer'
  <2>1. ASSUME NEW i \in DOMAIN mail', NEW t \in task, IsAnswer(mail'[i])
        PROVE  mail'[i].node # t.node
    BY <1>2, <2>1 DEF Hosted, OneAnswer
  <2>2. ASSUME NEW i \in DOMAIN mail', NEW j \in DOMAIN mail', i < j, IsBody(mail'[i]),
               IsBody(mail'[j]), mail'[i].node = mail'[j].node
        PROVE  ~ IsAnswer(mail'[i]) /\ ~ (mail'[i].ev = "Held" /\ mail'[j].ev = "Held")
    <3>1. i + k < j + k
      BY <1>2, <2>2
    <3> QED BY <1>2, <2>2, <3>1 DEF Hosted, OneAnswer
  <2> QED BY <1>1, <2>1, <2>2 DEF OneAnswer, IsAnswer, IsBody
<1>7. Asleep'
  BY <1>1, <1>2 DEF Hosted, Asleep, IsRequest
<1>8. \A t \in task' : Tracked(t)'
  BY <1>1, RestingSame DEF Hosted
<1>9. OneTask' /\ \A n \in Node : Lodged(n)'
  BY RestingSame DEF Hosted
<1>10. (\A i \in DOMAIN mail : IsBody(mail[i]) => Current(mail[i]))'
  BY <1>4 DEF IsBody
<1> QED BY <1>1, <1>3, <1>5, <1>6, <1>7, <1>8, <1>9, <1>10 DEF Hosted

(* A timer or a request is sent.                                           *)
LEMMA SentHosts ==
  ASSUME Hosted, Resting, NEW x \in TimerMail \cup RequestMail, mail' = mail \o <<x>>,
         scope.st = "Planned" => IsRequest(x)
  PROVE  Hosted'
<1>1. /\ slot' = slot /\ body' = body /\ scope' = scope
      /\ live' = live /\ task' = task /\ bank' = bank /\ refused' = refused
  BY DEF Resting, vars
<1>2. x \in Mail /\ ~ IsBody(x) /\ HostTyped
  BY Sorts DEF Mail, Hosted
<1> DEFINE r == <<x>>
<1>3. r \in Seq(Mail) /\ mail' = mail \o r /\ \A i \in DOMAIN r : r[i] = x
  BY <1>2
<1> HIDE DEF r
<1>4. /\ mail' \in Seq(Mail)
      /\ \A i \in DOMAIN mail : i \in DOMAIN mail' /\ mail'[i] = mail[i]
      /\ \A i \in DOMAIN mail' :
           \/ i \in DOMAIN mail /\ mail'[i] = mail[i]
           \/ mail'[i] = x
  BY <1>2, <1>3, SentLast
<1>5. HostTyped'
  BY <1>1, <1>2, <1>4 DEF HostTyped
<1>6. \A i \in DOMAIN mail' : IsBody(mail'[i]) => Current(mail[i])'
  <2> SUFFICES ASSUME NEW i \in DOMAIN mail', IsBody(mail'[i]) PROVE Current(mail[i])'
    OBVIOUS
  <2>1. Current(mail[i]) /\ mail'[i] = mail[i]
    BY <1>2, <1>4 DEF Hosted
  <2>2. \A m : Current(m)' <=> Current(m)
    BY RestingSame
  <2> QED BY <2>1, <2>2
<1>7. \A n \in Node : Heard(n)'
  <2> SUFFICES ASSUME NEW n \in Node, body[n].phase # "none"
               PROVE  \/ \E t \in task : t.node = n
                      \/ \E i \in DOMAIN mail' : IsAnswer(mail'[i]) /\ mail'[i].node = n
    BY <1>1 DEF Heard, IsAnswer, IsBody
  <2> QED BY <1>4 DEF Hosted, Heard
<1>8. OneAnswer'
  <2>1. ASSUME NEW i \in DOMAIN mail', NEW t \in task, IsAnswer(mail'[i])
        PROVE  mail'[i].node # t.node
    BY <1>2, <1>4, <2>1 DEF Hosted, OneAnswer, IsAnswer
  <2>2. ASSUME NEW i \in DOMAIN mail', NEW j \in DOMAIN mail', i < j, IsBody(mail'[i]),
               IsBody(mail'[j]), mail'[i].node = mail'[j].node
        PROVE  ~ IsAnswer(mail'[i]) /\ ~ (mail'[i].ev = "Held" /\ mail'[j].ev = "Held")
    BY <1>2, <1>4, <2>2 DEF Hosted, OneAnswer
  <2> QED BY <1>1, <2>1, <2>2 DEF OneAnswer, IsAnswer, IsBody
<1>9. Asleep'
  BY <1>1, <1>4 DEF Hosted, Asleep, IsRequest
<1>10. \A t \in task' : Tracked(t)'
  BY <1>1, RestingSame DEF Hosted
<1>11. OneTask' /\ \A n \in Node : Lodged(n)'
  BY RestingSame DEF Hosted
<1>12. (\A i \in DOMAIN mail : IsBody(mail[i]) => Current(mail[i]))'
  BY <1>6 DEF IsBody
<1> QED BY <1>1, <1>5, <1>7, <1>8, <1>9, <1>10, <1>11, <1>12 DEF Hosted

LEMMA FiredHosts ==
  ASSUME Hosted, EngineOK, FireBudget \/ FireZero \/ \E n \in Node : FireNode(n)
  PROVE  UNCHANGED vars /\ Hosted'
<1>1. ASSUME NEW armed, NEW id \in TimerMail, Fire(armed, id), armed => scope.st # "Planned"
      PROVE  UNCHANGED vars /\ Hosted'
  <2>1. Resting /\ armed /\ mail' = mail \o <<id>>
    BY <1>1 DEF Fire, Send, Resting
  <2> QED BY <1>1, <2>1, SentHosts DEF Resting
<1>2. scope.budget \/ scope.zero => scope.st # "Planned"
  BY DEF Hosted, Asleep
<1>3. ASSUME NEW n \in Node, slot[n].timer # "none"
      PROVE  TimerOf(n) \in TimerMail /\ scope.st # "Planned"
  <2>1. slot[n] \in Slot
    BY HereNear DEF EngineOK, Typed, State
  <2>2. TimerOf(n) \in TimerMail
    BY <1>3, <2>1 DEF TimerOf, TimerMail, Slot
  <2> QED BY <1>3, <2>2 DEF Hosted, Asleep
<1>4. CASE FireBudget
  BY <1>1, <1>2, <1>4 DEF FireBudget, TimerMail
<1>5. CASE FireZero
  BY <1>1, <1>2, <1>5 DEF FireZero, TimerMail
<1>6. ASSUME NEW n \in Node, FireNode(n)
      PROVE  UNCHANGED vars /\ Hosted'
  <2>1. slot[n].timer # "none"
    BY <1>6 DEF FireNode, Fire
  <2> QED BY <1>1, <1>3, <1>6, <2>1 DEF FireNode
<1> QED BY <1>4, <1>5, <1>6

LEMMA AskedHosts ==
  ASSUME Hosted, NEW cause \in {"Shutdown", "Cancel"}, Ask(cause)
  PROVE  UNCHANGED vars /\ Hosted'
<1>1. RequestOf(cause) \in RequestMail /\ IsRequest(RequestOf(cause))
  BY DEF RequestOf, RequestMail, IsRequest
<1>2. Resting /\ mail' = mail \o <<RequestOf(cause)>>
  BY DEF Ask, Send, Resting
<1> QED BY <1>1, <1>2, SentHosts DEF Resting

(* What the task t may send, when a is what the driver then knows of it.   *)
MaySay(t, a, m) ==
  /\ IsBody(m) /\ m.node = t.node /\ m.epoch = t.epoch /\ m.phase = t.phase
  /\ m.ev \in {"Started", "Held"} => t.phase = "run"
  /\ m.ev = "Held" => CanHold(t.node) /\ a.acquired /\ ~ live[t.node].acquired
  /\ m.ev \in {"Ok", "Err"} => t.phase # "serve"
  /\ m.ev \in {"ServeOk", "ServeErr"} => t.phase = "serve"
  /\ m.ev = "Cancelled" => t.aborted # "no"
  /\ m.ev = "Ok" /\ t.phase = "run" => a.cx \in {"output", "held"}

(* The messages r are said in turn, an answer last.                        *)
InTurn(r) ==
  \A i, j \in DOMAIN r :
    i < j => ~ IsAnswer(r[i]) /\ ~ (r[i].ev = "Held" /\ r[j].ev = "Held")

Says(t, a, r) ==
  /\ r \in Seq(Mail) /\ InTurn(r)
  /\ \A i \in DOMAIN r : MaySay(t, a, r[i])

(* The driver's books follow what the task did.                            *)
Accords(t, a) ==
  LET b == live[t.node] IN
  /\ a \in Live /\ a.epoch = b.epoch /\ a.handle = b.handle
  /\ b.acquired => a.acquired
  /\ t.phase = "run" /\ a.acquired => a.cx = "held" /\ CanHold(t.node)
  /\ live' = [live EXCEPT ![t.node] = a]

(* What is left of the task t after a poll.                                *)
Leftover(t, u) ==
  /\ u \in Task /\ u.node = t.node /\ u.phase = t.phase /\ u.epoch = t.epoch
  /\ (u.aborted = "no") <=> (t.aborted = "no")

LEMMA SpokenHosts ==
  ASSUME Hosted, UNCHANGED vars, bank' = bank, refused' = refused, NEW t \in task,
         NEW rem, task' = (task \ {t}) \cup rem, \A u \in rem : Leftover(t, u),
         \A u, w \in rem : u = w, NEW a, Accords(t, a),
         NEW r, mail' = mail \o r, Says(t, a, r),
         rem = {} <=> \E i \in DOMAIN r : IsAnswer(r[i])
  PROVE  Hosted'
<1> DEFINE n == t.node
<1>1. /\ slot' = slot /\ body' = body /\ scope' = scope /\ plan' = plan
  BY DEF vars
<1>2. /\ HostTyped /\ OneTask /\ OneAnswer /\ Tracked(t) /\ t \in Task /\ n \in Node
      /\ Lodged(n) /\ live \in [Node -> Live]
  BY DEF Hosted, HostTyped, Task
<1>3. /\ live' \in [Node -> Live] /\ live'[n] = a
      /\ \A d \in Node : /\ live'[d].epoch = live[d].epoch /\ live'[d].handle = live[d].handle
                         /\ live[d].acquired => live'[d].acquired
                         /\ d # n => live'[d] = live[d]
  BY <1>2 DEF Accords
<1>4. /\ mail' \in Seq(Mail)
      /\ \A i \in DOMAIN mail : i \in DOMAIN mail' /\ mail'[i] = mail[i]
      /\ \A i \in DOMAIN mail' :
           \/ i \in DOMAIN mail /\ mail'[i] = mail[i]
           \/ /\ i - Len(mail) \in DOMAIN r /\ mail'[i] = r[i - Len(mail)]
              /\ i > Len(mail)
      /\ \A i \in DOMAIN r : i + Len(mail) \in DOMAIN mail' /\ mail'[i + Len(mail)] = r[i]
      /\ DOMAIN mail = 1 .. Len(mail) /\ DOMAIN r = 1 .. Len(r) /\ Len(mail) \in Nat
      /\ InTurn(r) /\ \A i \in DOMAIN r : MaySay(t, a, r[i])
  BY <1>2, SentLast DEF Says
<1>5. HostTyped'
  BY <1>2, <1>3, <1>4 DEF HostTyped, Leftover
<1>6. OneTask'
  BY <1>2 DEF OneTask, Leftover
<1>7. \A u \in task' : Tracked(u)'
  <2> SUFFICES ASSUME NEW u \in task' PROVE Tracked(u)'
    OBVIOUS
  <2>1. CASE u \in task \ {t}
    <3>1. Tracked(u) /\ u.node \in Node
      BY <1>2, <2>1 DEF Hosted, HostTyped, Task
    <3> QED BY <1>1, <1>3, <3>1 DEF Tracked
  <2>2. CASE u \in rem
    BY <1>1, <1>2, <1>3, <2>2 DEF Tracked, Leftover
  <2> QED BY <2>1, <2>2
<1>8. ASSUME NEW i \in DOMAIN mail, IsBody(mail[i])
      PROVE  /\ mail[i].node = n => ~ IsAnswer(mail[i])
             /\ mail[i].node \in Node /\ mail[i].ev \in BodyEvents
  BY <1>2, <1>8, BodySort DEF OneAnswer, HostTyped
<1>9. ASSUME NEW i \in DOMAIN mail', IsBody(mail'[i])
      PROVE  Current(mail[i])'
  <2> DEFINE m == mail'[i]
             d == m.node
  <2>1. \A x : CanHold(x)' = CanHold(x)
    BY <1>1 DEF CanHold, Decl
  <2>2. CASE i \in DOMAIN mail /\ m = mail[i]
    <3>1. /\ Current(m) /\ d \in Node /\ m.ev \in BodyEvents
          /\ d = n => m.ev \in {"Started", "Held"}
      BY <1>8, <1>9, <2>2 DEF Hosted, IsAnswer
    <3> QED BY <1>1, <1>3, <2>1, <3>1 DEF Current, Ended
  <2>3. CASE i - Len(mail) \in DOMAIN r /\ m = r[i - Len(mail)]
    <3>1. MaySay(t, a, m)
      BY <1>4, <2>3
    <3>2. /\ d = n /\ m.epoch = live'[n].epoch /\ body'[n].phase # "none"
          /\ m.phase = body'[n].phase
      BY <1>1, <1>2, <1>3, <3>1 DEF MaySay, Tracked
    <3>3. m.ev = "Held" => ~ slot[n].held
      BY <1>2, <3>1 DEF MaySay, Tracked, Lodged
    <3>4. m.ev = "Cancelled" => body[n].aborted
      BY <1>2, <3>1 DEF MaySay, Tracked
    <3> QED BY <1>1, <1>3, <2>1, <3>1, <3>2, <3>3, <3>4 DEF Current, MaySay
  <2> QED BY <1>4, <2>2, <2>3
<1>10. \A d \in Node : Heard(d)'
  <2> SUFFICES ASSUME NEW d \in Node, body[d].phase # "none"
               PROVE  \/ \E u \in task' : u.node = d
                      \/ \E i \in DOMAIN mail' : IsAnswer(mail'[i]) /\ mail'[i].node = d
    BY <1>1 DEF Heard, IsAnswer, IsBody
  <2>1. CASE d # n
    <3>1. \/ \E u \in task : u.node = d
          \/ \E i \in DOMAIN mail : IsAnswer(mail[i]) /\ mail[i].node = d
      BY DEF Hosted, Heard
    <3> QED BY <1>4, <2>1, <3>1
  <2>2. CASE d = n /\ rem # {}
    BY <2>2 DEF Leftover
  <2>3. CASE d = n /\ rem = {}
    <3>1. PICK i \in DOMAIN r : IsAnswer(r[i])
      BY <2>3
    <3>2. r[i].node = n
      BY <1>4 DEF MaySay
    <3> QED BY <1>4, <2>3, <3>1, <3>2
  <2> QED BY <2>1, <2>2, <2>3
<1>11. OneAnswer'
  <2>1. ASSUME NEW u \in task', NEW i \in DOMAIN mail', IsAnswer(mail'[i])
        PROVE  mail'[i].node # u.node
    <3>1. u.node = n => rem # {}
      BY <1>2 DEF OneTask
    <3>2. CASE i \in DOMAIN mail /\ mail'[i] = mail[i]
      <4>1. \A x \in task : mail[i].node # x.node
        BY <1>2, <2>1, <3>2 DEF OneAnswer
      <4> QED BY <3>2, <4>1 DEF Leftover
    <3>3. CASE i - Len(mail) \in DOMAIN r /\ mail'[i] = r[i - Len(mail)]
      <4>1. mail'[i].node = n
        BY <1>4, <3>3 DEF MaySay
      <4> QED BY <2>1, <3>1, <3>3, <4>1
    <3> QED BY <1>4, <3>2, <3>3
  <2>2. ASSUME NEW i \in DOMAIN mail', NEW j \in DOMAIN mail', i < j, IsBody(mail'[i]),
               IsBody(mail'[j]), mail'[i].node = mail'[j].node
        PROVE  ~ IsAnswer(mail'[i]) /\ ~ (mail'[i].ev = "Held" /\ mail'[j].ev = "Held")
    <3>1. CASE j \in DOMAIN mail
      <4>1. i \in DOMAIN mail /\ mail'[i] = mail[i] /\ mail'[j] = mail[j]
        BY <1>4, <2>2, <3>1
      <4> QED BY <1>2, <2>2, <4>1, <3>1 DEF OneAnswer
    <3>2. CASE j \notin DOMAIN mail /\ i \in DOMAIN mail
      <4>1. j - Len(mail) \in DOMAIN r /\ mail'[j] = r[j - Len(mail)] /\ mail'[i] = mail[i]
        BY <1>4, <3>2
      <4>2. MaySay(t, a, mail'[j]) /\ mail[i].node = n /\ IsBody(mail[i])
        BY <1>4, <2>2, <4>1 DEF MaySay
      <4>3. ~ IsAnswer(mail[i]) /\ Current(mail[i])
        BY <1>8, <3>2, <4>2 DEF Hosted
      <4> QED BY <4>1, <4>2, <4>3 DEF MaySay, Current
    <3>3. CASE i \notin DOMAIN mail /\ j \notin DOMAIN mail
      <4>1. /\ i - Len(mail) \in DOMAIN r /\ mail'[i] = r[i - Len(mail)]
            /\ j - Len(mail) \in DOMAIN r /\ mail'[j] = r[j - Len(mail)]
            /\ i - Len(mail) < j - Len(mail)
        BY <1>4, <2>2, <3>3
      <4> QED BY <1>4, <4>1 DEF InTurn
    <3> QED BY <3>1, <3>2, <3>3
  <2> QED BY <2>1, <2>2 DEF OneAnswer, IsAnswer, IsBody
<1>12. Asleep'
  BY <1>1 DEF Hosted, Asleep
<1>13. \A d \in Node : Lodged(d)'
  <2> SUFFICES ASSUME NEW d \in Node PROVE Lodged(d)'
    OBVIOUS
  <2>1. Lodged(d)
    BY DEF Hosted
  <2>2. CanHold(d)' = CanHold(d) /\ Valued(d, slot[d])' = Valued(d, slot[d])
    BY <1>1 DEF CanHold, Decl, Valued
  <2>3. body'[d].phase = "run" /\ live'[d].acquired => live'[d].cx = "held" /\ CanHold(d)
    <3>1. CASE d = n
      BY <1>1, <1>2, <1>3, <3>1 DEF Accords, Tracked
    <3>2. CASE d # n
      BY <1>1, <1>3, <2>1, <3>2 DEF Lodged
    <3> QED BY <3>1, <3>2
  <2> QED BY <1>1, <1>3, <2>1, <2>2, <2>3 DEF Lodged, Ended
<1>14. (\A i \in DOMAIN mail : IsBody(mail[i]) => Current(mail[i]))'
  BY <1>9 DEF IsBody
<1>15. refused' \subseteq {<<"Held", "Abandoned">>}
  BY DEF Hosted
<1> QED BY <1>5, <1>6, <1>7, <1>10, <1>11, <1>12, <1>13, <1>14, <1>15 DEF Hosted

(* The run is over, and an abandoned task ends: nobody is told, or its     *)
(* answer is dropped.                                                      *)
LEMMA LaidOffHosts ==
  ASSUME Hosted, EngineOK, Ended, NEW n \in Node, AbandonedTaskEnds(n), bank' = bank,
         refused' = refused, live' \in [Node -> Live],
         \A d \in Node : /\ live'[d].epoch = live[d].epoch /\ live'[d].handle = live[d].handle
                         /\ live[d].acquired => live'[d].acquired
                         /\ d # n => live'[d] = live[d],
         Trimmed, task' \subseteq task, \A u \in task' : u.node # n,
         \A u \in task : u.node # n => u \in task',
         \A i \in DOMAIN mail' : IsAnswer(mail'[i]) => mail'[i].node # n,
         Survives({n})
  PROVE  Hosted'
<1>1. /\ slot' = slot /\ scope' = scope /\ plan' = plan
      /\ body' = [body EXCEPT ![n] = [phase |-> "none", aborted |-> FALSE]]
      /\ body \in [Node -> Body]
  BY HereNear DEF AbandonedTaskEnds, Become, TaskEnds, EngineOK, Typed, State, Here
<1>2. body'[n].phase = "none" /\ \A d \in Node \ {n} : body'[d] = body[d]
  BY <1>1
<1>3. HostTyped /\ OneTask /\ OneAnswer /\ \A d \in Node : Lodged(d) /\ Heard(d)
  BY DEF Hosted
<1>4. PICK k \in {0, 1} : \A i \in DOMAIN mail' :
        i \in Nat /\ i + k \in DOMAIN mail /\ mail'[i] = mail[i + k]
  BY DEF Trimmed
<1>5. HostTyped'
  BY <1>3 DEF HostTyped, Trimmed
<1>6. \A d : CanHold(d)' = CanHold(d) /\ Valued(d, slot[d])' = Valued(d, slot[d])
  BY <1>1 DEF CanHold, Decl, Valued
<1>7. \A u \in task' : Tracked(u)'
  <2> SUFFICES ASSUME NEW u \in task' PROVE Tracked(u)'
    OBVIOUS
  <2>1. Tracked(u) /\ u.node \in Node \ {n}
    BY <1>3 DEF Hosted, HostTyped, Task
  <2> QED BY <1>2, <2>1 DEF Tracked
<1>8. (\A i \in DOMAIN mail : IsBody(mail[i]) => Current(mail[i]))'
  <2> SUFFICES ASSUME NEW i \in DOMAIN mail', IsBody(mail'[i]) PROVE Current(mail[i])'
    BY DEF IsBody
  <2> DEFINE m == mail'[i]
             d == m.node
  <2>1. m \in Mail /\ Current(m)
    BY <1>3, <1>4 DEF Hosted, HostTyped
  <2>2. d \in Node /\ m.ev \in BodyEvents
    BY <2>1, BodySort
  <2>3. CASE d # n
    BY <1>1, <1>2, <1>6, <2>1, <2>2, <2>3 DEF Current, Ended
  <2>4. CASE d = n
    <3>1. m.ev \in {"Started", "Held"}
      BY <2>4 DEF IsAnswer
    <3> QED BY <1>1, <1>2, <1>6, <2>1, <2>2, <2>4, <3>1 DEF Current, Ended, IsAnswer
  <2> QED BY <2>3, <2>4
<1>9. \A d \in Node : Heard(d)'
  <2> SUFFICES ASSUME NEW d \in Node, body'[d].phase # "none"
               PROVE  \/ \E u \in task' : u.node = d
                      \/ \E i \in DOMAIN mail' : IsAnswer(mail'[i]) /\ mail'[i].node = d
    BY DEF Heard, IsAnswer, IsBody
  <2>1. d # n /\ body[d].phase # "none"
    BY <1>2
  <2> QED BY <1>3, <2>1 DEF Heard, Survives
<1>10. OneAnswer'
  <2>1. ASSUME NEW u \in task', NEW i \in DOMAIN mail', IsAnswer(mail'[i])
        PROVE  mail'[i].node # u.node
    BY <1>3, <1>4, <2>1 DEF OneAnswer
  <2>2. ASSUME NEW i \in DOMAIN mail', NEW j \in DOMAIN mail', i < j, IsBody(mail'[i]),
               IsBody(mail'[j]), mail'[i].node = mail'[j].node
        PROVE  ~ IsAnswer(mail'[i]) /\ ~ (mail'[i].ev = "Held" /\ mail'[j].ev = "Held")
    <3>1. i + k < j + k
      BY <1>4, <2>2
    <3> QED BY <1>3, <1>4, <2>2, <3>1 DEF OneAnswer
  <2> QED BY <2>1, <2>2 DEF OneAnswer, IsAnswer, IsBody
<1>11. \A d \in Node : Lodged(d)'
  <2> SUFFICES ASSUME NEW d \in Node PROVE Lodged(d)'
    OBVIOUS
  <2>1. CASE d # n
    BY <1>1, <1>2, <1>3, <1>6, <2>1 DEF Lodged, Ended
  <2>2. CASE d = n
    BY <1>1, <1>2, <1>3, <1>6, <2>2 DEF Lodged, Ended
  <2> QED BY <2>1, <2>2
<1>12. Asleep' /\ OneTask'
  BY <1>1, <1>3 DEF Asleep, Ended, OneTask
<1>13. refused' \subseteq {<<"Held", "Abandoned">>}
  BY DEF Hosted
<1> QED BY <1>5, <1>7, <1>8, <1>9, <1>10, <1>11, <1>12, <1>13 DEF Hosted

(* e may be said after r, an answer only at the end.                       *)
MayFollow(r, e) ==
  /\ \A i \in DOMAIN r : ~ IsAnswer(r[i])
  /\ \A i \in DOMAIN r, j \in DOMAIN e : ~ (r[i].ev = "Held" /\ e[j].ev = "Held")

MadeOf(c, r, e) ==
  /\ \A i \in DOMAIN c : (\E j \in DOMAIN r : c[i] = r[j]) \/ (\E j \in DOMAIN e : c[i] = e[j])
  /\ \A j \in DOMAIN e : \E i \in DOMAIN c : c[i] = e[j]

LEMMA SaidAfter ==
  ASSUME NEW t, NEW a, NEW r, NEW e, NEW c, c = r \o e, Says(t, a, r), Says(t, a, e),
         MayFollow(r, e)
  PROVE  Says(t, a, c) /\ MadeOf(c, r, e)
<1> USE DEF Says, MayFollow
<1>1. /\ c \in Seq(Mail) /\ Len(c) = Len(r) + Len(e) /\ Len(r) \in Nat /\ Len(e) \in Nat
      /\ DOMAIN c = 1 .. (Len(r) + Len(e)) /\ DOMAIN r = 1 .. Len(r) /\ DOMAIN e = 1 .. Len(e)
  OBVIOUS
<1>2. \A i \in 1 .. (Len(r) + Len(e)) :
        c[i] = IF i <= Len(r) THEN r[i] ELSE e[i - Len(r)]
  OBVIOUS
<1>3. ASSUME NEW i \in DOMAIN c
      PROVE  \/ i \in DOMAIN r /\ c[i] = r[i]
             \/ i - Len(r) \in DOMAIN e /\ c[i] = e[i - Len(r)] /\ i > Len(r)
  BY <1>1, <1>2
<1>4. \A j \in DOMAIN e : \E i \in DOMAIN c : c[i] = e[j]
  <2> SUFFICES ASSUME NEW j \in DOMAIN e PROVE \E i \in DOMAIN c : c[i] = e[j]
    OBVIOUS
  <2>1. j + Len(r) \in DOMAIN c /\ ~ (j + Len(r) <= Len(r)) /\ (j + Len(r)) - Len(r) = j
    BY <1>1
  <2> QED BY <1>1, <1>2, <2>1
<1>5. InTurn(c)
  <2> SUFFICES ASSUME NEW i \in DOMAIN c, NEW j \in DOMAIN c, i < j
               PROVE  ~ IsAnswer(c[i]) /\ ~ (c[i].ev = "Held" /\ c[j].ev = "Held")
    BY DEF InTurn
  <2>1. CASE j \in DOMAIN r /\ c[j] = r[j]
    <3>1. i \in DOMAIN r /\ c[i] = r[i]
      BY <1>1, <1>2, <2>1
    <3> QED BY <2>1, <3>1 DEF InTurn
  <2>2. CASE j - Len(r) \in DOMAIN e /\ c[j] = e[j - Len(r)] /\ j > Len(r)
    <3>1. CASE i \in DOMAIN r /\ c[i] = r[i]
      BY <2>2, <3>1
    <3>2. CASE i - Len(r) \in DOMAIN e /\ c[i] = e[i - Len(r)]
      <4>1. i - Len(r) < j - Len(r)
        BY <1>1
      <4> QED BY <2>2, <3>2, <4>1 DEF InTurn
    <3> QED BY <1>3, <3>1, <3>2
  <2> QED BY <1>3, <2>1, <2>2
<1>6. \A i \in DOMAIN c : MaySay(t, a, c[i])
  BY <1>3
<1>7. \A i \in DOMAIN c : \/ \E j \in DOMAIN r : c[i] = r[j]
                          \/ \E j \in DOMAIN e : c[i] = e[j]
  BY <1>3
<1> QED BY <1>1, <1>4, <1>5, <1>6, <1>7 DEF MadeOf

(* What one poll says.                                                     *)
LEMMA ReportedSays ==
  ASSUME NEW t \in Task, NEW registers \in BOOLEAN, NEW ends \in {"no", "Ok", "Err"}, NEW a,
         registers => /\ t.phase = "run" /\ CanHold(t.node) /\ a.acquired
                      /\ ~ live[t.node].acquired,
         t.phase = "run" /\ ends = "Ok" => a.cx \in {"output", "held"}
  PROVE  LET r == Reported(t, registers, ends) IN
         /\ Says(t, a, r)
         /\ ends = "no" <=> ~ \E i \in DOMAIN r : IsAnswer(r[i])
<1> DEFINE x == FromBody(t, "Started")
           y == FromBody(t, "Held")
           z == FromBody(t, OutcomeEvent(t, ends))
           r == Reported(t, registers, ends)
           p == t.phase = "run" /\ ~ t.polled
           q == ends # "no"
<1>1. ASSUME NEW ev \in BodyEvents
      PROVE  /\ FromBody(t, ev) \in BodyMail /\ IsBody(FromBody(t, ev))
             /\ FromBody(t, ev).node = t.node /\ FromBody(t, ev).epoch = t.epoch
             /\ FromBody(t, ev).phase = t.phase /\ FromBody(t, ev).ev = ev
  BY DEF FromBody, BodyMail, IsBody, Task
<1>2. /\ x \in BodyMail /\ ~ IsAnswer(x) /\ x.ev = "Started" /\ (p => MaySay(t, a, x))
      /\ y \in BodyMail /\ ~ IsAnswer(y) /\ y.ev = "Held" /\ (registers => MaySay(t, a, y))
  BY <1>1 DEF BodyEvents, IsAnswer, MaySay
<1>3. q => z \in BodyMail /\ IsAnswer(z) /\ MaySay(t, a, z)
  <2> SUFFICES ASSUME q PROVE z \in BodyMail /\ IsAnswer(z) /\ MaySay(t, a, z)
    OBVIOUS
  <2>1. /\ OutcomeEvent(t, ends) \in {"Ok", "Err", "ServeOk", "ServeErr"}
        /\ OutcomeEvent(t, ends) \in {"Ok", "Err"} =>
             t.phase # "serve" /\ OutcomeEvent(t, ends) = ends
        /\ OutcomeEvent(t, ends) \in {"ServeOk", "ServeErr"} => t.phase = "serve"
    BY DEF OutcomeEvent
  <2>2. OutcomeEvent(t, ends) \in BodyEvents
    BY <2>1 DEF BodyEvents
  <2> QED BY <1>1, <2>1, <2>2 DEF IsAnswer, MaySay
<1> DEFINE e == IF p THEN <<x>> ELSE <<>>
           f == IF registers THEN <<y>> ELSE <<>>
           g == IF q THEN <<z>> ELSE <<>>
<1>4. r = (e \o f) \o g
  BY DEF Reported
<1>5. x \in Mail /\ y \in Mail /\ (q => z \in Mail)
  BY <1>2, <1>3 DEF Mail
<1> HIDE DEF x, y, z, r, p
<1>6. Says(t, a, e) /\ \A i \in DOMAIN e : ~ IsAnswer(e[i]) /\ e[i].ev = "Started"
  <2>1. CASE p
    BY <1>2, <1>5, <2>1 DEF Says, InTurn
  <2>2. CASE ~ p
    BY <2>2 DEF Says, InTurn
  <2> QED BY <2>1, <2>2
<1>7. Says(t, a, f) /\ \A i \in DOMAIN f : ~ IsAnswer(f[i])
  <2>1. CASE registers
    BY <1>2, <1>5, <2>1 DEF Says, InTurn
  <2>2. CASE ~ registers
    BY <2>2 DEF Says, InTurn
  <2> QED BY <2>1, <2>2
<1>8. /\ Says(t, a, g) /\ \A i \in DOMAIN g : g[i].ev # "Held"
      /\ q <=> \E i \in DOMAIN g : IsAnswer(g[i])
  <2>1. CASE q
    <3>1. z.ev # "Held"
      BY <1>3, <2>1 DEF IsAnswer
    <3> QED BY <1>3, <1>5, <2>1, <3>1 DEF Says, InTurn
  <2>2. CASE ~ q
    BY <2>2 DEF Says, InTurn
  <2> QED BY <2>1, <2>2
<1> HIDE DEF e, f, g
<1> DEFINE h == e \o f
           w == h \o g
<1>9. Says(t, a, h) /\ \A i \in DOMAIN h : ~ IsAnswer(h[i])
  <2>1. MayFollow(e, f) /\ h = e \o f
    BY <1>6 DEF MayFollow
  <2> HIDE DEF h
  <2>2. Says(t, a, h) /\ MadeOf(h, e, f)
    BY <1>6, <1>7, <2>1, SaidAfter
  <2> QED BY <1>6, <1>7, <2>2 DEF MadeOf
<1> HIDE DEF h
<1>10. Says(t, a, w) /\ (q <=> \E i \in DOMAIN w : IsAnswer(w[i]))
  <2>1. MayFollow(h, g) /\ w = h \o g
    BY <1>8, <1>9 DEF MayFollow
  <2> HIDE DEF w
  <2>2. Says(t, a, w) /\ MadeOf(w, h, g)
    BY <1>8, <1>9, <2>1, SaidAfter
  <2> QED BY <1>8, <1>9, <2>2 DEF MadeOf
<1>11. r = w
  BY <1>4 DEF h
<1> HIDE DEF w
<1> QED BY <1>10, <1>11 DEF r

(* A task is gone from a run that is over.                                 *)
LEMMA GoneHosts ==
  ASSUME Hosted, EngineOK, Ended, NEW t \in task, AbandonedTaskEnds(t.node), bank' = bank,
         refused' = refused, NEW a, Accords(t, a), task' = task \ {t}, mail' = mail
  PROVE  Hosted'
<1>1. /\ HostTyped /\ OneTask /\ OneAnswer /\ t.node \in Node /\ live \in [Node -> Live]
  BY DEF Hosted, HostTyped, Task
<1>2. /\ live' \in [Node -> Live]
      /\ \A d \in Node : /\ live'[d].epoch = live[d].epoch /\ live'[d].handle = live[d].handle
                         /\ live[d].acquired => live'[d].acquired
                         /\ d # t.node => live'[d] = live[d]
  BY <1>1 DEF Accords
<1>3. Trimmed
  <2>1. mail \in Seq(Mail) /\ \A i \in DOMAIN mail : i \in Nat /\ i + 0 = i
    BY <1>1 DEF HostTyped
  <2> QED BY <2>1 DEF Trimmed
<1>4. \A u \in task' : u.node # t.node
  BY <1>1 DEF OneTask
<1>5. \A i \in DOMAIN mail' : IsAnswer(mail'[i]) => mail'[i].node # t.node
  BY <1>1 DEF OneAnswer
<1>6. Survives({t.node})
  BY DEF Survives
<1>7. \A u \in task : u.node # t.node => u \in task'
  OBVIOUS
<1> QED BY <1>1, <1>2, <1>3, <1>4, <1>5, <1>6, <1>7, LaidOffHosts

(* A poll of the task t, or its join.                                      *)
LEMMA PollHosts ==
  ASSUME Hosted, EngineOK, NEW t \in task, NEW registers \in BOOLEAN,
         NEW ends \in {"no", "Ok", "Err"}, Poll(t, registers, ends)
  PROVE  [Next]_vars /\ Hosted'
<1> DEFINE n == t.node
           l == live[n]
           a == IF registers THEN [l EXCEPT !.cx = "held", !.acquired = TRUE]
                ELSE IF t.phase = "run" /\ ends = "Ok" /\ ~ CanHold(n)
                     THEN [l EXCEPT !.cx = "output"] ELSE l
           r == Reported(t, registers, ends)
           rem == Remains(t, ends)
<1>1. /\ HostTyped /\ live \in [Node -> Live] /\ mail \in Seq(Mail) /\ t \in Task
      /\ n \in Node /\ Tracked(t) /\ Lodged(n)
  BY DEF Hosted, HostTyped, Task
<1>2. /\ registers => t.phase = "run" /\ CanHold(n) /\ ~ l.acquired
      /\ t.phase = "run" /\ ends = "Ok" /\ CanHold(n) => l.acquired \/ registers
      /\ Send(r) /\ task' = (task \ {t}) \cup rem
      /\ live' = IF registers THEN [live EXCEPT ![n].cx = "held", ![n].acquired = TRUE]
                 ELSE IF t.phase = "run" /\ ends = "Ok" /\ ~ CanHold(n)
                      THEN [live EXCEPT ![n].cx = "output"] ELSE live
      /\ IF ends # "no" THEN Outlived(n) ELSE UNCHANGED vars
      /\ bank' = bank /\ refused' = refused
  BY DEF Poll
<1>3. live' = [live EXCEPT ![n] = a]
  <2>1. CASE registers
    BY <1>1, <1>2, <2>1
  <2>2. CASE ~ registers /\ t.phase = "run" /\ ends = "Ok" /\ ~ CanHold(n)
    BY <1>1, <1>2, <2>2
  <2>3. CASE ~ registers /\ ~ (t.phase = "run" /\ ends = "Ok" /\ ~ CanHold(n))
    <3>1. a = l /\ live' = live
      BY <1>2, <2>3
    <3> QED BY <1>1, <3>1
  <2> QED BY <2>1, <2>2, <2>3
<1>4. l \in Live
  BY <1>1
<1>5. /\ a \in Live /\ a.epoch = l.epoch /\ a.handle = l.handle
      /\ registers => a.acquired /\ a.cx = "held"
      /\ ~ registers => a.acquired = l.acquired
      /\ ~ registers /\ t.phase = "run" /\ ends = "Ok" /\ ~ CanHold(n) => a.cx = "output"
      /\ ~ registers /\ ~ (t.phase = "run" /\ ends = "Ok" /\ ~ CanHold(n)) => a = l
  <2> HIDE DEF l
  <2> QED BY <1>4 DEF Live
<1>6. body[n].phase = t.phase
  BY <1>1 DEF Tracked
<1> HIDE DEF a
<1>7. Accords(t, a)
  <2>1. l.acquired /\ t.phase = "run" => l.cx = "held" /\ CanHold(n)
    BY <1>1, <1>6 DEF Lodged
  <2> QED BY <1>2, <1>3, <1>5, <2>1 DEF Accords
<1>8. Says(t, a, r) /\ (ends = "no" <=> ~ \E i \in DOMAIN r : IsAnswer(r[i]))
  <2>1. t.phase = "run" /\ ends = "Ok" => a.cx \in {"output", "held"}
    BY <1>1, <1>2, <1>5, <1>6 DEF Lodged
  <2> QED BY <1>1, <1>2, <1>5, <2>1, ReportedSays
<1>9. /\ \A u \in rem : Leftover(t, u)
      /\ \A u, w \in rem : u = w
      /\ rem = {} <=> ends # "no"
  <2> DEFINE u == [t EXCEPT !.polled = TRUE, !.aborted = IF @ = "yes" THEN "last" ELSE @]
  <2>1. Leftover(t, u)
    BY <1>1 DEF Leftover, Task
  <2>2. rem = IF ends # "no" THEN {} ELSE {u}
    BY DEF Remains
  <2> HIDE DEF u, rem
  <2> QED BY <2>1, <2>2
<1> HIDE DEF r, rem
<1>10. CASE ~ Ended
  <2>1. UNCHANGED vars /\ mail' = mail \o r
    BY <1>2, <1>10 DEF Outlived, Send
  <2> QED BY <1>2, <1>7, <1>8, <1>9, <2>1, SpokenHosts
<1>11. CASE Ended /\ ends = "no"
  <2> DEFINE e == <<>>
  <2>1. UNCHANGED vars /\ mail' = mail /\ mail = mail \o e /\ DOMAIN e = {} /\ e \in Seq(Mail)
    BY <1>1, <1>2, <1>11 DEF Send
  <2> HIDE DEF e
  <2>2. Says(t, a, e) /\ ~ \E i \in DOMAIN e : IsAnswer(e[i])
    BY <2>1 DEF Says, InTurn
  <2>3. mail' = mail \o e
    BY <2>1
  <2>4. rem = {} <=> \E i \in DOMAIN e : IsAnswer(e[i])
    BY <1>9, <1>11, <2>2
  <2>5. Hosted'
    BY <1>2, <1>7, <1>9, <2>1, <2>2, <2>3, <2>4, SpokenHosts
  <2> QED BY <2>1, <2>5
<1>12. CASE Ended /\ ends # "no"
  <2>1. AbandonedTaskEnds(n) /\ mail' = mail /\ task' = task \ {t}
    BY <1>2, <1>9, <1>12 DEF Outlived, Send
  <2>2. [Next]_vars
    BY <1>1, <2>1 DEF Next, Tasks
  <2> QED BY <1>2, <1>7, <1>12, <2>1, <2>2, GoneHosts
<1> QED BY <1>10, <1>11, <1>12

LEMMA JoinHosts ==
  ASSUME Hosted, EngineOK, NEW t \in task, JoinAborted(t)
  PROVE  [Next]_vars /\ Hosted'
<1> DEFINE n == t.node
           a == live[n]
           m == FromBody(t, "Cancelled")
           r == <<m>>
<1>1. /\ HostTyped /\ live \in [Node -> Live] /\ mail \in Seq(Mail) /\ t \in Task
      /\ n \in Node /\ Tracked(t) /\ Lodged(n) /\ a \in Live
  BY DEF Hosted, HostTyped, Task
<1>2. /\ t.aborted # "no" /\ task' = (task \ {t}) \cup {} /\ Send(r) /\ Outlived(n)
      /\ live' = live /\ bank' = bank /\ refused' = refused
  BY DEF JoinAborted
<1>3. Accords(t, a)
  <2>1. live' = [live EXCEPT ![n] = a]
    BY <1>1, <1>2
  <2>2. t.phase = "run" /\ a.acquired => a.cx = "held" /\ CanHold(n)
    BY <1>1 DEF Tracked, Lodged
  <2> QED BY <1>1, <2>1, <2>2 DEF Accords
<1>4. m \in Mail /\ MaySay(t, a, m) /\ IsAnswer(m)
  <2>1. /\ m \in BodyMail /\ IsBody(m) /\ m.node = n /\ m.epoch = t.epoch
        /\ m.phase = t.phase /\ m.ev = "Cancelled"
    BY <1>1 DEF FromBody, BodyMail, BodyEvents, IsBody, Task
  <2> QED BY <1>2, <2>1 DEF MaySay, IsAnswer, Mail
<1> HIDE DEF m
<1>5. Says(t, a, r) /\ \E i \in DOMAIN r : IsAnswer(r[i])
  BY <1>4 DEF Says, InTurn
<1> HIDE DEF r, a
<1>6. CASE ~ Ended
  <2>1. UNCHANGED vars /\ mail' = mail \o r
    BY <1>2, <1>6 DEF Outlived, Send
  <2>2. Hosted'
    <3> DEFINE rem == {}
    <3>1. /\ task' = (task \ {t}) \cup rem /\ \A u \in rem : Leftover(t, u)
          /\ \A u, w \in rem : u = w
          /\ rem = {} <=> \E i \in DOMAIN r : IsAnswer(r[i])
      BY <1>2, <1>5
    <3> HIDE DEF rem
    <3> QED BY <1>2, <1>3, <1>5, <2>1, <3>1, SpokenHosts
  <2> QED BY <2>1, <2>2
<1>7. CASE Ended
  <2>1. AbandonedTaskEnds(n) /\ mail' = mail /\ task' = task \ {t}
    BY <1>2, <1>7 DEF Outlived, Send
  <2>2. [Next]_vars
    BY <1>1, <2>1 DEF Next, Tasks
  <2> QED BY <1>2, <1>3, <1>7, <2>1, <2>2, GoneHosts
<1> QED BY <1>6, <1>7

LEMMA DiscardHosts ==
  ASSUME Hosted, EngineOK, Discard
  PROVE  [Next]_vars /\ Hosted'
<1> DEFINE m == Head(mail)
           n == m.node
<1>1. /\ Ended /\ HostTyped /\ OneAnswer /\ mail # <<>> /\ mail' = Tail(mail)
      /\ live' = live /\ task' = task /\ bank' = bank /\ refused' = refused
      /\ live \in [Node -> Live]
  BY DEF Discard, Hosted, HostTyped
<1>2. /\ Trimmed /\ m \in Mail /\ m = mail[1] /\ 1 \in DOMAIN mail
      /\ \A i \in DOMAIN mail' : i + 1 \in DOMAIN mail /\ 1 < i + 1 /\ mail'[i] = mail[i + 1]
      /\ \A i \in DOMAIN mail : i = 1 \/ \E j \in DOMAIN mail' : mail'[j] = mail[i]
  BY <1>1, TailTrims
<1>3. CASE ~ IsAnswer(m)
  <2>1. UNCHANGED vars
    BY <1>3 DEF Discard, IsAnswer
  <2>2. Survives({})
    BY <1>2, <1>3 DEF Survives
  <2> QED BY <1>1, <1>2, <2>1, <2>2, DroppedHosts DEF Resting
<1>4. CASE IsAnswer(m)
  <2>1. AbandonedTaskEnds(n)
    BY <1>1, <1>4 DEF Discard, IsAnswer, Outlived
  <2>2. n \in Node /\ IsBody(m)
    BY <1>2, <1>4, BodySort DEF IsAnswer
  <2>3. [Next]_vars
    BY <2>1, <2>2 DEF Next, Tasks
  <2>4. \A u \in task' : u.node # n
    BY <1>1, <1>2, <1>4 DEF OneAnswer
  <2>5. ASSUME NEW i \in DOMAIN mail', IsAnswer(mail'[i]) PROVE mail'[i].node # n
    <3>1. i + 1 \in DOMAIN mail /\ 1 < i + 1 /\ IsAnswer(mail[i + 1]) /\ mail'[i] = mail[i + 1]
      BY <1>2, <2>5
    <3> QED BY <1>1, <1>2, <1>4, <2>2, <3>1 DEF OneAnswer, IsAnswer
  <2>6. Survives({n})
    BY <1>2 DEF Survives
  <2>7. \A u \in task : u.node # n => u \in task'
    BY <1>1
  <2>8. task' \subseteq task /\ live' \in [Node -> Live]
    BY <1>1
  <2> HIDE DEF m
  <2> QED BY <1>1, <1>2, <2>1, <2>2, <2>3, <2>4, <2>5, <2>6, <2>7, <2>8, LaidOffHosts
<1> QED BY <1>3, <1>4

-----------------------------------------------------------------------------
(* Every step of the driver.                                               *)

LEMMA DriverBegins == DriverInit => EngineOK /\ Hosted
<1> SUFFICES ASSUME DriverInit PROVE EngineOK /\ Hosted
  OBVIOUS
<1>1. EngineOK
  BY InitTyped, InitSafe, InitLedger, InitAdmitted, InitManned DEF EngineOK, DriverInit
<1>2. /\ task = {} /\ mail = <<>> /\ bank = [n \in Node |-> 0] /\ refused = {}
      /\ \A n \in Node : live[n].epoch = 0
  BY DEF DriverInit
<1>3. /\ scope.st = "Planned" /\ ~ scope.budget /\ ~ scope.zero
      /\ \A n \in Node : /\ slot[n].timer = "none" /\ ~ slot[n].publishing /\ ~ slot[n].held
                         /\ ~ slot[n].initialized /\ slot[n].st = "Pending"
                         /\ body[n].phase = "none"
  BY DEF DriverInit, Init
<1>4. <<>> \in Seq(Mail) /\ DOMAIN <<>> = {}
  OBVIOUS
<1>5. HostTyped
  BY <1>2, <1>4 DEF DriverInit, HostTyped, Live
<1>6. Asleep /\ OneTask /\ OneAnswer
  BY <1>2, <1>3, <1>4 DEF Asleep, OneTask, OneAnswer
<1>7. \A n \in Node : Heard(n) /\ Lodged(n)
  BY <1>2, <1>3 DEF Heard, Lodged, Valued
<1> QED BY <1>1, <1>2, <1>4, <1>5, <1>6, <1>7 DEF Hosted

(* Nothing changes at the end.                                             *)
LEMMA StayedHosts ==
  ASSUME Hosted, UNCHANGED driverVars
  PROVE  UNCHANGED vars /\ Hosted'
<1>1. Resting /\ mail' = mail
  BY DEF driverVars, hostVars, Resting
<1>2. mail \in Seq(Mail)
  BY DEF Hosted, HostTyped
<1>3. Trimmed
  <2>1. \A i \in DOMAIN mail : i \in Nat /\ i + 0 = i
    BY <1>2
  <2> QED BY <1>1, <1>2, <2>1 DEF Trimmed
<1>4. Survives({})
  BY <1>1 DEF Survives
<1> QED BY <1>1, <1>3, <1>4, DroppedHosts DEF Resting

LEMMA DriverSteps ==
  ASSUME EngineOK, Hosted, [DriverNext]_driverVars
  PROVE  [Next]_vars /\ EngineOK' /\ Hosted' /\ plan' = plan
<1>1. [Next]_vars /\ Hosted'
  <2>1. CASE Boot
    BY <2>1, BootHandled
  <2>2. CASE Handle
    BY <2>2, AllHandled
  <2>3. CASE AcknowledgeNext
    BY <2>3, TransferHandled
  <2>4. CASE Discard
    BY <2>4, DiscardHosts
  <2>5. ASSUME NEW n \in Node, PollAny(n) PROVE [Next]_vars /\ Hosted'
    BY <2>5, PollHosts DEF PollAny
  <2>6. ASSUME NEW n \in Node, JoinAny(n) PROVE [Next]_vars /\ Hosted'
    BY <2>6, JoinHosts DEF JoinAny
  <2>7. CASE FireBudget \/ FireZero \/ \E n \in Node : FireNode(n)
    BY <2>7, FiredHosts
  <2>8. ASSUME NEW cause \in {"Shutdown", "Cancel"}, Ask(cause) PROVE [Next]_vars /\ Hosted'
    BY <2>8, AskedHosts
  <2>9. CASE UNCHANGED driverVars
    BY <2>9, StayedHosts
  <2> QED BY <2>1, <2>2, <2>3, <2>4, <2>5, <2>6, <2>7, <2>8, <2>9 DEF DriverNext, Finished
<1> QED BY <1>1, EngineStays

LEMMA DriverKeeps == DriverSpec => [](EngineOK /\ Hosted)
<1>1. DriverInit => EngineOK /\ Hosted
  BY DriverBegins
<1>2. EngineOK /\ Hosted /\ [DriverNext]_driverVars => (EngineOK /\ Hosted)'
  BY DriverSteps
<1> QED BY <1>1, <1>2, PTL DEF DriverSpec

-----------------------------------------------------------------------------
(* What it is good for.                                                    *)

(* For every number of nodes, every set of valid plans and any number of   *)
(* requests: whatever the driver does, its engine goes through a behaviour *)
(* of Machine.  All that is proved of the engine holds of it as driven, by *)
(* the events, and in the order, that the mailbox lets through.            *)
THEOREM EngineInside == DriverSpec => Spec
<1>1. DriverInit => Init
  BY DEF DriverInit
<1>2. EngineOK /\ Hosted /\ [DriverNext]_driverVars => [Next]_vars
  BY DriverSteps
<1> QED BY <1>1, <1>2, DriverKeeps, PTL DEF DriverSpec, Spec

(* The host's own view of a node is what the engine asked for.             *)
LEMMA SeenAsAsked == Hosted /\ EngineOK => HostBody = body
<1> SUFFICES ASSUME Hosted, EngineOK PROVE HostBody = body
  OBVIOUS
<1>1. body \in [Node -> Body]
  BY HereNear DEF EngineOK, Typed, State
<1>2. HostTyped /\ OneTask /\ OneAnswer /\ mail \in Seq(Mail)
  BY DEF Hosted, HostTyped
<1>3. ASSUME NEW n \in Node PROVE HostBody[n] = body[n]
  <2> DEFINE spoken == {t.phase : t \in {u \in task : u.node = n}}
             queued == {mail[i].phase : i \in Answers(n)}
             phases == spoken \cup queued
  <2>1. HostBody[n] = IF phases = {} THEN [phase |-> "none", aborted |-> FALSE]
                      ELSE [phase |-> CHOOSE p \in phases : TRUE, aborted |-> ~ live[n].handle]
    BY DEF HostBody
  <2>2. /\ body[n] = [phase |-> body[n].phase, aborted |-> body[n].aborted]
        /\ body[n].aborted \in BOOLEAN /\ Manned(n, slot[n], body[n]) /\ Lodged(n) /\ Heard(n)
    BY <1>1, HereNear DEF Body, EngineOK, AllManned, Hosted
  <2>3. ASSUME NEW t \in task, t.node = n
        PROVE  body[n].phase # "none" /\ t.phase = body[n].phase
    BY <2>3 DEF Hosted, Tracked
  <2>4. \A i \in DOMAIN mail : i \in Answers(n) <=> IsAnswer(mail[i]) /\ mail[i].node = n
    BY DEF Answers, IsAnswer
  <2>5. ASSUME NEW i \in Answers(n)
        PROVE  body[n].phase # "none" /\ mail[i].phase = body[n].phase
    <3>1. i \in DOMAIN mail /\ IsAnswer(mail[i]) /\ IsBody(mail[i]) /\ mail[i].node = n
      BY <2>4 DEF Answers
    <3>2. Current(mail[i])
      BY <3>1 DEF Hosted
    <3> QED BY <3>1, <3>2 DEF Current
  <2>6. \A p \in phases : body[n].phase # "none" /\ p = body[n].phase
    BY <2>3, <2>5
  <2>7. CASE body[n].phase = "none"
    <3>1. phases = {} /\ ~ body[n].aborted
      BY <2>2, <2>6, <2>7 DEF Manned
    <3> QED BY <2>1, <2>2, <2>7, <3>1
  <2>8. CASE body[n].phase # "none"
    <3>1. phases # {}
      <4>1. CASE \E t \in task : t.node = n
        BY <4>1
      <4>2. CASE \E i \in DOMAIN mail : IsAnswer(mail[i]) /\ mail[i].node = n
        BY <2>4, <4>2
      <4> QED BY <2>2, <2>8, <4>1, <4>2 DEF Heard
    <3>2. (CHOOSE p \in phases : TRUE) = body[n].phase
      <4>1. (CHOOSE p \in phases : TRUE) \in phases
        BY <3>1
      <4> QED BY <2>6, <4>1
    <3>3. live[n].handle = ~ body[n].aborted
      BY <1>2, <2>2, <2>8 DEF Lodged, HostTyped, Live
    <3> HIDE DEF phases
    <3> QED BY <2>1, <2>2, <3>1, <3>2, <3>3
  <2> QED BY <2>7, <2>8
<1>4. HostBody = [n \in Node |-> HostBody[n]] /\ body = [n \in Node |-> body[n]]
  BY <1>1 DEF HostBody
<1> QED BY <1>3, <1>4

(* For every number of nodes, every set of valid plans and any number of   *)
(* requests (INV-15): the engine takes a node for having a task, of that   *)
(* phase and aborted or not, exactly while the driver runs one or has its  *)
(* answer queued: none is lost, answered for twice or mistaken for another.*)
THEOREM TasksAreTracked == DriverSpec => [](HostBody = body)
BY SeenAsAsked, DriverKeeps, PTL

(* For every number of nodes, every set of valid plans and any number of   *)
(* requests: the engine refuses nothing but the registration of a body it  *)
(* abandoned, and no message of a body outlives the attempt it is of.      *)
THEOREM NothingIsMisplaced == DriverSpec => []NothingMisplaced
<1>1. Hosted => NothingMisplaced
  BY DEF Hosted, NothingMisplaced, Current, IsCurrent
<1> QED BY <1>1, DriverKeeps, PTL

(* For every number of nodes, every set of valid plans and any number of   *)
(* requests (INV-15): a run leaves no task behind but those it recorded as *)
(* abandoned, and of these only the threads of blocking steps not aborted. *)
THEOREM NothingIsLeaked == DriverSpec => []NothingLeaks
<1>1. EngineOK /\ Hosted => NothingLeaks
  <2> SUFFICES ASSUME EngineOK, Hosted, Ended, NEW t \in task
               PROVE  /\ slot[t.node].st = "Abandoned"
                      /\ t.aborted = "no" => Decl(t.node).kind = "BlockingStep"
    BY DEF NothingLeaks
  <2>1. Tracked(t) /\ t.node \in Node
    BY DEF Hosted, HostTyped, Task
  <2>2. slot[t.node].st = "Abandoned" /\ body[t.node].phase # "none"
    BY <2>1, EndedRests DEF Tracked
  <2>3. Manned(t.node, slot[t.node], body[t.node])
    BY <2>1, HereNear DEF EngineOK, AllManned
  <2> QED BY <2>1, <2>2, <2>3 DEF Tracked, Manned
<1> QED BY <1>1, DriverKeeps, PTL

(* An attempt that nothing has told to go finds all that it needs.         *)
Furnished ==
  \A n \in Node :
    slot[n].st = "Running" /\ ~ slot[n].cancelling =>
      \A d \in Decl(n).needs : Decl(d).kind # "Join" => bank[d] # 0

(* What is held is what the current attempt handed over, once its body is  *)
(* gone and for as long as a cleanup may want it.                          *)
Stored ==
  \A n \in Node :
    /\ body[n].phase = "cleanup" /\ slot[n].st # "Abandoned" => ~ Ended
    /\ body[n].phase = "cleanup" /\ slot[n].st # "Abandoned" /\ slot[n].held =>
         bank[n] = live[n].epoch

LEMMA ValuesKept == Hosted /\ EngineOK => Furnished /\ Stored
<1> SUFFICES ASSUME Hosted, EngineOK PROVE Furnished /\ Stored
  OBVIOUS
<1>1. \A d \in Node : Lodged(d)
  BY DEF Hosted
<1>2. Stored
  BY <1>1, EndedRests DEF Stored, Lodged
<1>3. Furnished
  <2> SUFFICES ASSUME NEW n \in Node, slot[n].st = "Running", ~ slot[n].cancelling,
                      NEW d \in Decl(n).needs, Decl(d).kind # "Join"
               PROVE  bank[d] # 0
    BY DEF Furnished
  <2>1. Here.slot = slot /\ TypeOK /\ plan \in Plans
    BY HereNear DEF EngineOK, TypeOK
  <2>2. Up(Here)
    <3>1. Told(Here, n)
      BY DEF EngineOK, Ledger, Books
    <3> QED BY <2>1, <3>1 DEF Told
  <2>3. NeedsReady(Here, n)
    BY <2>1, <2>2 DEF EngineOK, Admitted, Admission, Orderly, Grounded, Underway
  <2>4. d \in Node
    BY <2>1, NeedsNodes
  <2>5. Valued(d, slot[d])
    BY <2>1, <2>3 DEF NeedsReady, Valued
  <2> QED BY <1>1, <2>4, <2>5 DEF Lodged
<1> QED BY <1>2, <1>3

(* A run starts where nothing has told it to go.                           *)
LEMMA RunsBegin ==
  ASSUME EngineOK, [Next]_vars, NEW n \in Node, StartsAttempt(n)
  PROVE  slot'[n].st = "Running" /\ ~ slot'[n].cancelling
<1>1. TypeOK /\ AllManned(Here) /\ slot \in [Node -> Slot]
  BY HereNear DEF EngineOK, Typed, State
<1>2. body'[n].phase = "run" /\ slot'[n].attempt # slot[n].attempt
  BY DEF StartsAttempt
<1>3. ASSUME Moves(n) PROVE slot'[n].st = "Running" /\ ~ slot'[n].cancelling
  BY <1>2, <1>3 DEF Moves
<1>4. ASSUME NEW d \in Node, NEW h, NEW v, Retired(d, h, v)
      PROVE  slot'[n].st = "Running" /\ ~ slot'[n].cancelling
  <2>1. CASE d = n
    BY <1>2, <1>4, <2>1 DEF Retired, Retires
  <2>2. CASE d # n
    BY <1>3, <1>4, <2>2 DEF Retired
  <2> QED BY <2>1, <2>2
<1>5. CASE Begin
  BY <1>1, <1>3, <1>5, BeginMoves DEF AllMoved
<1>6. ASSUME NEW cause \in {"Shutdown", "Cancel"}, Request(cause)
      PROVE  slot'[n].st = "Running" /\ ~ slot'[n].cancelling
  BY <1>1, <1>3, <1>6, RequestMoves DEF AllMoved
<1>7. ASSUME NEW d \in Node, Tasks(d)
      PROVE  slot'[n].st = "Running" /\ ~ slot'[n].cancelling
  <2>1. CASE BodyHeld(d)
    <3>1. slot'[n].attempt = slot[n].attempt
      <4>1. slot' = [slot EXCEPT ![d].held = TRUE] /\ slot[n] \in Slot
        BY <1>1, <2>1, BodyHeldFits
      <4>2. slot'[n] = IF n = d THEN [slot[n] EXCEPT !.held = TRUE] ELSE slot[n]
        BY <1>1, <4>1
      <4> QED BY <4>1, <4>2 DEF Slot
    <3> QED BY <1>2, <3>1
  <2>2. ASSUME NEW ok \in BOOLEAN, Acknowledged(d, ok)
        PROVE  slot'[n].st = "Running" /\ ~ slot'[n].cancelling
    BY <1>1, <1>3, <2>2, AcknowledgedMoves DEF AllMoved
  <2>3. CASE ~ BodyHeld(d) /\ ~ \E ok \in BOOLEAN : Acknowledged(d, ok)
    <3>1. \E h, v : Retired(d, h, v)
      BY <1>1, <1>7, <2>3, AbandonedTaskEndsRetires, BodyReturnsRetires, BodyCancelledRetires,
         ServingEndsRetires, ServiceStopsRetires, CleanupReturnsRetires,
         RetryReleaseReturnsRetires
         DEF Tasks
    <3> QED BY <1>4, <3>1
  <2> QED BY <2>1, <2>2, <2>3
<1>8. ASSUME NEW d \in Node, Timers(d)
      PROVE  slot'[n].st = "Running" /\ ~ slot'[n].cancelling
  BY <1>1, <1>3, <1>8, TimersMove DEF AllMoved
<1>9. CASE BudgetExpires \/ ZeroExpires
  BY <1>1, <1>3, <1>9, BudgetExpiresMoves, ZeroExpiresMoves DEF AllMoved
<1>10. ~ UNCHANGED vars
  BY <1>2 DEF vars
<1> QED BY <1>5, <1>6, <1>7, <1>8, <1>9, <1>10 DEF Next, Terminated

(* A node is not abandoned before its cleanup starts.                      *)
LEMMA CleanupsBegin ==
  ASSUME EngineOK, EngineOK', [Next]_vars, NEW n \in Node, StartsCleanup(n)
  PROVE  slot'[n].st # "Abandoned"
<1>1. ~ UNCHANGED vars
  BY DEF StartsCleanup, vars
<1>2. AllLed /\ Ledger(Here)' /\ plan' = plan
  BY <1>1, StepLanded DEF EngineOK
<1>3. \E a \in Accounts, b \in Accounts :
        /\ Led(n, a, b) /\ a.phase = body[n].phase
        /\ b.slot = slot'[n] /\ b.phase = body'[n].phase
  BY <1>2, StepAccount DEF EngineOK
<1> QED BY <1>3 DEF Led, StartsCleanup

(* For every number of nodes, every set of valid plans and any number of   *)
(* requests (INV-3): an attempt that starts finds the value of everything  *)
(* it needs in the slots, and a cleanup that releases an acquisition finds *)
(* the value of the very attempt that made it.                             *)
THEOREM ValuesAreInPlace == DriverSpec => ValuesInPlace
<1>1. /\ EngineOK /\ Hosted /\ [DriverNext]_driverVars /\ (Furnished /\ Stored)'
      => [\A n \in Node :
           /\ StartsAttempt(n) =>
                \A d \in Decl(n).needs : Decl(d).kind # "Join" => bank'[d] # 0
           /\ StartsCleanup(n) /\ slot'[n].held => bank'[n] = live'[n].epoch]_driverVars
  <2> SUFFICES ASSUME EngineOK, Hosted, [DriverNext]_driverVars, Furnished', Stored',
                      NEW n \in Node
               PROVE  /\ StartsAttempt(n) =>
                           \A d \in Decl(n).needs : Decl(d).kind # "Join" => bank'[d] # 0
                      /\ StartsCleanup(n) /\ slot'[n].held => bank'[n] = live'[n].epoch
    OBVIOUS
  <2>1. [Next]_vars /\ EngineOK' /\ plan' = plan
    BY DriverSteps
  <2>2. ASSUME StartsAttempt(n)
        PROVE  \A d \in Decl(n).needs : Decl(d).kind # "Join" => bank'[d] # 0
    <3>1. slot'[n].st = "Running" /\ ~ slot'[n].cancelling
      BY <2>1, <2>2, RunsBegin
    <3> QED BY <2>1, <3>1 DEF Furnished, Decl
  <2>3. ASSUME StartsCleanup(n), slot'[n].held
        PROVE  bank'[n] = live'[n].epoch
    <3>1. slot'[n].st # "Abandoned" /\ body'[n].phase = "cleanup"
      BY <2>1, <2>3, CleanupsBegin DEF StartsCleanup
    <3> QED BY <2>3, <3>1 DEF Stored
  <2> QED BY <2>2, <2>3
<1>2. Hosted /\ EngineOK => Furnished /\ Stored
  BY ValuesKept
<1> QED BY <1>1, <1>2, DriverKeeps, PTL DEF DriverSpec, ValuesInPlace

-----------------------------------------------------------------------------
(* The engine over the driver's own record.  Read with the bodies          *)
(* of the driver in place of the engine's, every definition of the engine  *)
(* says what it says: by EngineInside and TasksAreTracked the driver then  *)
(* refines the engine over its tasks and mailbox.                          *)

(* What the declaration, the sets of states and the tests of a picture    *)
(* say does not depend on the bodies.                                      *)
LEMMA SameWords ==
  /\ AsSeen!Node = Node /\ AsSeen!Unstarted = Unstarted /\ AsSeen!CleanupStates = CleanupStates
  /\ \A n : /\ AsSeen!Decl(n) = Decl(n) /\ AsSeen!Wants(n) = Wants(n)
            /\ AsSeen!Dependents(n) = Dependents(n)
            /\ AsSeen!IsService(n) <=> IsService(n)
            /\ AsSeen!CanHold(n) <=> CanHold(n)
            /\ AsSeen!CanOwe(n) <=> CanOwe(n)
            /\ AsSeen!RecoversAmbiguity(n) <=> RecoversAmbiguity(n)
  /\ \A m : /\ AsSeen!Admits(m) <=> Admits(m)
            /\ AsSeen!Granted(m) = Granted(m)
            /\ \A S : AsSeen!In(m, S) = In(m, S)
            /\ AsSeen!Outcome(m) = Outcome(m)
BY DEF
   AsSeen!Node, Node, AsSeen!Unstarted, Unstarted, AsSeen!CleanupStates, CleanupStates,
   AsSeen!Decl, Decl, AsSeen!Wants, Wants, AsSeen!Dependents, Dependents, AsSeen!IsService,
   IsService, AsSeen!CanHold, CanHold, AsSeen!CanOwe, CanOwe, AsSeen!RecoversAmbiguity,
   RecoversAmbiguity, AsSeen!Admits, Admits, AsSeen!Granted, Granted, AsSeen!In, In,
   AsSeen!Outcome, Outcome

(* Nor does any function of the picture: spawning, aborting, parking and   *)
(* flushing faults.                                                        *)
LEMMA SameChores ==
  ASSUME NEW m, NEW S
  PROVE  /\ \A p : AsSeen!Spawn(m, S, p) = Spawn(m, S, p)
         /\ AsSeen!Abort(m, S) = Abort(m, S)
         /\ AsSeen!FlushFaults(m, S) = FlushFaults(m, S)
         /\ AsSeen!Absorb(m, S) = Absorb(m, S)
BY DEF
   AsSeen!Spawn, Spawn, AsSeen!Abort, Abort, AsSeen!FlushFaults, FlushFaults, AsSeen!Absorb,
   Absorb, AsSeen!Node, Node

LEMMA SameMarks ==
  ASSUME NEW m, NEW n
  PROVE  /\ AsSeen!TaskEnds(m, n) = TaskEnds(m, n)
         /\ \A k : AsSeen!ParkFault(m, n, k) = ParkFault(m, n, k)
         /\ AsSeen!CleanupFails(m, n) = CleanupFails(m, n)
BY DEF
   AsSeen!TaskEnds, TaskEnds, AsSeen!ParkFault, ParkFault, AsSeen!CleanupFails, CleanupFails

(* Admission and starting.                                                 *)
LEMMA SameEnqueue ==
  ASSUME NEW m
  PROVE  AsSeen!Enqueue(m) = Enqueue(m)
BY DEF
   AsSeen!Enqueue, Enqueue, AsSeen!Node, Node, AsSeen!In, In, AsSeen!NeedsReady, NeedsReady,
   AsSeen!Decl, Decl, AsSeen!IsService, IsService, AsSeen!Preferred, Preferred

LEMMA SameGrantPass ==
  ASSUME NEW m, NEW G
  PROVE  AsSeen!GrantPass(m, G) <=> GrantPass(m, G)
<1>1. \A u, w : AsSeen!Contend(u, w) <=> Contend(u, w)
  BY SameWords DEF AsSeen!Contend, Contend
<1>2. \A w, H : AsSeen!GrantsAvailable(w, H) <=> GrantsAvailable(w, H)
  <2> SUFFICES ASSUME NEW w, NEW H
               PROVE  AsSeen!GrantsAvailable(w, H) <=> GrantsAvailable(w, H)
    OBVIOUS
  <2>1. \A p : {h \in H : p \in AsSeen!Decl(h).pool} = {h \in H : p \in Decl(h).pool}
    BY DEF AsSeen!Decl, Decl
  <2>2. \A x : AsSeen!Decl(x) = Decl(x) /\ AsSeen!Wants(x) = Wants(x)
    BY SameWords
  <2>3. \A S : AsSeen!Cardinality(S) = Cardinality(S)
    BY DEF AsSeen!Cardinality, Cardinality
  <2> QED BY <2>1, <2>2, <2>3 DEF AsSeen!GrantsAvailable, GrantsAvailable
<1> QED BY SameWords, <1>1, <1>2 DEF AsSeen!GrantPass, GrantPass

LEMMA SameStartedSlot ==
  ASSUME NEW m, NEW n
  PROVE  AsSeen!StartedSlot(m, n) = StartedSlot(m, n)
BY DEF
   AsSeen!StartedSlot, StartedSlot, AsSeen!IsService, IsService, AsSeen!Decl, Decl

LEMMA SameStart ==
  ASSUME NEW m, NEW G
  PROVE  AsSeen!Start(m, G) = Start(m, G)
<1> DEFINE recovered == {n \in G : IsService(n) /\ m.slot[n].initialized}
           spawned == {n \in G \ recovered : Decl(n).kind # "Join"}
           slots == [n \in Node |-> IF n \in G THEN StartedSlot(m, n) ELSE m.slot[n]]
           queues == [n \in Node |-> IF n \in G THEN {} ELSE m.ahead[n] \ G]
           started == [m EXCEPT !.slot = slots, !.ahead = queues]
<1>1. Start(m, G) =
        Spawn(Spawn(Absorb(started, recovered), recovered, "serve"), spawned, "run")
  BY DEF Start
<1>2. AsSeen!Start(m, G) =
        AsSeen!Spawn(AsSeen!Spawn(AsSeen!Absorb(started, recovered), recovered, "serve"),
                     spawned, "run")
  <2>1. AsSeen!Node = Node /\ (\A n : AsSeen!StartedSlot(m, n) = StartedSlot(m, n))
        /\ (\A n : AsSeen!Decl(n) = Decl(n) /\ (AsSeen!IsService(n) <=> IsService(n)))
    BY SameWords, SameStartedSlot
  <2>2. /\ {n \in G : AsSeen!IsService(n) /\ m.slot[n].initialized} = recovered
        /\ {n \in G \ recovered : AsSeen!Decl(n).kind # "Join"} = spawned
        /\ [n \in AsSeen!Node |-> IF n \in G THEN AsSeen!StartedSlot(m, n) ELSE m.slot[n]]
             = slots
        /\ [n \in AsSeen!Node |-> IF n \in G THEN {} ELSE m.ahead[n] \ G] = queues
    BY <2>1
  <2> HIDE DEF recovered, spawned, slots, queues
  <2> QED BY <2>2 DEF AsSeen!Start
<1> HIDE DEF started, recovered, spawned
<1> DEFINE one == Absorb(started, recovered)
           two == Spawn(one, recovered, "serve")
<1>3. AsSeen!Absorb(started, recovered) = one
  BY SameChores
<1>4. AsSeen!Spawn(one, recovered, "serve") = two
  <2> HIDE DEF one
  <2> QED BY SameChores
<1>5. AsSeen!Spawn(two, spawned, "run") = Spawn(two, spawned, "run")
  <2> HIDE DEF two
  <2> QED BY SameChores
<1> QED BY <1>1, <1>2, <1>3, <1>4, <1>5

(* Settling, and the steady check.                                         *)
LEMMA SameSettledSlot ==
  ASSUME NEW m, NEW n
  PROVE  AsSeen!SettledSlot(m, n) = SettledSlot(m, n)
BY DEF
   AsSeen!SettledSlot, SettledSlot, AsSeen!InterruptedSlot, InterruptedSlot,
   AsSeen!Interruptible, Interruptible, AsSeen!Decl, Decl, AsSeen!IsService, IsService,
   AsSeen!Unstarted, Unstarted

LEMMA SameDropped ==
  ASSUME NEW m
  PROVE  /\ AsSeen!Dropped(m) = Dropped(m)
         /\ AsSeen!CutShort(m) = CutShort(m)
BY DEF
   AsSeen!Dropped, Dropped, AsSeen!CutShort, CutShort, AsSeen!In, In, AsSeen!Node, Node,
   AsSeen!Interruptible, Interruptible, AsSeen!Decl, Decl, AsSeen!Unstarted, Unstarted

LEMMA SameSettle ==
  ASSUME NEW m, NEW cause
  PROVE  AsSeen!Settle(m, cause) = Settle(m, cause)
BY SameWords, SameChores, SameDropped, SameSettledSlot DEF
   AsSeen!Settle, Settle, AsSeen!Node, Node

LEMMA SameCheckSteady ==
  ASSUME NEW m
  PROVE  AsSeen!CheckSteady(m) = CheckSteady(m)
BY SameWords, SameSettle DEF
   AsSeen!CheckSteady, CheckSteady, AsSeen!Unsettled, Unsettled

(* Cleanup, from the gates to the end of the run.                          *)
LEMMA SameGates ==
  ASSUME NEW m, NEW n
  PROVE  /\ AsSeen!InFlight(m, n) <=> InFlight(m, n)
         /\ AsSeen!Owes(m, n) <=> Owes(m, n)
         /\ AsSeen!BlocksRelease(m, n) <=> BlocksRelease(m, n)
         /\ AsSeen!GateOpen(m, n) <=> GateOpen(m, n)
BY SameWords DEF
   AsSeen!InFlight, InFlight, AsSeen!Owes, Owes, AsSeen!BlocksRelease, BlocksRelease,
   AsSeen!GateOpen, GateOpen

LEMMA SameObligationSlot ==
  ASSUME NEW m, NEW n
  PROVE  AsSeen!ObligationSlot(m, n) = ObligationSlot(m, n)
BY DEF
   AsSeen!ObligationSlot, ObligationSlot, AsSeen!Decl, Decl, AsSeen!IsService, IsService

LEMMA SameStartObligations ==
  ASSUME NEW m, NEW S
  PROVE  AsSeen!StartObligations(m, S) = StartObligations(m, S)
BY DEF
   AsSeen!StartObligations, StartObligations, AsSeen!ObligationSlot, ObligationSlot,
   AsSeen!Decl, Decl, AsSeen!IsService, IsService, AsSeen!Spawn, Spawn, AsSeen!Node, Node

LEMMA SameAdvance ==
  ASSUME NEW m
  PROVE  AsSeen!AdvanceCleanup(m) = AdvanceCleanup(m)
BY SameWords, SameGates, SameStartObligations DEF
   AsSeen!AdvanceCleanup, AdvanceCleanup

LEMMA SameEnd ==
  ASSUME NEW m
  PROVE  AsSeen!End(m) = End(m)
BY DEF
   AsSeen!End, End, AsSeen!Outcome, Outcome

LEMMA SameTryCleanup ==
  ASSUME NEW m
  PROVE  AsSeen!TryCleanup(m) = TryCleanup(m)
BY SameWords, SameGates, SameAdvance, SameEnd DEF
   AsSeen!TryCleanup, TryCleanup

(* Abandoning, skipping, and what follows a failure.                       *)
LEMMA SameAbandon ==
  ASSUME NEW m, NEW S
  PROVE  AsSeen!Abandon(m, S) = Abandon(m, S)
BY DEF
   AsSeen!Abandon, Abandon, AsSeen!FlushFaults, FlushFaults, AsSeen!Abort, Abort, AsSeen!Node,
   Node, AsSeen!Decl, Decl

LEMMA SameSkip ==
  ASSUME NEW m, NEW n
  PROVE  AsSeen!SkipDependents(m, n) = SkipDependents(m, n)
BY DEF
   AsSeen!SkipDependents, SkipDependents, AsSeen!SkippedBy, SkippedBy, AsSeen!FlushFaults,
   FlushFaults, AsSeen!Node, Node, AsSeen!Unstarted, Unstarted, AsSeen!Decl, Decl

LEMMA SamePolicy ==
  ASSUME NEW m, NEW n
  PROVE  AsSeen!ApplyPolicy(m, n) = ApplyPolicy(m, n)
BY SameChores, SameSettle, SameSkip DEF
   AsSeen!ApplyPolicy, ApplyPolicy

LEMMA SameFailed ==
  ASSUME NEW m, NEW n
  PROVE  /\ AsSeen!NodeFailed(m, n) = NodeFailed(m, n)
         /\ AsSeen!Backoff(m, n) = Backoff(m, n)
BY SameWords, SamePolicy DEF
   AsSeen!NodeFailed, NodeFailed, AsSeen!Backoff, Backoff

LEMMA SameAfterFailed ==
  ASSUME NEW m, NEW n
  PROVE  AsSeen!AfterFailedAttempt(m, n) = AfterFailedAttempt(m, n)
<1> DEFINE f == [m EXCEPT !.slot[n] = [@ EXCEPT !.granted = FALSE, !.timer = "none",
              !.cancelling = FALSE, !.timingOut = FALSE, !.timedOut = FALSE]]
           retry == f.slot[n].attempt < Decl(n).attempts /\ Admits(m)
           r == [f EXCEPT !.slot[n].st = "RetryRelease"]
<1>1. AfterFailedAttempt(m, n) =
        IF ~ retry THEN NodeFailed(f, n)
        ELSE IF f.slot[n].held /\ CanOwe(n) THEN Spawn(r, {n}, "cleanup") ELSE Backoff(f, n)
  BY DEF AfterFailedAttempt
<1>2. AsSeen!AfterFailedAttempt(m, n) =
        IF ~ (f.slot[n].attempt < AsSeen!Decl(n).attempts /\ AsSeen!Admits(m))
        THEN AsSeen!NodeFailed(f, n)
        ELSE IF f.slot[n].held /\ AsSeen!CanOwe(n) THEN AsSeen!Spawn(r, {n}, "cleanup")
             ELSE AsSeen!Backoff(f, n)
  BY DEF AsSeen!AfterFailedAttempt
<1> HIDE DEF f, r
<1>3. /\ AsSeen!NodeFailed(f, n) = NodeFailed(f, n) /\ AsSeen!Backoff(f, n) = Backoff(f, n)
      /\ AsSeen!Spawn(r, {n}, "cleanup") = Spawn(r, {n}, "cleanup")
  BY SameFailed, SameChores
<1>4. /\ AsSeen!Decl(n) = Decl(n) /\ (AsSeen!CanOwe(n) <=> CanOwe(n))
      /\ (AsSeen!Admits(m) <=> Admits(m))
  BY SameWords
<1> QED BY <1>1, <1>2, <1>3, <1>4

LEMMA SameFailAttempt ==
  ASSUME NEW m, NEW n
  PROVE  AsSeen!FailAttempt(m, n) = FailAttempt(m, n)
BY SameAfterFailed, SameMarks DEF
   AsSeen!FailAttempt, FailAttempt

LEMMA SameAmbiguous ==
  ASSUME NEW m, NEW n
  PROVE  /\ AsSeen!BecomeAmbiguous(m, n) = BecomeAmbiguous(m, n)
         /\ AsSeen!RetriesAmbiguity(m, n) <=> RetriesAmbiguity(m, n)
BY DEF
   AsSeen!BecomeAmbiguous, BecomeAmbiguous, AsSeen!RetriesAmbiguity, RetriesAmbiguity,
   AsSeen!Admits, Admits, AsSeen!Decl, Decl

LEMMA SameInterrupted ==
  ASSUME NEW m, NEW n
  PROVE  AsSeen!FinishInterrupted(m, n) = FinishInterrupted(m, n)
<1> DEFINE s == m.slot[n]
           j == [m EXCEPT !.slot[n] = [@ EXCEPT !.timer = "none", !.cancelling = FALSE,
                  !.timingOut = FALSE, !.signalled = s.timingOut /\ s.signalled]]
           g == [j EXCEPT !.slot[n].granted = FALSE]
           i == [g EXCEPT !.slot[n].st = "Interrupted"]
           unknown == Decl(n).kind = "Effect" /\ ~ s.held
           a == ParkFault(BecomeAmbiguous(g, n), n, s.attempt)
           c == AsSeen!ParkFault(AsSeen!BecomeAmbiguous(g, n), n, s.attempt)
<1>1. FinishInterrupted(m, n) =
        CASE s.timingOut /\ unknown ->
               IF RetriesAmbiguity(a, n) THEN Backoff(a, n) ELSE ApplyPolicy(a, n)
          [] s.timingOut /\ ~ unknown -> FailAttempt(j, n)
          [] ~ s.timingOut /\ unknown -> FlushFaults(BecomeAmbiguous(g, n), {n})
          [] ~ s.timingOut /\ ~ unknown -> FlushFaults(i, {n})
  BY DEF FinishInterrupted
<1>2. AsSeen!FinishInterrupted(m, n) =
        CASE s.timingOut /\ unknown ->
               IF AsSeen!RetriesAmbiguity(c, n) THEN AsSeen!Backoff(c, n)
               ELSE AsSeen!ApplyPolicy(c, n)
          [] s.timingOut /\ ~ unknown -> AsSeen!FailAttempt(j, n)
          [] ~ s.timingOut /\ unknown -> AsSeen!FlushFaults(AsSeen!BecomeAmbiguous(g, n), {n})
          [] ~ s.timingOut /\ ~ unknown -> AsSeen!FlushFaults(i, {n})
  BY DEF AsSeen!FinishInterrupted, AsSeen!Decl, Decl
<1>3. a = c
  BY SameMarks, SameAmbiguous
<1> HIDE DEF g, j, i, a, c
<1>4. /\ AsSeen!RetriesAmbiguity(a, n) <=> RetriesAmbiguity(a, n)
      /\ AsSeen!Backoff(a, n) = Backoff(a, n) /\ AsSeen!ApplyPolicy(a, n) = ApplyPolicy(a, n)
      /\ AsSeen!FailAttempt(j, n) = FailAttempt(j, n)
      /\ AsSeen!FlushFaults(AsSeen!BecomeAmbiguous(g, n), {n})
           = FlushFaults(BecomeAmbiguous(g, n), {n})
      /\ AsSeen!FlushFaults(i, {n}) = FlushFaults(i, {n})
  BY SameAmbiguous, SameFailed, SamePolicy, SameFailAttempt, SameChores
<1> HIDE DEF s, unknown
<1> QED BY <1>1, <1>2, <1>3, <1>4

LEMMA SameReady ==
  ASSUME NEW m, NEW n
  PROVE  AsSeen!MakeReady(m, n) = MakeReady(m, n)
BY DEF AsSeen!MakeReady, MakeReady, AsSeen!Absorb, Absorb, AsSeen!IsService, IsService,
       AsSeen!Decl, Decl, AsSeen!Spawn, Spawn, AsSeen!Node, Node

(* The bodies in the host are those the engine asked for.                  *)
Seen == HostBody = body

(* The picture and what a handler ends with.                               *)
LEMMA SameTails ==
  ASSUME Seen, Seen', NEW m
  PROVE  /\ AsSeen!Here = Here
         /\ AsSeen!Become(m) <=> Become(m)
         /\ AsSeen!AfterSettle(m) <=> AfterSettle(m)
<1>1. AsSeen!Here = Here
  BY DEF Seen, AsSeen!Here, Here
<1>2. \A x : AsSeen!Become(x) <=> Become(x)
  BY DEF Seen, AsSeen!Become, Become
<1>3. /\ AsSeen!Enqueue(m) = Enqueue(m) /\ (AsSeen!Admits(m) <=> Admits(m))
      /\ \A x, S : AsSeen!In(x, S) = In(x, S)
      /\ \A x, G : AsSeen!GrantPass(x, G) <=> GrantPass(x, G)
      /\ \A x, G : AsSeen!Start(x, G) = Start(x, G)
      /\ \A x : AsSeen!CheckSteady(x) = CheckSteady(x)
      /\ \A x : AsSeen!TryCleanup(x) = TryCleanup(x)
  BY SameWords, SameEnqueue, SameGrantPass, SameStart, SameCheckSteady, SameTryCleanup
<1> QED BY <1>1, <1>2, <1>3 DEF AsSeen!AfterSettle, AfterSettle

(* The handlers, one by one.                                               *)
LEMMA SameBegin ==
  ASSUME Seen, Seen'
  PROVE  AsSeen!Begin <=> Begin
BY SameTails DEF AsSeen!Begin, Begin

LEMMA SameRequest ==
  ASSUME Seen, Seen', NEW cause
  PROVE  AsSeen!Request(cause) <=> Request(cause)
BY SameTails, SameWords, SameEnd, SameTryCleanup, SameSettle DEF AsSeen!Request, Request

LEMMA SameHeld ==
  ASSUME Seen, Seen', NEW n
  PROVE  AsSeen!BodyHeld(n) <=> BodyHeld(n)
BY SameTails, SameWords DEF AsSeen!BodyHeld, BodyHeld, AsSeen!RunInFlight, RunInFlight, Seen

LEMMA SameReturns ==
  ASSUME Seen, Seen', NEW n, NEW ok
  PROVE  AsSeen!BodyReturns(n, ok) <=> BodyReturns(n, ok)
BY SameTails, SameWords, SameMarks, SameAfterFailed, SameInterrupted, SameReady, SameFailAttempt
   DEF AsSeen!BodyReturns, BodyReturns, AsSeen!RunInFlight, RunInFlight, Seen

LEMMA SameCancelled ==
  ASSUME Seen, Seen', NEW n, NEW ok
  PROVE  AsSeen!BodyCancelled(n, ok) <=> BodyCancelled(n, ok)
BY SameTails, SameWords, SameMarks, SameInterrupted
   DEF AsSeen!BodyCancelled, BodyCancelled, AsSeen!RunInFlight, RunInFlight, Seen

LEMMA SameTaskEnds ==
  ASSUME Seen, Seen', NEW n
  PROVE  AsSeen!AbandonedTaskEnds(n) <=> AbandonedTaskEnds(n)
BY SameTails, SameMarks DEF AsSeen!AbandonedTaskEnds, AbandonedTaskEnds, Seen

LEMMA SameAcknowledged ==
  ASSUME Seen, Seen', NEW n, NEW ok
  PROVE  AsSeen!Acknowledged(n, ok) <=> Acknowledged(n, ok)
BY SameTails, SameFailed DEF AsSeen!Acknowledged, Acknowledged, Seen

LEMMA SameServing ==
  ASSUME Seen, Seen', NEW n, NEW ok
  PROVE  AsSeen!ServingEnds(n, ok) <=> ServingEnds(n, ok)
<1> DEFINE m == [TaskEnds(Here, n) EXCEPT !.slot[n].granted = FALSE]
           f == [m EXCEPT !.slot[n].st = "Finished"]
           p == ParkFault(m, n, slot[n].restarts + 1)
           q == [p EXCEPT !.slot[n].restarts = @ + 1]
<1>1. ServingEnds(n, ok) <=>
        /\ slot[n].st = "Ready" /\ body[n].phase = "serve"
        /\ AfterSettle(
             CASE ok -> IF Decl(n).terminal THEN Settle(f, "Terminal") ELSE f
               [] ~ ok -> IF slot[n].restarts < Decl(n).restarts /\ Admits(m)
                          THEN Backoff(q, n) ELSE NodeFailed(p, n))
  BY DEF ServingEnds
<1>2. /\ AsSeen!TaskEnds(AsSeen!Here, n) = TaskEnds(Here, n)
      /\ AsSeen!ParkFault(m, n, slot[n].restarts + 1) = p
  BY SameTails, SameMarks
<1>3. AsSeen!ServingEnds(n, ok) <=>
        /\ slot[n].st = "Ready" /\ body[n].phase = "serve"
        /\ AsSeen!AfterSettle(
             CASE ok -> IF AsSeen!Decl(n).terminal THEN AsSeen!Settle(f, "Terminal") ELSE f
               [] ~ ok -> IF slot[n].restarts < AsSeen!Decl(n).restarts /\ AsSeen!Admits(m)
                          THEN AsSeen!Backoff(q, n) ELSE AsSeen!NodeFailed(p, n))
  BY <1>2 DEF AsSeen!ServingEnds, Seen
<1> HIDE DEF m, f, p, q
<1>4. /\ AsSeen!Decl(n) = Decl(n) /\ AsSeen!Settle(f, "Terminal") = Settle(f, "Terminal")
      /\ (AsSeen!Admits(m) <=> Admits(m))
      /\ AsSeen!Backoff(q, n) = Backoff(q, n) /\ AsSeen!NodeFailed(p, n) = NodeFailed(p, n)
  BY SameWords, SameSettle, SameFailed
<1> QED BY <1>1, <1>3, <1>4, SameTails

LEMMA SameStops ==
  ASSUME Seen, Seen', NEW n, NEW ok
  PROVE  AsSeen!ServiceStops(n, ok) <=> ServiceStops(n, ok)
BY SameTails, SameMarks DEF AsSeen!ServiceStops, ServiceStops, Seen

LEMMA SameCleanup ==
  ASSUME Seen, Seen', NEW n, NEW ok
  PROVE  AsSeen!CleanupReturns(n, ok) <=> CleanupReturns(n, ok)
BY SameTails, SameMarks DEF AsSeen!CleanupReturns, CleanupReturns, Seen

LEMMA SameRetry ==
  ASSUME Seen, Seen', NEW n, NEW ok
  PROVE  AsSeen!RetryReleaseReturns(n, ok) <=> RetryReleaseReturns(n, ok)
<1> DEFINE e == [TaskEnds(Here, n) EXCEPT !.slot[n].held = FALSE, !.due.held = @ \ {n}]
           m == IF ok THEN e ELSE CleanupFails(e, n)
           i == [m EXCEPT !.slot[n].st = "Interrupted", !.slot[n].attempt = @ + 1]
<1>1. RetryReleaseReturns(n, ok) <=>
        /\ slot[n].st = "RetryRelease" /\ body[n].phase = "cleanup"
        /\ AfterSettle(IF Admits(m) THEN Backoff(m, n) ELSE FlushFaults(i, {n}))
  BY DEF RetryReleaseReturns
<1>2. /\ AsSeen!TaskEnds(AsSeen!Here, n) = TaskEnds(Here, n)
      /\ AsSeen!CleanupFails(e, n) = CleanupFails(e, n)
  BY SameTails, SameMarks
<1>3. AsSeen!RetryReleaseReturns(n, ok) <=>
        /\ slot[n].st = "RetryRelease" /\ body[n].phase = "cleanup"
        /\ AsSeen!AfterSettle(IF AsSeen!Admits(m) THEN AsSeen!Backoff(m, n)
                              ELSE AsSeen!FlushFaults(i, {n}))
  <2>1. CASE ok
    BY <1>2, <2>1 DEF AsSeen!RetryReleaseReturns, Seen
  <2>2. CASE ~ ok
    BY <1>2, <2>2 DEF AsSeen!RetryReleaseReturns, Seen
  <2> QED BY <2>1, <2>2
<1> HIDE DEF e, m, i
<1>4. /\ (AsSeen!Admits(m) <=> Admits(m)) /\ AsSeen!Backoff(m, n) = Backoff(m, n)
      /\ AsSeen!FlushFaults(i, {n}) = FlushFaults(i, {n})
  BY SameWords, SameFailed, SameChores
<1> QED BY <1>1, <1>3, <1>4, SameTails

LEMMA SameTimers ==
  ASSUME Seen, Seen', NEW n
  PROVE  AsSeen!Timers(n) <=> Timers(n)
<1>1. AsSeen!WithinExpires(n) <=> WithinExpires(n)
  <2> DEFINE m == [Here EXCEPT !.slot[n].timer = "none"]
             t == [ParkFault(m, n, slot[n].attempt) EXCEPT !.slot[n].timedOut = TRUE]
             a == [Abort(m, {n}) EXCEPT !.slot[n].cancelling = TRUE, !.slot[n].timingOut = TRUE]
             r == slot[n].st = "Running" /\ ~ slot[n].cancelling
  <2>1. WithinExpires(n) <=>
          /\ slot[n].timer = "Within"
          /\ Become(IF ~ r THEN m ELSE IF Decl(n).kind = "BlockingStep" THEN t ELSE a)
    BY DEF WithinExpires
  <2>2. /\ AsSeen!Here = Here /\ AsSeen!Abort(m, {n}) = Abort(m, {n})
        /\ AsSeen!ParkFault(m, n, slot[n].attempt) = ParkFault(m, n, slot[n].attempt)
    BY SameTails, SameMarks, SameChores
  <2>3. AsSeen!WithinExpires(n) <=>
          /\ slot[n].timer = "Within"
          /\ AsSeen!Become(IF ~ r THEN m
                           ELSE IF AsSeen!Decl(n).kind = "BlockingStep" THEN t ELSE a)
    BY <2>2 DEF AsSeen!WithinExpires
  <2> HIDE DEF m, t, a, r
  <2> QED BY <2>1, <2>3, SameTails, SameWords
<1>2. AsSeen!GraceExpires(n) <=> GraceExpires(n)
  BY SameTails, SameChores DEF AsSeen!GraceExpires, GraceExpires
<1>3. AsSeen!BackoffExpires(n) <=> BackoffExpires(n)
  BY SameTails DEF AsSeen!BackoffExpires, BackoffExpires
<1>4. AsSeen!StopDeadline(n) <=> StopDeadline(n)
  BY SameTails, SameAbandon DEF AsSeen!StopDeadline, StopDeadline
<1> QED BY <1>1, <1>2, <1>3, <1>4 DEF AsSeen!Timers, Timers

LEMMA SameBudgets ==
  ASSUME Seen, Seen'
  PROVE  /\ AsSeen!BudgetExpires <=> BudgetExpires
         /\ AsSeen!ZeroExpires <=> ZeroExpires
BY SameTails, SameWords, SameAbandon, SameTryCleanup
   DEF AsSeen!BudgetExpires, BudgetExpires, AsSeen!ZeroExpires, ZeroExpires

(* So the steps are the same, and the starts.                              *)
LEMMA SameNext ==
  ASSUME Seen, Seen', [Next]_vars
  PROVE  [AsSeen!Next]_AsSeen!vars
<1>1. UNCHANGED vars <=> UNCHANGED AsSeen!vars
  BY DEF Seen, vars, AsSeen!vars
<1>2. \A n \in Node : Tasks(n) <=> AsSeen!Tasks(n)
  BY SameHeld, SameReturns, SameCancelled, SameTaskEnds, SameAcknowledged, SameServing,
     SameStops, SameCleanup, SameRetry DEF AsSeen!Tasks, Tasks
<1>3. Terminated <=> AsSeen!Terminated
  BY <1>1, SameWords DEF AsSeen!Terminated, Terminated, Seen
<1>4. CASE UNCHANGED vars
  BY <1>1, <1>4
<1>5. CASE Next
  <2>1. AsSeen!Next
    BY <1>2, <1>3, <1>5, SameWords, SameBegin, SameRequest, SameTimers, SameBudgets
       DEF AsSeen!Next, Next
  <2> QED BY <2>1
<1> QED BY <1>4, <1>5

LEMMA SameInit == Seen /\ Init => AsSeen!Init
BY SameWords DEF Seen, AsSeen!Init, Init

(* For every number of nodes, every set of valid plans and any number of   *)
(* requests: the driver refines the engine (drive.rs handles one event at  *)
(* a time and does what the engine asks).  With every body read off the    *)
(* tasks that exist and the answers that wait, and not off what the engine *)
(* remembers having asked for, each step of the driver is one step of the  *)
(* engine or leaves all of that as it was.                                 *)
THEOREM EngineAsSeen == DriverSpec => AsSeen!Spec
<1>1. DriverInit => Seen /\ Init
  BY DriverBegins, SeenAsAsked DEF Seen, DriverInit
<1>2. EngineOK /\ Hosted => Seen
  BY SeenAsAsked DEF Seen
<1>3. Seen /\ Init => AsSeen!Init
  BY SameInit
<1>4. EngineOK /\ Hosted /\ [DriverNext]_driverVars => [Next]_vars
  BY DriverSteps
<1>5. Seen /\ Seen' /\ [Next]_vars => [AsSeen!Next]_AsSeen!vars
  BY SameNext
<1> QED BY <1>1, <1>2, <1>3, <1>4, <1>5, DriverKeeps, PTL DEF DriverSpec, AsSeen!Spec
=============================================================================
