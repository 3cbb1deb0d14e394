----------------------------- MODULE Instances -----------------------------
(***************************************************************************)
(* What the handlers and the readers of a run may rely on, whatever the    *)
(* engine does with its memory: a row keeps its raw key for ever, what a   *)
(* row names is a row, a declaration seen from inside an instance is that  *)
(* instance's own, and an ended instance stays readable.  Module           *)
(* Compaction, where rows are positions in vectors that are shortened      *)
(* while the run goes on, implements this.                                 *)
(***************************************************************************)
EXTENDS Naturals, FiniteSets, Sequences, SequencesExt

CONSTANTS
  Plans,   \* plan name -> its declarations, in order
  Main,    \* the plan of the run
  Ids      \* identities the host gives to instances

NoKey == <<0, 0>>
NoId == 0
Unlocked == [exclusive |-> {}, shared |-> {}]

(* A declaration is named by its plan and its position.                    *)
At(d) == Plans[d[1]][d[2]]

(* What flattening a plan appends, in order: its own declarations and, for *)
(* a component, those of the plan inside; an import is the parent's row.   *)
RECURSIVE Flat(_)
Flat(p) ==
  FlattenSeq([i \in DOMAIN Plans[p] |->
    CASE Plans[p][i].kind = "Import" -> <<>>
      [] Plans[p][i].kind = "Component" -> << <<p, i>> >> \o Flat(Plans[p][i].child)
      [] OTHER -> << <<p, i>> >>])

RECURSIVE Meant(_)
Meant(d) == IF At(d).kind = "Import" THEN Meant(At(d).source) ELSE d

Kind(d) == At(d).kind
HasBody(d) == Kind(d) \in {"Resource", "Service"}

VARIABLES
  rows,    \* key -> its row
  insts,   \* id -> its instance
  locks    \* key -> who holds its lock, alone or with others

registry == <<rows, insts, locks>>

Over(st) == st \in {"Done", "Skipped"}
Gone(i) == i # NoId /\ insts[i].st = "Ended"
Members(i) == {k \in DOMAIN rows : rows[k].inst = i}

(* The instance i, the one whose body spawned it, and so on to the run.    *)
RECURSIVE Around(_)
Around(i) == IF i = NoId THEN {NoId} ELSE {i} \cup Around(insts[i].parent)

(* The row k is made from a declaration, inside an instance: what it names *)
(* are the rows its declaration means, and none of another instance.       *)
Resolved(k) ==
  LET r == rows[k] IN
  /\ {rows[n].decl : n \in r.needs} = {Meant(d) : d \in At(r.decl).needs}
  /\ {rows[n].decl : n \in r.exclusive} = {Meant(d) : d \in At(r.decl).exclusive}
  /\ {rows[n].decl : n \in r.shared} = {Meant(d) : d \in At(r.decl).shared}
  /\ \A n \in r.needs \cup r.exclusive \cup r.shared : rows[n].inst \in Around(r.inst)

Fresh(k, i) ==
  /\ rows[k].inst = i /\ rows[k].st = "Pending"
  /\ rows[k].behind = NoKey /\ rows[k].because = NoKey
  /\ Resolved(k)

Init ==
  /\ insts = <<>>
  /\ Len(Flat(Main)) = Cardinality(DOMAIN rows)
  /\ ToSet(Flat(Main)) = {rows[k].decl : k \in DOMAIN rows}
  /\ \A k \in DOMAIN rows : Fresh(k, NoId)
  /\ locks = [k \in DOMAIN rows |-> Unlocked]

(* The rows of a new instance appear, after all others, and nothing else   *)
(* changes.                                                                *)
Spawn(k, t, i) ==
  /\ rows[k].st = "Up" /\ i \notin DOMAIN insts
  /\ rows[t].decl \in At(rows[k].decl).spawns /\ rows[t].inst \in Around(rows[k].inst)
  /\ DOMAIN insts' = DOMAIN insts \cup {i}
  /\ \A j \in DOMAIN insts : insts'[j] = insts[j]
  /\ insts'[i] = [parent |-> rows[k].inst, order |-> Cardinality(DOMAIN insts),
                  st |-> "Admitting"]
  /\ LET new == DOMAIN rows' \ DOMAIN rows
         child == Flat(At(rows[t].decl).child)
     IN /\ DOMAIN rows \subseteq DOMAIN rows'
        /\ \A x \in DOMAIN rows : rows'[x] = rows[x] /\ locks'[x] = locks[x]
        /\ DOMAIN locks' = DOMAIN rows' /\ \A x \in new : locks'[x] = Unlocked
        /\ Cardinality(new) = Len(child) /\ {rows'[x].decl : x \in new} = ToSet(child)
        /\ \A x \in new : Fresh(x, i)'
        /\ \A x \in new, o \in DOMAIN rows : rows[o].order < rows'[x].order

FreeFor(k) ==
  /\ \A r \in rows[k].exclusive : locks[r] = Unlocked
  /\ \A r \in rows[k].shared : locks[r].exclusive = {}

Start(k) ==
  /\ HasBody(rows[k].decl) /\ rows[k].st = "Pending" /\ ~ Gone(rows[k].inst)
  /\ \A n \in rows[k].needs : rows[n].st = "Up"
  /\ FreeFor(k)
  /\ rows' = [rows EXCEPT ![k].st = "Up", ![k].behind = NoKey]
  /\ locks' = [r \in DOMAIN locks |->
       [exclusive |-> locks[r].exclusive \cup (IF r \in rows[k].exclusive THEN {k} ELSE {}),
        shared |-> locks[r].shared \cup (IF r \in rows[k].shared THEN {k} ELSE {})]]
  /\ UNCHANGED insts

(* A waiter is refused a lock that an earlier waiter wants.                *)
Refuse(k, w) ==
  /\ rows[k].st = "Pending" /\ rows[w].st = "Pending"
  /\ rows' = [rows EXCEPT ![k].behind = w]
  /\ UNCHANGED <<insts, locks>>

Freed(S) ==
  [r \in DOMAIN locks |->
     [exclusive |-> locks[r].exclusive \ S, shared |-> locks[r].shared \ S]]

(* A body ends when every row that needs it has; a service that was told   *)
(* to stop keeps what it holds.                                            *)
Finish(k) ==
  /\ rows[k].st = "Up"
  /\ \A x \in DOMAIN rows : k \in rows[x].needs => Over(rows[x].st)
  /\ rows' = [rows EXCEPT ![k].st = "Done"]
  /\ locks' \in {locks, Freed({k})}
  /\ UNCHANGED insts

(* The budget of an instance is spent: what is still up is abandoned.      *)
Abandon(i) ==
  LET up == {k \in Members(i) : rows[k].st = "Up"} IN
  /\ insts[i].st = "Settling"
  /\ rows' = [k \in DOMAIN rows |-> IF k \in up THEN [rows[k] EXCEPT !.st = "Done"] ELSE rows[k]]
  /\ locks' = Freed(up)
  /\ UNCHANGED insts

Settle(i) ==
  /\ insts[i].st = "Admitting"
  /\ insts' = [insts EXCEPT ![i].st = "Settling"]
  /\ UNCHANGED <<rows, locks>>

(* Instances end, several of them in one step: nothing in them is up, and  *)
(* those inside them have ended.  What never started names its cause, and  *)
(* what is left of their rows is where they ended.                         *)
Ended(k, because) ==
  [rows[k] EXCEPT !.st = IF @ = "Pending" THEN "Skipped" ELSE @,
                  !.because = IF rows[k].st = "Pending" THEN because ELSE @,
                  !.needs = {}, !.exclusive = {}, !.shared = {}, !.behind = NoKey]

End(S) ==
  LET gone == UNION {Members(i) : i \in S} IN
  /\ \A i \in S : /\ insts[i].st = "Settling"
                  /\ \A k \in Members(i) : rows[k].st # "Up"
                  /\ \A j \in DOMAIN insts : insts[j].parent = i => j \in S \/ Gone(j)
  /\ insts' = [i \in DOMAIN insts |->
                 IF i \in S THEN [insts[i] EXCEPT !.st = "Ended"] ELSE insts[i]]
  /\ \E because \in {NoKey} \cup {rows[k].decl : k \in gone} :
       rows' = [k \in DOMAIN rows |->
                  IF k \in gone THEN Ended(k, because)
                  ELSE IF rows[k].behind \in gone THEN [rows[k] EXCEPT !.behind = NoKey]
                  ELSE rows[k]]
  /\ locks' = [k \in DOMAIN locks |-> IF k \in gone THEN Unlocked ELSE locks[k]]

(* Nobody names a row of an ended instance any more: a lock it kept is     *)
(* free.                                                                   *)
Forget ==
  /\ UNCHANGED <<rows, insts>>
  /\ locks' = Freed(UNION {Members(i) : i \in {j \in DOMAIN insts : Gone(j)}})

Next ==
  \/ \E k \in DOMAIN rows : Start(k) \/ Finish(k)
  \/ \E k, t \in DOMAIN rows : Refuse(k, t) \/ \E i \in ToSet(Ids) : Spawn(k, t, i)
  \/ \E i \in DOMAIN insts : Settle(i) \/ Abandon(i)
  \/ \E S \in SUBSET DOMAIN insts \ {{}} : End(S)
  \/ Forget

Spec == Init /\ [][Next]_registry
=============================================================================
