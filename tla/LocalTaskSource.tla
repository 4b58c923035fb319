--------------------------- MODULE LocalTaskSource ---------------------------
(***************************************************************************)
(* The task source of a project without an external tracker                *)
(* (src/src/local/source.ts): a file, replaced as a whole by every write,  *)
(* and the requests that wait for their turn to read, change and write it. *)
(*                                                                         *)
(* A task is its number, its content and the stamp of its last write.      *)
(* Content stands for the title, the description, the state and the        *)
(* priority; every write says something new, so it is told by a count.     *)
(* The file of one project is modelled; a file that cannot be decoded and  *)
(* input that is not valid, which change nothing, are left out.            *)
(***************************************************************************)
EXTENDS Naturals, Sequences, FiniteSets

CONSTANTS
  MaxAsks, \* bound: mutations asked for
  Clock    \* what Date.now() may return; it may stand still or go back

ASSUME SourceConstants == MaxAsks \in Nat /\ Clock \subseteq Nat

VARIABLES
  file,     \* the project in the file: nextNumber and the issues
  queue,    \* mutations that wait for the ones before them
  underway, \* a mutation that has read the file, with what it read
  made      \* history: the number each task ever made was given

sourceVars == <<file, queue, underway, made>>

Ids == 1..(MaxAsks + 1)
Task == [number : Nat, content : Nat, stamp : Nat]
Nowhere == [number |-> 0, content |-> 0, stamp |-> 0]
Has(store, i) == i \in DOMAIN store.tasks

\* A request: who asks, what for, and for an editor's update the task it was opened with.
Request == [from : STRING, op : {"create", "update", "delete"}, id : Nat,
            base : Task \cup {Nowhere}]

SourceTypeOK ==
  /\ file.next = Len(made) + 1 /\ DOMAIN file.tasks \subseteq Ids
  /\ \A i \in DOMAIN file.tasks : file.tasks[i] \in Task
  /\ queue \in Seq(Request)
  /\ \A u \in underway : u.req \in Request

\* The project has one task from before.
SourceInit ==
  /\ file = [next |-> 2, tasks |-> [i \in {1} |-> [number |-> 1, content |-> 0, stamp |-> 0]]]
  /\ made = <<1>> /\ queue = <<>> /\ underway = {}

Pending == {queue[k].from : k \in DOMAIN queue} \cup {u.req.from : u \in underway}

\* serialize: the request goes to the end of the queue.
Enqueue(r) == queue' = Append(queue, r)

\* Mutant of Turn: an operation does not wait for the one before it.
TurnAtOnce == TRUE

Turn == underway = {}

\* The first request begins: it reads the file.
Begin ==
  /\ queue # <<>> /\ Turn
  /\ underway' = underway \cup {[req |-> Head(queue), store |-> file]}
  /\ queue' = Tail(queue)
  /\ UNCHANGED <<file, made>>

\* Mutant of NextUpdatedAt: the stamp is the time.
NextUpdatedAtNow(previous, now) == now

NextUpdatedAt(previous, now) == IF now > previous THEN now ELSE previous + 1

\* Mutant of NextNumber: the number is counted from the tasks.
NextNumberCounted(store) == Cardinality(DOMAIN store.tasks) + 1

NextNumber(store) == store.next

\* A task that is gone, or was changed since the editor was opened.
Refused(store, r) ==
  \/ r.op \in {"update", "delete"} /\ ~Has(store, r.id)
  \/ r.op = "update" /\ r.base # Nowhere /\ r.base.stamp # store.tasks[r.id].stamp

NewId == Len(made) + 1

\* The task a request is about, once it is written.
Target(r) == IF r.op = "create" THEN NewId ELSE r.id

Written(store, r, now) ==
  IF r.op = "create"
  THEN [number |-> NextNumber(store), content |-> 0, stamp |-> now]
  ELSE [store.tasks[r.id] EXCEPT !.content = @ + 1, !.stamp = NextUpdatedAt(@, now)]

\* What createTask, updateTask and deleteTask make of the file they read.
Outcome(store, r, now) ==
  IF r.op = "delete"
  THEN [store EXCEPT !.tasks = [i \in DOMAIN @ \ {r.id} |-> @[i]]]
  ELSE [next  |-> IF r.op = "create" THEN NextNumber(store) + 1 ELSE store.next,
        tasks |-> [i \in DOMAIN store.tasks \cup {Target(r)} |->
                     IF i = Target(r) THEN Written(store, r, now) ELSE store.tasks[i]]]

\* The new file is renamed over the old one.
Commit(u, now) ==
  /\ u \in underway /\ ~Refused(u.store, u.req)
  /\ file' = Outcome(u.store, u.req, now)
  /\ made' = IF u.req.op = "create" THEN Append(made, NextNumber(u.store)) ELSE made
  /\ underway' = underway \ {u}
  /\ UNCHANGED queue

\* A mutation ends without a write: it is refused, or the write fails.
Reject(u) ==
  /\ u \in underway
  /\ underway' = underway \ {u}
  /\ UNCHANGED <<file, queue, made>>

\* The process ends: the file is the one of before a write or of after it.
SourceDown == queue' = <<>> /\ underway' = {} /\ UNCHANGED <<file, made>>

(* No number is given to two tasks, also when one of them is deleted: the identifier LOCAL-n, which names *)
(* the task's branch and its workspace, stands for one task (nextNumber, createTask).                     *)
NumbersUnique == \A i, j \in DOMAIN made : made[i] = made[j] => i = j

(* A write changes the task it is about and no other: a mutation never puts back what one before it *)
(* has changed (serialize).                                                                          *)
OnlyItsTask ==
  \A i, j \in Ids :
       /\ Has(file, i) # Has(file', i) \/ (Has(file, i) /\ Has(file', i) /\ file.tasks[i] # file'.tasks[i])
       /\ Has(file, j) # Has(file', j) \/ (Has(file, j) /\ Has(file', j) /\ file.tasks[j] # file'.tasks[j])
       => i = j

(* An update sent from an editor is written over exactly the task the editor was opened with, whatever the *)
(* clock did since (expectedUpdatedAt and nextUpdatedAt in updateTask).                                    *)
EditOnSeen ==
  \A u \in underway \ underway' :
       u.req.op = "update" /\ u.req.base # Nowhere /\ file' # file
         => file.tasks[u.req.id] = u.req.base

(* No writer loses the work of another one: a write is about one task, as its editor has seen it. *)
WritesKeepOthers == [][OnlyItsTask /\ EditOnSeen]_sourceVars
=============================================================================
