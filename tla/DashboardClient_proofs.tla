----------------------- MODULE DashboardClient_proofs -----------------------
(***************************************************************************)
(* Theorems about DashboardClient on LocalTaskSource, for any browsers,    *)
(* any clock and any number of mutations and faults, and about Overview,   *)
(* for any lists of projects, and their proofs.                            *)
(*                                                                         *)
(* The inductive invariant says that whatever anybody has been shown of a  *)
(* task is the task as it was once, told by its stamp (Seen), and of each  *)
(* save how far what it wrote has come on its way back to its browser.     *)
(*                                                                         *)
(* Overview has no behaviours: its proofs follow an issue from the list of *)
(* its project to the cell of a column of its board, and from there to the *)
(* one column of the board of all projects that shows it.                  *)
(***************************************************************************)
EXTENDS DashboardClient, FiniteSetTheorems, SequenceTheorems, TLAPS

-----------------------------------------------------------------------------
(* The inductive invariant *)

Tables == UNION {[S -> Task] : S \in SUBSET Nat}
Stores == [next : Nat, tasks : Tables]
Replies == [tasks : Tables, failed : BOOLEAN]
Ops == {"none", "refresh", "state", "create", "update", "delete"}
CallRecords == [stage : Stages, op : Ops, got : [id : Nat, stamp : Nat], reply : Replies]
Askers == Clients \cup {"agent"}

Typed ==
  /\ file \in Stores /\ made \in Seq(Nat) /\ queue \in Seq(Request) /\ asks \in 0..MaxAsks
  /\ underway \subseteq [req : Request, store : Stores]
  /\ board \in Replies /\ view \in [Clients -> Tables]
  /\ calls \in [Clients -> [Slots -> CallRecords]]
  /\ editor \in [Clients -> [id : Nat, base : Task]]
  /\ poll \in [pc : {"idle", "wait", "reconcile"}, awaits : SUBSET Askers]
  /\ open \subseteq Clients /\ interval \in [Clients -> {"none", "on", "cleared"}]

\* The numbers are given in their order, and to no more tasks than were asked for.
InOrder ==
  /\ file.next = Len(made) + 1 /\ DOMAIN file.tasks \subseteq 1..Len(made)
  /\ \A i \in DOMAIN made : made[i] = i
  /\ Len(made) + Len(queue) + (IF underway = {} THEN 0 ELSE 1) <= asks + 1

\* A mutation has the file for itself.
OneMutation == \A u \in underway : u.store = file /\ underway = {u}

\* The task i was t once: it has been written since, or is t.
Seen(i, t) ==
  /\ i \in 1..Len(made)
  /\ i \in DOMAIN file.tasks =>
       t.stamp < file.tasks[i].stamp \/ t = file.tasks[i]

AllSeen(tasks) == \A i \in DOMAIN tasks : Seen(i, tasks[i])

EverythingSeen ==
  /\ AllSeen(board.tasks)
  /\ \A c \in Clients :
       /\ AllSeen(view[c]) /\ \A s \in Slots : AllSeen(calls[c][s].reply.tasks)
       /\ editor[c] # NoEditor => Seen(editor[c].id, editor[c].base)

\* A request was made by a known caller from what it has seen; if the browser
\* still waits for it, it is the save the browser knows of.
RequestHolds(r) ==
  /\ r.from \in Askers
  /\ (r.op = "update" /\ r.base # Nowhere) => Seen(r.id, r.base)
  /\ (r.from \in Clients /\ Stage(r.from, "save") = "queued") => calls[r.from].save.op = r.op

RequestsHold ==
  /\ \A k \in DOMAIN queue : RequestHolds(queue[k])
  /\ \A u \in underway : RequestHolds(u.req)

\* `tasks` show what the call k has written, or what came after it.
Shows(k, tasks) ==
  IF k.op = "delete" THEN k.got.id \notin DOMAIN tasks
  ELSE IF k.got.id \in DOMAIN tasks THEN tasks[k.got.id].stamp >= k.got.stamp
  ELSE k.got.id \notin DOMAIN file.tasks

SaveHolds(k) ==
  /\ k.stage \in {"written", "joined", "answered"} =>
       k.got.id \in 1..Len(made) /\ Shows(k, file.tasks)
  /\ k.stage = "joined" =>
       /\ poll.pc # "idle"
       /\ poll.pc = "reconcile" => board.failed \/ Shows(k, board.tasks)
  /\ k.stage = "answered" => k.reply.failed \/ Shows(k, k.reply.tasks)

SavesHold == \A c \in Clients : SaveHolds(calls[c].save)

ClientIInv ==
  Typed /\ InOrder /\ OneMutation /\ EverythingSeen /\ RequestsHold /\ SavesHold

-----------------------------------------------------------------------------
(* What a write does to the file *)

\* Tasks are written with a later stamp, or deleted, and numbers are not given
\* twice: what was seen has been seen.
Grows ==
  /\ Len(made) <= Len(made')
  /\ \A i \in 1..Len(made) :
       i \in DOMAIN file'.tasks =>
         /\ i \in DOMAIN file.tasks
         /\ file'.tasks[i] = file.tasks[i] \/ file.tasks[i].stamp < file'.tasks[i].stamp

LEMMA NothingGrows == Typed /\ UNCHANGED <<file, made>> => Grows
BY DEF Grows, Typed

LEMMA TableOf ==
  ASSUME NEW S \in SUBSET Nat, NEW f \in [S -> Task]
  PROVE  f \in Tables
BY DEF Tables

LEMMA InTable ==
  ASSUME NEW f \in Tables
  PROVE  /\ DOMAIN f \subseteq Nat
         /\ \A i \in DOMAIN f : f[i] \in Task
BY DEF Tables

\* The task a mutation is about, and what is left of the others.
LEMMA OutcomeIs ==
  ASSUME NEW store \in Stores, NEW r \in Request, NEW now \in Nat, Len(made) \in Nat,
         store.next = Len(made) + 1, ~Refused(store, r)
  PROVE  LET after == Outcome(store, r, now) IN
         /\ Target(r) \in Nat /\ after \in Stores
         /\ after.next = IF r.op = "create" THEN store.next + 1 ELSE store.next
         /\ r.op = "delete" => DOMAIN after.tasks = DOMAIN store.tasks \ {r.id}
         /\ r.op # "delete" =>
              /\ DOMAIN after.tasks = DOMAIN store.tasks \cup {Target(r)}
              /\ after.tasks[Target(r)] = Written(store, r, now)
         /\ \A i \in DOMAIN after.tasks : i # Target(r) => after.tasks[i] = store.tasks[i]
         /\ r.op # "create" => r.id \in DOMAIN store.tasks
         /\ r.op = "update" => store.tasks[r.id].stamp < Written(store, r, now).stamp
<1> DEFINE after == Outcome(store, r, now)
<1>1. /\ store.next \in Nat /\ store.tasks \in Tables
      /\ store = [next |-> store.next, tasks |-> store.tasks]
      /\ r.op \in {"create", "update", "delete"} /\ r.id \in Nat
  BY DEF Stores, Request
<1>2. /\ DOMAIN store.tasks \subseteq Nat
      /\ \A i \in DOMAIN store.tasks : store.tasks[i] \in Task
  BY <1>1, InTable
<1>3. Target(r) \in Nat
  BY <1>1 DEF Target, NewId
<1>4. r.op # "create" => r.id \in DOMAIN store.tasks
  BY <1>1 DEF Refused, Has
<1>5. r.op # "delete" => Written(store, r, now) \in Task
  <2>1. CASE r.op = "create"
    BY <2>1, <1>1 DEF Written, Task, NextNumber
  <2>2. CASE r.op = "update"
    <3>1. store.tasks[r.id] \in Task
      BY <2>2, <1>2, <1>4
    <3>2. \A p \in Nat : NextUpdatedAt(p, now) \in Nat
      BY DEF NextUpdatedAt
    <3>3. ASSUME NEW p \in Task
          PROVE  [p EXCEPT !.content = @ + 1, !.stamp = NextUpdatedAt(@, now)] \in Task
      <4>1. PICK n \in Nat : n = NextUpdatedAt(p.stamp, now)
        BY <3>2 DEF Task
      <4>2. PICK m \in Nat : m = p.content + 1
        BY DEF Task
      <4>3. [p EXCEPT !.content = m, !.stamp = n] \in Task
        BY DEF Task
      <4>4. [p EXCEPT !.content = @ + 1, !.stamp = n] \in Task
        BY <4>2, <4>3
      <4> QED
        BY <4>1, <4>4
    <3> QED
      BY <2>2, <3>1, <3>3 DEF Written
  <2> QED
    BY <2>1, <2>2, <1>1
<1>6. r.op = "update" => store.tasks[r.id].stamp < Written(store, r, now).stamp
  <2> SUFFICES ASSUME r.op = "update"
               PROVE  store.tasks[r.id].stamp < Written(store, r, now).stamp
    OBVIOUS
  <2>1. store.tasks[r.id] \in Task
    BY <1>2, <1>4
  <2>2. \A p \in Nat : p < NextUpdatedAt(p, now)
    BY DEF NextUpdatedAt
  <2> QED
    BY <2>1, <2>2 DEF Written, Task
<1>7. CASE r.op = "delete"
  <2> DEFINE left == [i \in DOMAIN store.tasks \ {r.id} |-> store.tasks[i]]
  <2>1. after = [next |-> store.next, tasks |-> left]
    BY <1>7, <1>1 DEF Outcome
  <2>2. left \in [DOMAIN store.tasks \ {r.id} -> Task]
    BY <1>2
  <2>3. left \in Tables
    BY <2>2, <1>2, TableOf
  <2>4. after \in Stores
    BY <2>1, <2>3, <1>1 DEF Stores
  <2> QED
    BY <2>1, <2>4, <1>7, <1>3, <1>4
<1>8. CASE r.op # "delete"
  <2> DEFINE S == DOMAIN store.tasks \cup {Target(r)}
             put == [i \in S |-> IF i = Target(r) THEN Written(store, r, now) ELSE store.tasks[i]]
             n == IF r.op = "create" THEN NextNumber(store) + 1 ELSE store.next
  <2>1. after = [next |-> n, tasks |-> put]
    BY <1>8 DEF Outcome
  <2>2. put \in [S -> Task]
    BY <1>2, <1>5, <1>8
  <2>3. put \in Tables
    BY <2>2, <1>2, <1>3, TableOf
  <2>4. n \in Nat /\ n = IF r.op = "create" THEN store.next + 1 ELSE store.next
    BY <1>1 DEF NextNumber
  <2>5. after \in Stores
    BY <2>1, <2>3, <2>4 DEF Stores
  <2> QED
    BY <2>1, <2>4, <2>5, <1>8, <1>3, <1>4, <1>6
<1> QED
  BY <1>7, <1>8

\* A write keeps the order of the file.
LEMMA CommitOrders ==
  ASSUME Typed, InOrder, OneMutation, NEW u \in underway, NEW now \in Clock,
         Commit(u, now), UNCHANGED asks
  PROVE  /\ u.req \in Request /\ u.store = file /\ underway = {u} /\ underway' = {}
         /\ ~Refused(file, u.req) /\ file' = Outcome(file, u.req, now)
         /\ file' \in Stores /\ made' \in Seq(Nat) /\ InOrder' /\ Grows
         /\ Target(u.req) \in 1..Len(made')
<1>1. /\ u.req \in Request /\ u.store = file /\ underway = {u} /\ file \in Stores
      /\ now \in Nat /\ made \in Seq(Nat) /\ Len(made) \in Nat
  BY SourceConstants DEF Typed, OneMutation
<1>2. /\ underway' = {} /\ ~Refused(file, u.req) /\ file' = Outcome(file, u.req, now)
      /\ queue' = queue
  BY <1>1 DEF Commit
<1>3. made' = IF u.req.op = "create" THEN Append(made, Len(made) + 1) ELSE made
  BY <1>1 DEF Commit, NextNumber, InOrder
<1> DEFINE r == u.req
           after == Outcome(file, r, now)
<1>4. /\ Target(r) \in Nat /\ after \in Stores
      /\ after.next = IF r.op = "create" THEN file.next + 1 ELSE file.next
      /\ r.op = "delete" => DOMAIN after.tasks = DOMAIN file.tasks \ {r.id}
      /\ r.op # "delete" =>
           /\ DOMAIN after.tasks = DOMAIN file.tasks \cup {Target(r)}
           /\ after.tasks[Target(r)] = Written(file, r, now)
      /\ \A i \in DOMAIN after.tasks : i # Target(r) => after.tasks[i] = file.tasks[i]
      /\ r.op # "create" => r.id \in DOMAIN file.tasks
      /\ r.op = "update" => file.tasks[r.id].stamp < Written(file, r, now).stamp
  BY <1>1, <1>2, OutcomeIs DEF InOrder
<1>5. /\ made' \in Seq(Nat)
      /\ Len(made') = IF r.op = "create" THEN Len(made) + 1 ELSE Len(made)
      /\ \A i \in 1..Len(made) : made'[i] = made[i]
      /\ r.op = "create" => made'[Len(made) + 1] = Len(made) + 1
  BY <1>1, <1>3
<1>6. /\ Target(r) = IF r.op = "create" THEN Len(made) + 1 ELSE r.id
      /\ DOMAIN file.tasks \subseteq 1..Len(made) /\ file.next = Len(made) + 1
      /\ \A i \in DOMAIN made : made[i] = i
      /\ Len(made) + Len(queue) + 1 <= asks + 1
  BY <1>1 DEF Target, NewId, InOrder
<1>7. Target(r) \in 1..Len(made')
  BY <1>1, <1>4, <1>5, <1>6
<1>8. InOrder'
  <2>1. file'.next = Len(made') + 1
    BY <1>1, <1>2, <1>4, <1>5, <1>6
  <2>2. DOMAIN file'.tasks \subseteq 1..Len(made')
    BY <1>1, <1>2, <1>4, <1>5, <1>6, <1>7
  <2>3. \A i \in DOMAIN made' : made'[i] = i
    <3>1. CASE r.op = "create"
      <4>1. DOMAIN made' = 1..(Len(made) + 1) /\ DOMAIN made = 1..Len(made)
        BY <3>1, <1>1, <1>5
      <4>2. \A i \in 1..(Len(made) + 1) : i \in 1..Len(made) \/ i = Len(made) + 1
        BY <1>1
      <4> QED
        BY <3>1, <4>1, <4>2, <1>5, <1>6
    <3>2. CASE r.op # "create"
      BY <3>2, <1>1, <1>3, <1>6
    <3> QED
      BY <3>1, <3>2
  <2>4. Len(made') + Len(queue') + 0 <= asks' + 1
    BY <1>1, <1>2, <1>5, <1>6 DEF Typed
  <2> QED
    BY <2>1, <2>2, <2>3, <2>4, <1>2 DEF InOrder
<1>9. Grows
  <2> SUFFICES ASSUME NEW i \in 1..Len(made), i \in DOMAIN after.tasks
               PROVE  /\ i \in DOMAIN file.tasks
                      /\ after.tasks[i] = file.tasks[i] \/ file.tasks[i].stamp < after.tasks[i].stamp
    BY <1>1, <1>2, <1>5 DEF Grows
  <2>1. CASE i # Target(r)
    BY <2>1, <1>4, <1>1 DEF Request
  <2>2. CASE i = Target(r)
    <3>1. r.op \in {"create", "update", "delete"}
      BY <1>1 DEF Request
    <3>2. r.op = "update" /\ i = r.id
      <4>1. r.op # "create"
        BY <2>2, <1>6, <1>1
      <4>2. r.op # "delete"
        BY <2>2, <4>1, <1>4, <1>6
      <4> QED
        BY <3>1, <4>1, <4>2, <2>2, <1>6
    <3> QED
      BY <3>2, <2>2, <1>4
  <2> QED
    BY <2>1, <2>2
<1> QED
  BY <1>1, <1>2, <1>4, <1>5, <1>7, <1>8, <1>9

-----------------------------------------------------------------------------
(* What stays *)

\* What a step may rely on when the file has grown.
FileGrows == file' \in Stores /\ made' \in Seq(Nat) /\ Grows

LEMMA SeenStays ==
  ASSUME Typed, FileGrows, NEW i, NEW t \in Task, Seen(i, t)
  PROVE  Seen(i, t)'
<1>1. /\ i \in 1..Len(made) /\ Len(made) <= Len(made') /\ Len(made) \in Nat /\ Len(made') \in Nat
      /\ t.stamp \in Nat
  BY DEF Typed, FileGrows, Grows, Seen, Task
<1>2. i \in 1..Len(made')
  BY <1>1
<1>3. ASSUME i \in DOMAIN file'.tasks
      PROVE  t.stamp < file'.tasks[i].stamp \/ t = file'.tasks[i]
  <2>1. /\ i \in DOMAIN file.tasks
        /\ file'.tasks[i] = file.tasks[i] \/ file.tasks[i].stamp < file'.tasks[i].stamp
    BY <1>1, <1>3 DEF FileGrows, Grows
  <2>2. t.stamp < file.tasks[i].stamp \/ t = file.tasks[i]
    BY <2>1 DEF Seen
  <2>3. file.tasks[i].stamp \in Nat /\ file'.tasks[i].stamp \in Nat
    BY <1>3, <2>1, InTable DEF Typed, FileGrows, Stores, Task
  <2> QED
    BY <2>1, <2>2, <2>3, <1>1
<1> QED
  BY <1>2, <1>3 DEF Seen

LEMMA AllSeenStays ==
  ASSUME Typed, FileGrows, NEW tasks \in Tables, AllSeen(tasks)
  PROVE  AllSeen(tasks)'
<1>1. \A i \in DOMAIN tasks : tasks[i] \in Task /\ Seen(i, tasks[i])
  BY InTable DEF AllSeen
<1>2. \A i \in DOMAIN tasks : Seen(i, tasks[i])'
  BY <1>1, SeenStays
<1> QED
  BY <1>2 DEF AllSeen

\* What a browser shows, edits and is told has been in the file.
ShowsOld ==
  /\ board'.tasks \in {board.tasks, file.tasks, Empty}
  /\ \A c \in Clients :
       /\ \A s \in Slots :
            calls'[c][s].reply.tasks \in {calls[c][s].reply.tasks, board.tasks, Empty}
       /\ \/ view'[c] = view[c]
          \/ \E s \in Slots : view'[c] = calls[c][s].reply.tasks
       /\ \/ editor'[c] \in {editor[c], NoEditor}
          \/ \E i \in DOMAIN view[c] : editor'[c] = [id |-> i, base |-> view[c][i]]

LEMMA EverythingSeenStays ==
  ASSUME Typed, InOrder, EverythingSeen, FileGrows, ShowsOld
  PROVE  EverythingSeen'
<1>1. /\ board.tasks \in Tables /\ file.tasks \in Tables
      /\ \A c \in Clients : /\ view[c] \in Tables /\ editor[c].base \in Task
                            /\ \A s \in Slots : calls[c][s].reply.tasks \in Tables
  BY DEF Typed, Stores, Replies, CallRecords
<1>2. DOMAIN Empty = {} /\ Empty \in Tables
  <2>1. Empty \in [{} -> Task]
    BY DEF Empty
  <2> QED
    BY <2>1, TableOf
<1>3. AllSeen(file.tasks) /\ AllSeen(Empty)
  BY <1>2 DEF InOrder, AllSeen, Seen
<1>4. \A tasks \in {board.tasks, file.tasks, Empty} :
        tasks \in Tables /\ AllSeen(tasks)
  BY <1>1, <1>2, <1>3 DEF EverythingSeen
<1>5. AllSeen(board.tasks)'
  <2>1. PICK tasks \in {board.tasks, file.tasks, Empty} : tasks = board'.tasks
    BY DEF ShowsOld
  <2>2. AllSeen(tasks)'
    BY <2>1, <1>4, AllSeenStays
  <2> QED
    BY <2>1, <2>2 DEF AllSeen, Seen
<1>6. ASSUME NEW c \in Clients, NEW s \in Slots
      PROVE  AllSeen(calls[c][s].reply.tasks)'
  <2>1. PICK tasks \in {calls[c][s].reply.tasks, board.tasks, Empty} : tasks = calls'[c][s].reply.tasks
    BY DEF ShowsOld
  <2>2. tasks \in Tables /\ AllSeen(tasks)
    BY <1>1, <1>2, <1>3 DEF EverythingSeen
  <2>3. AllSeen(tasks)'
    BY <2>2, AllSeenStays
  <2> QED
    BY <2>1, <2>3 DEF AllSeen, Seen
<1>7. ASSUME NEW c \in Clients
      PROVE  AllSeen(view[c])'
  <2>1. PICK tasks \in Tables : tasks = view'[c] /\ AllSeen(tasks)
    BY <1>1 DEF ShowsOld, EverythingSeen
  <2>2. AllSeen(tasks)'
    BY <2>1, AllSeenStays
  <2> QED
    BY <2>1, <2>2 DEF AllSeen, Seen
<1>8. ASSUME NEW c \in Clients, editor'[c] # NoEditor
      PROVE  Seen(editor[c].id, editor[c].base)'
  <2>1. \E i, t : t \in Task /\ editor'[c].id = i /\ editor'[c].base = t /\ Seen(i, t)
    <3>1. CASE editor'[c] = editor[c]
      <4>1. Seen(editor[c].id, editor[c].base) /\ editor[c].base \in Task
        BY <3>1, <1>1, <1>8 DEF EverythingSeen
      <4> QED
        BY <3>1, <4>1
    <3>2. ASSUME NEW i \in DOMAIN view[c], editor'[c] = [id |-> i, base |-> view[c][i]]
          PROVE  \E t \in Task : editor'[c].id = i /\ editor'[c].base = t /\ Seen(i, t)
      BY <3>2, <1>1, InTable DEF EverythingSeen, AllSeen
    <3>3. \/ editor'[c] = editor[c]
          \/ \E i \in DOMAIN view[c] : editor'[c] = [id |-> i, base |-> view[c][i]]
      BY <1>8 DEF ShowsOld
    <3> QED
      BY <3>1, <3>2, <3>3
  <2>2. PICK i, t : t \in Task /\ editor'[c].id = i /\ editor'[c].base = t /\ Seen(i, t)
    BY <2>1
  <2>3. Seen(i, t)'
    BY <2>2, SeenStays
  <2> QED
    BY <2>2, <2>3 DEF Seen
<1> QED
  BY <1>5, <1>6, <1>7, <1>8 DEF EverythingSeen

LEMMA ShowsStays ==
  ASSUME Typed, FileGrows, NEW k \in CallRecords, k.got.id \in 1..Len(made)
  PROVE  /\ \A tasks : Shows(k, tasks) => Shows(k, tasks)'
         /\ Shows(k, file.tasks) => Shows(k, file.tasks)'
         /\ k.got.id \in 1..Len(made')
<1>1. k.got.id \in 1..Len(made')
  BY DEF Typed, FileGrows, Grows
<1>2. k.got.id \in DOMAIN file'.tasks =>
        /\ k.got.id \in DOMAIN file.tasks
        /\ \/ file'.tasks[k.got.id] = file.tasks[k.got.id]
           \/ file.tasks[k.got.id].stamp < file'.tasks[k.got.id].stamp
  BY DEF FileGrows, Grows
<1>3. ASSUME NEW tasks, Shows(k, tasks)
      PROVE  Shows(k, tasks)'
  BY <1>2, <1>3 DEF Shows
<1>4. ASSUME Shows(k, file.tasks)
      PROVE  Shows(k, file.tasks)'
  <2>1. CASE k.op = "delete"
    BY <1>2, <1>4, <2>1 DEF Shows
  <2>2. CASE k.op # "delete" /\ k.got.id \in DOMAIN file'.tasks
    <3>1. /\ file.tasks[k.got.id].stamp \in Nat /\ file'.tasks[k.got.id].stamp \in Nat
          /\ k.got.stamp \in Nat
      BY <1>2, <2>2, InTable DEF Typed, FileGrows, Stores, Task, CallRecords
    <3>2. file.tasks[k.got.id].stamp >= k.got.stamp
      BY <1>2, <1>4, <2>2 DEF Shows
    <3>3. file'.tasks[k.got.id].stamp >= k.got.stamp
      BY <1>2, <2>2, <3>1, <3>2
    <3> QED
      BY <2>2, <3>3 DEF Shows
  <2>3. CASE k.op # "delete" /\ k.got.id \notin DOMAIN file'.tasks
    BY <2>3 DEF Shows
  <2> QED
    BY <2>1, <2>2, <2>3
<1> QED
  BY <1>1, <1>3, <1>4

\* A save that waits for the board waits on as long as board and poll stay.
LEMMA SaveStays ==
  ASSUME Typed, FileGrows, NEW k \in CallRecords, SaveHolds(k),
         k.stage = "joined" => poll'.pc = poll.pc /\ board' = board
  PROVE  SaveHolds(k)'
<1>1. CASE k.stage \notin {"written", "joined", "answered"}
  BY <1>1 DEF SaveHolds
<1>2. CASE k.stage \in {"written", "joined", "answered"}
  <2>1. /\ k.got.id \in 1..Len(made) /\ Shows(k, file.tasks)
        /\ k.stage = "joined" =>
             /\ poll.pc # "idle"
             /\ poll.pc = "reconcile" => board.failed \/ Shows(k, board.tasks)
        /\ k.stage = "answered" => k.reply.failed \/ Shows(k, k.reply.tasks)
    BY <1>2 DEF SaveHolds
  <2>2. /\ k.got.id \in 1..Len(made') /\ Shows(k, file.tasks)'
        /\ \A tasks : Shows(k, tasks) => Shows(k, tasks)'
    BY <2>1, ShowsStays
  <2>3. k.stage = "answered" => k.reply.failed \/ Shows(k, k.reply.tasks)'
    BY <2>1, <2>2
  <2>4. ASSUME k.stage = "joined"
        PROVE  /\ poll'.pc # "idle"
               /\ poll'.pc = "reconcile" => board'.failed \/ Shows(k, board.tasks)'
    <3>1. PICK tasks : tasks = board.tasks /\ tasks = board'.tasks
      BY <2>4
    <3>2. Shows(k, tasks) => Shows(k, tasks)'
      BY <2>2
    <3>3. Shows(k, tasks)' => Shows(k, board.tasks)'
      BY <3>1 DEF Shows
    <3> QED
      BY <2>1, <2>4, <3>1, <3>2, <3>3
  <2> QED
    BY <2>2, <2>3, <2>4, <1>2 DEF SaveHolds
<1> QED
  BY <1>1, <1>2

\* A request stays what it is, unless its browser comes to wait for another.
LEMMA RequestStays ==
  ASSUME Typed, FileGrows, NEW r \in Request, RequestHolds(r),
         (r.from \in Clients /\ calls'[r.from].save.stage = "queued") =>
           calls[r.from].save.stage = "queued" /\ calls'[r.from].save.op = calls[r.from].save.op
  PROVE  RequestHolds(r)'
<1>1. r.op = "update" /\ r.base # Nowhere => Seen(r.id, r.base)'
  <2>1. r.base \in Task
    BY DEF Request, Task, Nowhere
  <2> QED
    BY <2>1, SeenStays DEF RequestHolds
<1> QED
  BY <1>1 DEF RequestHolds, Stage

-----------------------------------------------------------------------------
(* What a step has to show *)

\* The requests that are there.
Requested == {queue[k] : k \in DOMAIN queue} \cup {u.req : u \in underway}

\* A browser waits for the save it has waited for, or for one of its own.
WaitsOn ==
  \A c \in Clients :
    calls'[c].save.stage = "queued" =>
      \/ calls[c].save.stage = "queued" /\ calls'[c].save.op = calls[c].save.op
      \/ \A r \in Requested : r.from # c

\* A save goes on as it was, or has nothing to show, or shows what it should.
SavesGoOn ==
  \A c \in Clients :
    \/ /\ calls'[c].save = calls[c].save
       /\ calls[c].save.stage = "joined" => poll'.pc = poll.pc /\ board' = board
    \/ calls'[c].save.stage \notin {"written", "joined", "answered"}
    \/ SaveHolds(calls[c].save)'

LEMMA StepKeeps ==
  ASSUME ClientIInv, Typed', InOrder', OneMutation', Grows, ShowsOld, WaitsOn, SavesGoOn,
         \A r \in Requested' : r \in Requested \/ RequestHolds(r)'
  PROVE  ClientIInv'
<1>1. FileGrows
  BY DEF Typed, FileGrows
<1>2. EverythingSeen'
  BY <1>1, EverythingSeenStays DEF ClientIInv
<1>3. SavesHold'
  <2> SUFFICES ASSUME NEW c \in Clients
               PROVE  SaveHolds(calls[c].save)'
    BY DEF SavesHold
  <2>1. CASE /\ calls'[c].save = calls[c].save
             /\ calls[c].save.stage = "joined" => poll'.pc = poll.pc /\ board' = board
    <3>1. PICK k \in CallRecords : k = calls[c].save /\ k = calls'[c].save /\ SaveHolds(k)
      BY <2>1 DEF ClientIInv, Typed, Slots, SavesHold
    <3>2. SaveHolds(k)'
      BY <1>1, <2>1, <3>1, SaveStays DEF ClientIInv
    <3> QED
      BY <3>1, <3>2 DEF SaveHolds, Shows
  <2>2. CASE calls'[c].save.stage \notin {"written", "joined", "answered"}
    BY <2>2 DEF SaveHolds
  <2> QED
    BY <2>1, <2>2 DEF SavesGoOn
<1>4. \A r \in Requested' : RequestHolds(r)'
  <2> SUFFICES ASSUME NEW r \in Requested
               PROVE  RequestHolds(r)'
    OBVIOUS
  <2>1. r \in Request /\ RequestHolds(r)
    BY DEF Requested, ClientIInv, RequestsHold, Typed
  <2>2. (r.from \in Clients /\ calls'[r.from].save.stage = "queued") =>
          calls[r.from].save.stage = "queued" /\ calls'[r.from].save.op = calls[r.from].save.op
    BY DEF WaitsOn
  <2> QED
    BY <1>1, <2>1, <2>2, RequestStays DEF ClientIInv
<1>5. RequestsHold'
  <2>1. \A r : r \in Requested' <=> r \in {queue'[k] : k \in DOMAIN queue'} \cup {u.req : u \in underway'}
    BY DEF Requested
  <2>2. ASSUME NEW k \in DOMAIN queue'
        PROVE  RequestHolds(queue[k])'
    <3>1. PICK r : r = queue'[k] /\ RequestHolds(r)'
      BY <1>4, <2>1, <2>2
    <3> QED
      BY <3>1 DEF RequestHolds, Seen, Stage
  <2>3. ASSUME NEW u \in underway'
        PROVE  RequestHolds(u.req)'
    BY <1>4, <2>1, <2>3
  <2> QED
    BY <2>2, <2>3 DEF RequestsHold
<1> QED
  BY <1>2, <1>3, <1>5 DEF ClientIInv

\* A step that leaves the source alone.
LEMMA QuietKeeps ==
  ASSUME ClientIInv, Typed', UNCHANGED <<sourceVars, asks>>, ShowsOld, WaitsOn, SavesGoOn
  PROVE  ClientIInv'
<1>1. UNCHANGED <<file, queue, underway, made>>
  BY DEF sourceVars
<1>2. InOrder' /\ OneMutation'
  BY <1>1 DEF ClientIInv, InOrder, OneMutation
<1>3. Grows
  BY <1>1, NothingGrows DEF ClientIInv
<1>4. \A r \in Requested' : r \in Requested
  BY <1>1 DEF Requested
<1> QED
  BY <1>2, <1>3, <1>4, StepKeeps

-----------------------------------------------------------------------------
(* The browser *)

LEMMA IdleTyped ==
  /\ Empty \in Tables /\ NoBoard \in Replies /\ Idle \in CallRecords
  /\ Idle.stage = "none" /\ Idle.reply.tasks = Empty /\ NoBoard.tasks = Empty
<1>1. Empty \in [{} -> Task]
  BY DEF Empty
<1>2. Empty \in Tables
  BY <1>1, TableOf
<1>3. NoBoard \in Replies /\ NoBoard.tasks = Empty
  BY <1>2 DEF NoBoard, Replies
<1>4. Idle \in CallRecords /\ Idle.stage = "none" /\ Idle.reply = NoBoard
  BY <1>3 DEF Idle, CallRecords, Stages, Ops
<1> QED
  BY <1>2, <1>3, <1>4

LEMMA SentChanges ==
  ASSUME Typed, NEW c \in Clients, NEW s \in Slots, NEW k \in CallRecords, Sent(c, s, k)
  PROVE  /\ calls' \in [Clients -> [Slots -> CallRecords]] /\ calls'[c][s] = k
         /\ \A d \in Clients, v \in Slots : <<d, v>> # <<c, s>> => calls'[d][v] = calls[d][v]
BY DEF Typed, Sent

LEMMA MovedChanges ==
  ASSUME Typed, NEW c \in Clients, NEW s \in Slots, NEW stage \in Stages, Moved(c, s, stage)
  PROVE  /\ calls' \in [Clients -> [Slots -> CallRecords]]
         /\ calls'[c][s] = [calls[c][s] EXCEPT !.stage = stage]
         /\ calls[c][s] \in CallRecords /\ calls'[c][s].stage = stage
         /\ calls'[c][s].op = calls[c][s].op /\ calls'[c][s].got = calls[c][s].got
         /\ calls'[c][s].reply = calls[c][s].reply
         /\ \A d \in Clients, v \in Slots : <<d, v>> # <<c, s>> => calls'[d][v] = calls[d][v]
<1>1. calls[c][s] \in CallRecords
  BY DEF Typed
<1>2. PICK k \in CallRecords : k = [calls[c][s] EXCEPT !.stage = stage]
  BY <1>1 DEF CallRecords
<1>3. Sent(c, s, k)
  BY <1>2 DEF Moved, Sent
<1> QED
  BY <1>1, <1>2, <1>3, SentChanges DEF CallRecords

\* A read that is sent or answered does not touch the saves.
LEMMA ReadKeeps ==
  ASSUME ClientIInv, NEW c \in Clients, NEW k \in CallRecords, Sent(c, "read", k),
         k.reply.tasks \in {calls[c]["read"].reply.tasks, board.tasks, Empty},
         poll' \in [pc : {"idle", "wait", "reconcile"}, awaits : SUBSET Askers],
         poll'.pc = poll.pc \/ poll.pc = "idle",
         open' \subseteq Clients, interval' \in [Clients -> {"none", "on", "cleared"}],
         UNCHANGED <<sourceVars, asks, board, view, editor>>
  PROVE  ClientIInv'
<1>1. /\ Typed /\ "read" \in Slots /\ "save" \in Slots
      /\ UNCHANGED <<file, queue, underway, made>>
  BY DEF ClientIInv, Slots, sourceVars
<1>2. /\ calls' \in [Clients -> [Slots -> CallRecords]] /\ calls'[c]["read"] = k
      /\ \A d \in Clients, v \in Slots : <<d, v>> # <<c, "read">> => calls'[d][v] = calls[d][v]
  BY <1>1, SentChanges
<1>3. Typed'
  BY <1>1, <1>2 DEF Typed
<1>4. \A d \in Clients : calls'[d]["save"] = calls[d]["save"]
  BY <1>1, <1>2
<1>5. ShowsOld
  BY <1>1, <1>2 DEF ShowsOld
<1>6. WaitsOn
  BY <1>4 DEF WaitsOn
<1>7. SavesGoOn
  BY <1>4 DEF SavesGoOn, ClientIInv, SavesHold, SaveHolds
<1> QED
  BY <1>3, <1>5, <1>6, <1>7, QuietKeeps

LEMMA OpenKeeps ==
  ASSUME ClientIInv, NEW c \in Clients, Open(c)
  PROVE  ClientIInv'
<1> DEFINE k == [Idle EXCEPT !.stage = "asked", !.op = "refresh"]
<1>1. k \in CallRecords /\ k.reply.tasks = Empty
  BY IdleTyped DEF CallRecords, Stages, Ops
<1>2. /\ Sent(c, "read", k)
      /\ UNCHANGED <<sourceVars, asks, board, poll, view, editor>>
  BY DEF Open, Free
<1>3. open' \subseteq Clients /\ interval' \in [Clients -> {"none", "on", "cleared"}]
  BY DEF Open, ClientIInv, Typed
<1>4. poll' \in [pc : {"idle", "wait", "reconcile"}, awaits : SUBSET Askers]
  BY <1>2 DEF ClientIInv, Typed
<1> QED
  BY ONLY ClientIInv, c \in Clients, <1>1, <1>2, <1>3, <1>4, ReadKeeps

LEMMA TickKeeps ==
  ASSUME ClientIInv, NEW c \in Clients, Tick(c)
  PROVE  ClientIInv'
<1> DEFINE k == [Idle EXCEPT !.stage = "asked", !.op = "state"]
<1>1. k \in CallRecords /\ k.reply.tasks = Empty
  BY IdleTyped DEF CallRecords, Stages, Ops
<1>2. /\ Sent(c, "read", k)
      /\ UNCHANGED <<sourceVars, asks, board, poll, view, open, interval, editor>>
  BY DEF Tick, Free
<1>3. /\ open' \subseteq Clients /\ interval' \in [Clients -> {"none", "on", "cleared"}]
      /\ poll' \in [pc : {"idle", "wait", "reconcile"}, awaits : SUBSET Askers]
  BY <1>2 DEF ClientIInv, Typed
<1> QED
  BY ONLY ClientIInv, c \in Clients, <1>1, <1>2, <1>3, ReadKeeps

\* The Dashboard is closed, an editor is opened or closed.
LEMMA EditorKeeps ==
  ASSUME ClientIInv, NEW c \in Clients, Close(c) \/ OpenEditor(c) \/ CloseEditor(c)
  PROVE  ClientIInv'
<1>1. /\ Typed /\ UNCHANGED <<file, queue, underway, made, asks, board, poll, calls, view>>
  BY DEF ClientIInv, sourceVars, Close, OpenEditor, CloseEditor, Free
<1>2. open' \subseteq Clients /\ interval' \in [Clients -> {"none", "on", "cleared"}]
  BY <1>1 DEF Typed, Close, OpenEditor, CloseEditor, Stopped
<1>3. \/ editor' = editor
      \/ editor' = [editor EXCEPT ![c] = NoEditor]
      \/ \E i \in DOMAIN view[c] : editor' = [editor EXCEPT ![c] = [id |-> i, base |-> view[c][i]]]
  BY DEF Close, OpenEditor, CloseEditor
<1>4. NoEditor \in [id : Nat, base : Task]
  BY DEF NoEditor, Nowhere, Task
<1>5. \A i \in DOMAIN view[c] : [id |-> i, base |-> view[c][i]] \in [id : Nat, base : Task]
  BY <1>1, InTable DEF Typed
<1>6. /\ editor' \in [Clients -> [id : Nat, base : Task]]
      /\ \A d \in Clients :
           \/ editor'[d] \in {editor[d], NoEditor}
           \/ \E i \in DOMAIN view[d] : editor'[d] = [id |-> i, base |-> view[d][i]]
  <2>1. CASE editor' = editor
    BY <2>1, <1>1 DEF Typed
  <2>2. CASE editor' = [editor EXCEPT ![c] = NoEditor]
    BY <2>2, <1>1, <1>4 DEF Typed
  <2>3. ASSUME NEW i \in DOMAIN view[c],
               editor' = [editor EXCEPT ![c] = [id |-> i, base |-> view[c][i]]]
        PROVE  /\ editor' \in [Clients -> [id : Nat, base : Task]]
               /\ \A d \in Clients :
                    \/ editor'[d] = editor[d]
                    \/ d = c /\ editor'[d] = [id |-> i, base |-> view[c][i]]
    <3>1. PICK e \in [id : Nat, base : Task] : e = [id |-> i, base |-> view[c][i]]
      BY <1>5, <2>3
    <3> QED
      BY <2>3, <3>1, <1>1 DEF Typed
  <2> QED
    BY <2>1, <2>2, <2>3, <1>3
<1>7. Typed'
  BY <1>1, <1>2, <1>6 DEF Typed
<1>8. ShowsOld
  BY <1>1, <1>6 DEF ShowsOld
<1>9. WaitsOn /\ SavesGoOn
  BY <1>1 DEF WaitsOn, SavesGoOn
<1> QED
  BY <1>1, <1>7, <1>8, <1>9, QuietKeeps DEF sourceVars

\* A reply is shown.
LEMMA ReceiveKeeps ==
  ASSUME ClientIInv, NEW c \in Clients, NEW s \in Slots, Receive(c, s)
  PROVE  ClientIInv'
<1>1. /\ Typed /\ UNCHANGED <<file, queue, underway, made, asks, board, poll, open, interval>>
      /\ Sent(c, s, Idle)
  BY DEF ClientIInv, sourceVars, Receive, Free
<1>2. /\ calls' \in [Clients -> [Slots -> CallRecords]] /\ calls'[c][s] = Idle
      /\ \A d \in Clients, v \in Slots : <<d, v>> # <<c, s>> => calls'[d][v] = calls[d][v]
  BY <1>1, IdleTyped, SentChanges
<1>3. PICK tasks \in Tables : tasks = calls[c][s].reply.tasks
  BY <1>1 DEF Typed, CallRecords, Replies
<1>4. view' = [view EXCEPT ![c] = tasks]
  BY <1>3 DEF Receive
<1>5. NoEditor \in [id : Nat, base : Task]
  BY DEF NoEditor, Nowhere, Task
<1>6. PICK e \in [id : Nat, base : Task] :
        e \in {editor[c], NoEditor} /\ editor' = [editor EXCEPT ![c] = e]
  <2>1. editor' = [editor EXCEPT ![c] = IF s = "save" THEN NoEditor ELSE editor[c]]
    BY DEF Receive
  <2>2. editor[c] \in [id : Nat, base : Task]
    BY <1>1 DEF Typed
  <2>3. CASE s = "save"
    BY <2>1, <2>3, <1>5
  <2>4. CASE s # "save"
    BY <2>1, <2>2, <2>4
  <2> QED
    BY <2>3, <2>4
<1>7. Typed'
  <2>1. view' \in [Clients -> Tables] /\ editor' \in [Clients -> [id : Nat, base : Task]]
    BY <1>1, <1>4, <1>6 DEF Typed
  <2> QED
    BY <1>1, <1>2, <2>1 DEF Typed
<1>8. ShowsOld
  <2>1. \A d \in Clients : /\ view'[d] = IF d = c THEN tasks ELSE view[d]
                           /\ editor'[d] = IF d = c THEN e ELSE editor[d]
    BY <1>1, <1>4, <1>6 DEF Typed
  <2>2. \A d \in Clients, v \in Slots :
          calls'[d][v].reply.tasks \in {calls[d][v].reply.tasks, Empty}
    BY <1>2, IdleTyped
  <2> QED
    BY <1>1, <1>3, <1>6, <2>1, <2>2 DEF ShowsOld
<1>9. \A d \in Clients :
        calls'[d]["save"] = calls[d]["save"] \/ calls'[d]["save"].stage = "none"
  BY <1>2, IdleTyped DEF Slots
<1>10. WaitsOn /\ SavesGoOn
  BY <1>1, <1>9 DEF WaitsOn, SavesGoOn
<1> QED
  BY <1>1, <1>7, <1>8, <1>10, QuietKeeps DEF sourceVars

LEMMA FailedChanges ==
  ASSUME Typed, NEW lost, Failed(lost)
  PROVE  /\ calls' \in [Clients -> [Slots -> CallRecords]]
         /\ \A d \in Clients, v \in Slots : calls'[d][v] = IF <<d, v>> \in lost THEN Idle ELSE calls[d][v]
         /\ \A d \in Clients, v \in Slots :
              calls'[d][v].reply.tasks \in {calls[d][v].reply.tasks, Empty}
<1>1. \A d \in Clients, v \in Slots : calls'[d][v] = IF <<d, v>> \in lost THEN Idle ELSE calls[d][v]
  BY DEF Failed
<1>2. \A d \in Clients, v \in Slots : calls[d][v] \in CallRecords
  BY DEF Typed
<1>3. calls' = [d \in Clients |-> [v \in Slots |-> IF <<d, v>> \in lost THEN Idle ELSE calls[d][v]]]
  BY DEF Failed
<1>4. \A d \in Clients :
        [v \in Slots |-> IF <<d, v>> \in lost THEN Idle ELSE calls[d][v]] \in [Slots -> CallRecords]
  BY <1>2, IdleTyped
<1>5. calls' \in [Clients -> [Slots -> CallRecords]]
  BY <1>3, <1>4
<1>6. \A d \in Clients, v \in Slots :
        calls'[d][v].reply.tasks \in {calls[d][v].reply.tasks, Empty}
  BY <1>1, IdleTyped
<1> QED
  BY <1>1, <1>5, <1>6

LEMMA ReceiveFailureKeeps ==
  ASSUME ClientIInv, NEW c \in Clients, NEW s \in Slots, ReceiveFailure(c, s)
  PROVE  ClientIInv'
<1>1. /\ Typed /\ Failed({<<c, s>>})
      /\ UNCHANGED <<file, queue, underway, made, asks, board, poll, view, open, interval, editor>>
  BY DEF ClientIInv, sourceVars, ReceiveFailure, Free
<1>2. /\ calls' \in [Clients -> [Slots -> CallRecords]]
      /\ \A d \in Clients, v \in Slots :
           calls'[d][v] = IF <<d, v>> \in {<<c, s>>} THEN Idle ELSE calls[d][v]
      /\ \A d \in Clients, v \in Slots :
           calls'[d][v].reply.tasks \in {calls[d][v].reply.tasks, Empty}
  BY ONLY <1>1, FailedChanges
<1>3. Typed' /\ ShowsOld
  BY <1>1, <1>2 DEF Typed, ShowsOld
<1>4. \A d \in Clients :
        calls'[d]["save"] = calls[d]["save"] \/ calls'[d]["save"].stage = "none"
  BY <1>2, IdleTyped DEF Slots
<1>5. WaitsOn /\ SavesGoOn
  BY <1>1, <1>4 DEF WaitsOn, SavesGoOn
<1> QED
  BY <1>1, <1>3, <1>5, QuietKeeps DEF sourceVars

-----------------------------------------------------------------------------
(* The board *)

LEMMA PendingAskers == ClientIInv => Pending \subseteq Askers
BY DEF ClientIInv, RequestsHold, RequestHolds, Pending

LEMMA BeginPollIs ==
  ASSUME ClientIInv, BeginPoll
  PROVE  /\ poll.pc = "idle" /\ poll'.pc = "wait"
         /\ poll' \in [pc : {"idle", "wait", "reconcile"}, awaits : SUBSET Askers]
BY PendingAskers DEF BeginPoll

\* The saves that wait for a poll find it under way.
LEMMA PollDueKeeps == ClientIInv /\ PollDue => ClientIInv'
<1> SUFFICES ASSUME ClientIInv, PollDue
             PROVE  ClientIInv'
  OBVIOUS
<1>1. /\ Typed /\ BeginPoll
      /\ UNCHANGED <<file, queue, underway, made, asks, board, calls, view, open, interval, editor>>
  BY DEF ClientIInv, sourceVars, PollDue, Free
<1>2. /\ poll.pc = "idle"
      /\ poll' \in [pc : {"idle", "wait", "reconcile"}, awaits : SUBSET Askers]
  BY <1>1, BeginPollIs
<1>3. Typed' /\ ShowsOld
  BY <1>1, <1>2 DEF Typed, ShowsOld
<1>4. WaitsOn
  BY <1>1 DEF WaitsOn
<1>5. SavesGoOn
  BY <1>1, <1>2 DEF SavesGoOn, ClientIInv, SavesHold, SaveHolds
<1> QED
  BY <1>1, <1>3, <1>4, <1>5, QuietKeeps DEF sourceVars

\* The poll reads what the saves that wait for it have written.
LEMMA PollReadsKeeps == ClientIInv /\ PollReads => ClientIInv'
<1> SUFFICES ASSUME ClientIInv, PollReads
             PROVE  ClientIInv'
  OBVIOUS
<1>1. /\ Typed /\ poll.pc = "wait"
      /\ UNCHANGED <<file, queue, underway, made, asks, calls, view, open, interval, editor>>
      /\ poll' = [poll EXCEPT !.pc = "reconcile"]
      /\ \/ board' = [tasks |-> file.tasks, failed |-> FALSE]
         \/ board' = [board EXCEPT !.failed = TRUE]
  BY DEF ClientIInv, sourceVars, PollReads, Free, Fault
<1>2. /\ board' \in Replies
      /\ \/ board'.tasks = file.tasks
         \/ board'.tasks = board.tasks /\ board'.failed = TRUE
  <2>1. PICK tasks \in Tables : tasks = file.tasks
    BY <1>1 DEF Typed, Stores
  <2>2. [tasks |-> tasks, failed |-> FALSE] \in Replies
    BY DEF Replies
  <2>3. PICK b \in Replies : b = board
    BY <1>1 DEF Typed
  <2>4. [b EXCEPT !.failed = TRUE] \in Replies /\ [b EXCEPT !.failed = TRUE].tasks = b.tasks
        /\ [b EXCEPT !.failed = TRUE].failed = TRUE
    BY DEF Replies
  <2>5. CASE board' = [tasks |-> file.tasks, failed |-> FALSE]
    BY <2>1, <2>2, <2>5
  <2>6. CASE board' = [board EXCEPT !.failed = TRUE]
    BY <2>3, <2>4, <2>6
  <2> QED
    BY <1>1, <2>5, <2>6
<1>3. /\ poll' \in [pc : {"idle", "wait", "reconcile"}, awaits : SUBSET Askers]
      /\ poll'.pc = "reconcile"
  BY <1>1 DEF Typed
<1>4. Typed' /\ ShowsOld
  BY <1>1, <1>2, <1>3 DEF Typed, ShowsOld
<1>5. WaitsOn
  BY <1>1 DEF WaitsOn
<1>6. SavesGoOn
  <2> SUFFICES ASSUME NEW c \in Clients, calls[c].save.stage = "joined"
               PROVE  SaveHolds(calls[c].save)'
    BY <1>1 DEF SavesGoOn
  <2>1. PICK k : k = calls[c].save /\ k = calls'[c].save
    BY <1>1
  <2>2. k.stage = "joined" /\ k.got.id \in 1..Len(made) /\ Shows(k, file.tasks)
    BY <2>1 DEF ClientIInv, SavesHold, SaveHolds
  <2>3. board'.failed \/ Shows(k, board.tasks)'
    <3>1. CASE board'.tasks = file.tasks
      BY <1>1, <2>2, <3>1 DEF Shows
    <3>2. CASE board'.failed = TRUE
      BY <3>2
    <3> QED
      BY <1>2, <3>1, <3>2
  <2>4. Shows(k, file.tasks)'
    BY <1>1, <2>2 DEF Shows
  <2> QED
    BY <1>1, <1>3, <2>1, <2>2, <2>3, <2>4 DEF SaveHolds, Shows
<1> QED
  BY <1>1, <1>4, <1>5, <1>6, QuietKeeps DEF sourceVars

LEMMA AnsweredIs ==
  ASSUME Typed, NEW c \in Clients, NEW s \in Slots
  PROVE  /\ Answered(c, s) \in CallRecords /\ Answered(c, s).stage = "answered"
         /\ Answered(c, s).reply = board /\ Answered(c, s).op = calls[c][s].op
         /\ Answered(c, s).got = calls[c][s].got
<1>1. PICK k \in CallRecords : k = calls[c][s]
  BY DEF Typed
<1>2. [k EXCEPT !.stage = "answered"] \in CallRecords
  BY <1>1 DEF CallRecords, Stages
<1>3. PICK j \in CallRecords : j = [k EXCEPT !.stage = "answered"] 
  BY <1>2
<1>4. [j EXCEPT !.reply = board] \in CallRecords
  BY <1>3 DEF CallRecords, Typed
<1>5. Answered(c, s) = [j EXCEPT !.reply = board]
  BY <1>1, <1>3 DEF Answered
<1> QED
  BY <1>1, <1>3, <1>4, <1>5 DEF CallRecords

LEMMA PollEndsKeeps == ClientIInv /\ PollEnds => ClientIInv'
<1> SUFFICES ASSUME ClientIInv, PollEnds
             PROVE  ClientIInv'
  OBVIOUS
<1>1. /\ Typed /\ poll.pc = "reconcile" /\ poll' = IdlePoll
      /\ UNCHANGED <<file, queue, underway, made, asks, board, view, open, interval, editor>>
  BY DEF ClientIInv, sourceVars, PollEnds, Free
<1>2. /\ calls' \in [Clients -> [Slots -> CallRecords]]
      /\ \A c \in Clients, s \in Slots :
           calls'[c][s] = IF calls[c][s].stage = "joined" THEN Answered(c, s) ELSE calls[c][s]
  <2>1. calls' = [c \in Clients |-> [s \in Slots |->
          IF calls[c][s].stage = "joined" THEN Answered(c, s) ELSE calls[c][s]]]
    BY DEF PollEnds, Stage
  <2>2. \A c \in Clients, s \in Slots : calls[c][s] \in CallRecords /\ Answered(c, s) \in CallRecords
    BY <1>1, AnsweredIs DEF Typed
  <2> QED
    BY <2>1, <2>2
<1>3. IdlePoll \in [pc : {"idle", "wait", "reconcile"}, awaits : SUBSET Askers]
  BY DEF IdlePoll
<1>4. Typed'
  BY <1>1, <1>2, <1>3 DEF Typed
<1>5. ShowsOld
  <2>1. \A c \in Clients, s \in Slots :
          calls'[c][s].reply.tasks \in {calls[c][s].reply.tasks, board.tasks}
    BY <1>1, <1>2, AnsweredIs
  <2> QED
    BY <1>1, <2>1 DEF ShowsOld
<1>6. WaitsOn
  BY <1>1, <1>2, AnsweredIs DEF WaitsOn, Slots
<1>7. SavesGoOn
  <2> SUFFICES ASSUME NEW c \in Clients, calls[c].save.stage = "joined"
               PROVE  SaveHolds(calls[c].save)'
    BY <1>1, <1>2 DEF SavesGoOn, Slots
  <2>1. PICK k : /\ k = calls'[c].save /\ k.stage = "answered" /\ k.reply = board
                 /\ k.op = calls[c].save.op /\ k.got = calls[c].save.got
    BY <1>1, <1>2, AnsweredIs DEF Slots
  <2>2. /\ k.got.id \in 1..Len(made) /\ Shows(calls[c].save, file.tasks)
        /\ board.failed \/ Shows(calls[c].save, board.tasks)
    BY <1>1, <2>1 DEF ClientIInv, SavesHold, SaveHolds
  <2>3. Shows(k, file.tasks) /\ (k.reply.failed \/ Shows(k, k.reply.tasks))
    BY <2>1, <2>2 DEF Shows
  <2>4. Shows(k, file.tasks)' /\ (k.reply.failed \/ Shows(k, k.reply.tasks)')
    BY <1>1, <2>3 DEF Shows
  <2> QED
    BY <1>1, <2>1, <2>2, <2>4 DEF SaveHolds, Shows
<1> QED
  BY <1>1, <1>4, <1>5, <1>6, <1>7, QuietKeeps DEF sourceVars

-----------------------------------------------------------------------------
(* The calls in the host *)

LEMMA ServeRefreshKeeps ==
  ASSUME ClientIInv, NEW c \in Clients, ServeRefresh(c)
  PROVE  ClientIInv'
<1>1. /\ Typed /\ Refreshes(c, "read") /\ "read" \in Slots
      /\ UNCHANGED <<sourceVars, asks, board, view, open, interval, editor>>
  BY DEF ClientIInv, ServeRefresh, Free, Slots
<1>2. PICK k \in CallRecords : /\ k = [calls[c]["read"] EXCEPT !.stage = "joined"]
                               /\ k.reply = calls[c]["read"].reply
  <2>1. PICK j \in CallRecords : j = calls[c]["read"]
    BY <1>1 DEF Typed
  <2>2. [j EXCEPT !.stage = "joined"] \in CallRecords /\ [j EXCEPT !.stage = "joined"].reply = j.reply
    BY DEF CallRecords, Stages
  <2> QED
    BY <2>1, <2>2
<1>3. Sent(c, "read", k)
  BY <1>1, <1>2 DEF Refreshes, Moved, Sent
<1>4. /\ poll' \in [pc : {"idle", "wait", "reconcile"}, awaits : SUBSET Askers]
      /\ poll'.pc = poll.pc \/ poll.pc = "idle"
  <2>1. CASE poll.pc = "idle"
    BY <1>1, <2>1, BeginPollIs DEF Refreshes
  <2>2. CASE poll.pc # "idle"
    BY <1>1, <2>2 DEF Refreshes, Typed
  <2> QED
    BY <2>1, <2>2
<1>5. open' \subseteq Clients /\ interval' \in [Clients -> {"none", "on", "cleared"}]
  BY <1>1 DEF Typed
<1> QED
  BY ONLY ClientIInv, c \in Clients, <1>1, <1>2, <1>3, <1>4, <1>5, ReadKeeps

LEMMA ServeStateKeeps ==
  ASSUME ClientIInv, NEW c \in Clients, ServeState(c)
  PROVE  ClientIInv'
<1>1. /\ Typed /\ Sent(c, "read", Answered(c, "read")) /\ "read" \in Slots
      /\ UNCHANGED <<sourceVars, asks, board, poll, view, open, interval, editor>>
  BY DEF ClientIInv, ServeState, Free, Slots
<1>2. Answered(c, "read") \in CallRecords /\ Answered(c, "read").reply = board
  BY <1>1, AnsweredIs
<1>3. /\ poll' \in [pc : {"idle", "wait", "reconcile"}, awaits : SUBSET Askers]
      /\ open' \subseteq Clients /\ interval' \in [Clients -> {"none", "on", "cleared"}]
  BY <1>1 DEF Typed
<1> QED
  BY ONLY ClientIInv, c \in Clients, <1>1, <1>2, <1>3, ReadKeeps

\* A save waits for a poll that begins after its write.
LEMMA SaveRefreshesKeeps ==
  ASSUME ClientIInv, NEW c \in Clients, SaveRefreshes(c)
  PROVE  ClientIInv'
<1>1. /\ Typed /\ calls[c].save.stage = "written" /\ "save" \in Slots
      /\ poll.pc = "idle" /\ BeginPoll /\ Moved(c, "save", "joined")
      /\ UNCHANGED <<file, queue, underway, made, asks, board, view, open, interval, editor>>
  BY DEF ClientIInv, SaveRefreshes, RefreshesAfter, Refreshes, Free, Slots, sourceVars, Stage
<1>2. /\ calls' \in [Clients -> [Slots -> CallRecords]]
      /\ calls'[c]["save"].stage = "joined"
      /\ calls'[c]["save"].op = calls[c]["save"].op /\ calls'[c]["save"].got = calls[c]["save"].got
      /\ calls'[c]["save"].reply = calls[c]["save"].reply
      /\ \A d \in Clients, v \in Slots : <<d, v>> # <<c, "save">> => calls'[d][v] = calls[d][v]
  BY <1>1, MovedChanges DEF Stages
<1>3. /\ poll'.pc = "wait"
      /\ poll' \in [pc : {"idle", "wait", "reconcile"}, awaits : SUBSET Askers]
  BY <1>1, BeginPollIs
<1>4. Typed'
  BY <1>1, <1>2, <1>3 DEF Typed
<1>5. ShowsOld
  <2>1. \A d \in Clients, v \in Slots : calls'[d][v].reply = calls[d][v].reply
    BY <1>2
  <2> QED
    BY <1>1, <2>1 DEF ShowsOld
<1>6. WaitsOn
  BY <1>1, <1>2 DEF WaitsOn
<1>7. SaveHolds(calls[c].save)'
  <2>1. calls[c].save.got.id \in 1..Len(made) /\ Shows(calls[c].save, file.tasks)
    BY <1>1 DEF ClientIInv, SavesHold, SaveHolds
  <2>2. Shows(calls[c].save, file.tasks)'
    BY <1>1, <1>2, <2>1 DEF Shows
  <2> QED
    BY <1>1, <1>2, <1>3, <2>1, <2>2 DEF SaveHolds
<1>8. SavesGoOn
  <2> SUFFICES ASSUME NEW d \in Clients, d # c
               PROVE  /\ calls'[d].save = calls[d].save
                      /\ calls[d].save.stage # "joined"
    BY <1>7 DEF SavesGoOn
  <2> QED
    BY <1>1, <1>2 DEF ClientIInv, SavesHold, SaveHolds
<1> QED
  BY <1>1, <1>4, <1>5, <1>6, <1>8, QuietKeeps DEF sourceVars

-----------------------------------------------------------------------------
(* The source *)

LEMMA EnqueueIs ==
  ASSUME ClientIInv, NEW r \in Request, Enqueue(r), Ask, UNCHANGED <<file, underway, made>>
  PROVE  /\ queue' \in Seq(Request) /\ asks' \in 0..MaxAsks /\ InOrder' /\ OneMutation'
         /\ \A q \in Requested' : q \in Requested \/ q = r
<1>1. /\ Typed /\ InOrder /\ OneMutation /\ queue \in Seq(Request)
      /\ queue' = Append(queue, r) /\ asks \in 0..MaxAsks /\ asks < MaxAsks /\ asks' = asks + 1
      /\ MaxAsks \in Nat /\ made \in Seq(Nat)
  BY SourceConstants DEF ClientIInv, Typed, Enqueue, Ask
<1>2. /\ queue' \in Seq(Request) /\ Len(queue') = Len(queue) + 1 /\ Len(queue) \in Nat
      /\ \A k \in DOMAIN queue' : (k \in DOMAIN queue /\ queue'[k] = queue[k]) \/ queue'[k] = r
  BY <1>1
<1>3. asks' \in 0..MaxAsks /\ asks \in Nat
  BY <1>1
<1>4. InOrder'
  BY <1>1, <1>2, <1>3 DEF InOrder
<1>5. OneMutation'
  BY <1>1 DEF OneMutation
<1>6. \A q \in Requested' : q \in Requested \/ q = r
  BY <1>2 DEF Requested
<1> QED
  BY <1>2, <1>3, <1>4, <1>5, <1>6

\* A browser asks for one thing at a time, from what its user has seen.
LEMMA SaveKeeps ==
  ASSUME ClientIInv, NEW c \in Clients, NEW op \in {"create", "update", "delete"},
         NEW id \in Nat, NEW base \in Task,
         (op = "update" /\ base # Nowhere) => Seen(id, base),
         Save(c, op, id, base)
  PROVE  ClientIInv'
<1> DEFINE r == [from |-> c, op |-> op, id |-> id, base |-> base]
           k == [Idle EXCEPT !.stage = "queued", !.op = op]
<1>1. /\ Typed /\ c \notin Pending /\ Ask /\ Enqueue(r) /\ Sent(c, "save", k)
      /\ UNCHANGED <<file, underway, made, board, poll, view, open, interval, editor>>
  BY DEF ClientIInv, Save
<1>2. r \in Request
  BY ClientNames DEF Request
<1>3. /\ k \in CallRecords /\ k.stage = "queued" /\ k.op = op /\ k.reply.tasks = Empty
  BY IdleTyped DEF CallRecords, Stages, Ops
<1>4. /\ calls' \in [Clients -> [Slots -> CallRecords]] /\ calls'[c]["save"] = k
      /\ \A d \in Clients, v \in Slots : <<d, v>> # <<c, "save">> => calls'[d][v] = calls[d][v]
  BY <1>1, <1>3, SentChanges DEF Slots
<1>5. /\ queue' \in Seq(Request) /\ asks' \in 0..MaxAsks /\ InOrder' /\ OneMutation'
      /\ \A q \in Requested' : q \in Requested \/ q = r
  BY <1>1, <1>2, EnqueueIs
<1>6. Typed'
  BY <1>1, <1>4, <1>5 DEF Typed
<1>7. Grows
  BY <1>1, NothingGrows
<1>8. ShowsOld
  <2>1. \A d \in Clients, v \in Slots :
          calls'[d][v].reply.tasks \in {calls[d][v].reply.tasks, Empty}
    BY <1>3, <1>4
  <2> QED
    BY <1>1, <2>1 DEF ShowsOld
<1>9. WaitsOn
  <2>1. \A q \in Requested : q.from # c
    BY <1>1 DEF Requested, Pending
  <2>2. \A d \in Clients : d # c => calls'[d]["save"] = calls[d]["save"]
    BY <1>4 DEF Slots
  <2> QED
    BY <2>1, <2>2 DEF WaitsOn
<1>10. SavesGoOn
  BY <1>1, <1>3, <1>4 DEF SavesGoOn, Slots
<1>11. RequestHolds(r)'
  <2>1. (op = "update" /\ base # Nowhere) => Seen(id, base)'
    BY <1>1 DEF Seen
  <2> QED
    BY <1>3, <1>4, <2>1 DEF RequestHolds, Askers, Stage, Seen
<1> QED
  BY ONLY ClientIInv, <1>5, <1>6, <1>7, <1>8, <1>9, <1>10, <1>11, StepKeeps

LEMMA SubmitKeeps ==
  ASSUME ClientIInv, NEW c \in Clients, Submit(c) \/ ConfirmDelete(c)
  PROVE  ClientIInv'
<1>1. Nowhere \in Task
  BY DEF Nowhere, Task
<1>2. CASE editor[c] # NoEditor /\ Save(c, "update", editor[c].id, editor[c].base)
  <2>1. editor[c].id \in Nat /\ editor[c].base \in Task /\ Seen(editor[c].id, editor[c].base)
    BY <1>2 DEF ClientIInv, Typed, EverythingSeen
  <2> QED
    BY <1>2, <2>1, SaveKeeps
<1>3. CASE Save(c, "create", 0, Nowhere)
  BY <1>1, <1>3, SaveKeeps
<1>4. CASE ConfirmDelete(c)
  <2>1. PICK i \in DOMAIN view[c] : Save(c, "delete", i, Nowhere)
    BY <1>4 DEF ConfirmDelete
  <2>2. i \in Nat
    BY InTable DEF ClientIInv, Typed
  <2> QED
    BY <1>1, <2>1, <2>2, SaveKeeps
<1> QED
  BY <1>2, <1>3, <1>4 DEF Submit

LEMMA AgentUpdatesKeeps == ClientIInv /\ AgentUpdates => ClientIInv'
<1> SUFFICES ASSUME ClientIInv, AgentUpdates
             PROVE  ClientIInv'
  OBVIOUS
<1>1. PICK i \in DOMAIN board.tasks :
        Enqueue([from |-> "agent", op |-> "update", id |-> i, base |-> Nowhere])
  BY DEF AgentUpdates
<1>2. PICK r \in Request : /\ Enqueue(r) /\ r.from = "agent" /\ r.base = Nowhere
  <2>1. i \in Nat
    BY InTable DEF ClientIInv, Typed, Replies
  <2>2. PICK b \in Task : b = Nowhere
    BY DEF Nowhere, Task
  <2>3. "agent" \in STRING
    BY ClientNames
  <2>4. [from |-> "agent", op |-> "update", id |-> i, base |-> b] \in Request
    BY <2>1, <2>3 DEF Request
  <2> QED
    BY <1>1, <2>2, <2>4
<1>3. /\ Typed /\ Ask
      /\ UNCHANGED <<file, underway, made, board, poll, calls, view, open, interval, editor>>
  BY DEF ClientIInv, AgentUpdates
<1>4. /\ queue' \in Seq(Request) /\ asks' \in 0..MaxAsks /\ InOrder' /\ OneMutation'
      /\ \A q \in Requested' : q \in Requested \/ q = r
  BY <1>2, <1>3, EnqueueIs
<1>5. Typed' /\ Grows /\ ShowsOld
  BY <1>3, <1>4, NothingGrows DEF Typed, ShowsOld
<1>6. WaitsOn /\ SavesGoOn
  BY <1>3 DEF WaitsOn, SavesGoOn
<1>7. RequestHolds(r)'
  BY <1>2, ClientNames DEF RequestHolds, Askers
<1> QED
  BY <1>4, <1>5, <1>6, <1>7, StepKeeps

LEMMA SourceBeginsKeeps == ClientIInv /\ SourceBegins => ClientIInv'
<1> SUFFICES ASSUME ClientIInv, SourceBegins
             PROVE  ClientIInv'
  OBVIOUS
<1>1. /\ Typed /\ InOrder /\ queue \in Seq(Request) /\ queue # <<>> /\ underway = {}
      /\ underway' = {[req |-> Head(queue), store |-> file]} /\ queue' = Tail(queue)
      /\ UNCHANGED <<file, made, asks, board, poll, calls, view, open, interval, editor>>
  BY DEF ClientIInv, Typed, SourceBegins, Begin, Turn, Free
<1>2. /\ Len(queue) \in Nat /\ Len(queue) > 0 /\ queue' \in Seq(Request) /\ Len(queue') = Len(queue) - 1
      /\ Head(queue) = queue[1] /\ 1 \in DOMAIN queue /\ queue[1] \in Request
      /\ \A k \in DOMAIN queue' : k + 1 \in DOMAIN queue /\ queue'[k] = queue[k + 1]
  BY <1>1
<1>3. underway' \subseteq [req : Request, store : Stores]
  BY <1>1, <1>2 DEF Typed
<1>4. Typed'
  BY <1>1, <1>2, <1>3 DEF Typed
<1>5. InOrder'
  <2>1. Len(made) \in Nat /\ asks \in Nat
    BY <1>1 DEF Typed
  <2>2. Len(made) + Len(queue) + 0 <= asks + 1
    BY <1>1 DEF InOrder
  <2>3. Len(made') + Len(queue') + 1 <= asks' + 1
    BY <1>1, <1>2, <2>1, <2>2
  <2> QED
    BY <1>1, <2>3 DEF InOrder
<1>6. OneMutation'
  BY <1>1 DEF OneMutation
<1>7. \A r \in Requested' : r \in Requested
  BY <1>1, <1>2 DEF Requested
<1>8. Grows /\ ShowsOld /\ WaitsOn /\ SavesGoOn
  BY <1>1, NothingGrows DEF ShowsOld, WaitsOn, SavesGoOn
<1> QED
  BY <1>4, <1>5, <1>6, <1>7, <1>8, StepKeeps

\* The caller of a mutation that is over is told, if it still waits.
LEMMA ToldIs ==
  ASSUME ClientIInv, NEW u \in underway, NEW stage \in {"written", "refused"},
         NEW got \in [id : Nat, stamp : Nat], Told(u, stage, got)
  PROVE  /\ poll' \in [pc : {"idle", "wait", "reconcile"}, awaits : SUBSET Askers] /\ poll'.pc = poll.pc
         /\ calls' \in [Clients -> [Slots -> CallRecords]]
         /\ \A c \in Clients, s \in Slots :
              /\ calls'[c][s].reply = calls[c][s].reply
              /\ \/ calls'[c][s] = calls[c][s]
                 \/ /\ s = "save" /\ u.req.from = c /\ calls[c].save.stage = "queued"
                    /\ calls'[c][s].stage = stage /\ calls'[c][s].got = got
                    /\ calls'[c][s].op = calls[c][s].op
<1>1. /\ Typed /\ "save" \in Slots
      /\ poll' = [poll EXCEPT !.awaits = poll.awaits \ {u.req.from}]
  BY DEF ClientIInv, Slots, Told
<1>2. /\ poll' \in [pc : {"idle", "wait", "reconcile"}, awaits : SUBSET Askers]
      /\ poll'.pc = poll.pc
  BY <1>1 DEF Typed
<1>3. CASE u.req.from \in Clients /\ calls[u.req.from].save.stage = "queued"
  <2>1. PICK c \in Clients : c = u.req.from
    BY <1>3
  <2>2. calls' = [calls EXCEPT ![c].save.stage = stage, ![c].save.got = got]
    BY <1>3, <2>1 DEF Told, Stage
  <2>3. PICK k \in CallRecords : k = calls[c]["save"]
    BY <1>1 DEF Typed
  <2>4. PICK j \in CallRecords : j = [k EXCEPT !.stage = stage] /\ j.op = k.op /\ j.reply = k.reply
                                 /\ j.stage = stage
    <3>1. [k EXCEPT !.stage = stage] \in CallRecords
      BY DEF CallRecords, Stages
    <3> QED
      BY <3>1 DEF CallRecords
  <2>5. PICK i \in CallRecords : i = [j EXCEPT !.got = got] /\ i.op = k.op /\ i.reply = k.reply
                                 /\ i.stage = stage /\ i.got = got
    <3>1. [j EXCEPT !.got = got] \in CallRecords
      BY DEF CallRecords
    <3> QED
      BY <2>4, <3>1 DEF CallRecords
  <2>6. calls' = [calls EXCEPT ![c]["save"] = i]
    <3>1. \A f \in [Clients -> [Slots -> CallRecords]] :
            [f EXCEPT ![c].save.stage = stage, ![c].save.got = got]
              = [f EXCEPT ![c]["save"] = [[f[c]["save"] EXCEPT !.stage = stage] EXCEPT !.got = got]]
      BY <1>1
    <3> QED
      BY <1>1, <2>2, <2>3, <2>4, <2>5, <3>1 DEF Typed
  <2>7. Sent(c, "save", i)
    BY <2>6 DEF Sent
  <2>8. /\ calls' \in [Clients -> [Slots -> CallRecords]] /\ calls'[c]["save"] = i
        /\ \A d \in Clients, v \in Slots : <<d, v>> # <<c, "save">> => calls'[d][v] = calls[d][v]
    BY <1>1, <2>7, SentChanges
  <2>9. ASSUME NEW d \in Clients, NEW v \in Slots
        PROVE  /\ calls'[d][v].reply = calls[d][v].reply
               /\ \/ calls'[d][v] = calls[d][v]
                  \/ /\ v = "save" /\ u.req.from = d /\ calls[d].save.stage = "queued"
                     /\ calls'[d][v].stage = stage /\ calls'[d][v].got = got
                     /\ calls'[d][v].op = calls[d][v].op
    <3>1. CASE <<d, v>> # <<c, "save">>
      BY <2>8, <3>1
    <3>2. CASE d = c /\ v = "save"
      BY <1>3, <2>1, <2>3, <2>4, <2>5, <2>8, <3>2
    <3> QED
      BY <3>1, <3>2
  <2> QED
    BY <1>2, <2>8, <2>9
<1>4. CASE ~(u.req.from \in Clients /\ calls[u.req.from].save.stage = "queued")
  <2>1. calls' = calls
    BY <1>4 DEF Told, Stage
  <2> QED
    BY <1>1, <1>2, <2>1 DEF Typed
<1> QED
  BY <1>3, <1>4

\* A write is told to its caller, which then knows the stamp that it has made.
LEMMA SourceWritesKeeps == ClientIInv /\ SourceWrites => ClientIInv'
<1> SUFFICES ASSUME ClientIInv, SourceWrites
             PROVE  ClientIInv'
  OBVIOUS
<1>1. PICK u \in underway, now \in Clock :
        /\ Commit(u, now)
        /\ Told(u, "written", [id |-> Target(u.req),
                               stamp |-> IF u.req.op = "delete" THEN 0 ELSE Written(u.store, u.req, now).stamp])
  BY DEF SourceWrites
<1>2. /\ Typed /\ InOrder /\ OneMutation /\ now \in Nat
      /\ UNCHANGED <<queue, asks, board, view, open, interval, editor>>
  BY <1>1, SourceConstants DEF ClientIInv, SourceWrites, Free, Commit
<1> DEFINE r == u.req
<1>3. /\ r \in Request /\ u.store = file /\ underway = {u} /\ underway' = {}
      /\ ~Refused(file, r) /\ file' = Outcome(file, r, now)
      /\ file' \in Stores /\ made' \in Seq(Nat) /\ InOrder' /\ Grows /\ Target(r) \in 1..Len(made')
  BY <1>1, <1>2, CommitOrders
<1>4. /\ r.op = "delete" => Target(r) \notin DOMAIN file'.tasks
      /\ r.op # "delete" => /\ Target(r) \in DOMAIN file'.tasks
                            /\ file'.tasks[Target(r)] = Written(file, r, now)
  <2>1. /\ r.op = "delete" => DOMAIN file'.tasks = DOMAIN file.tasks \ {r.id}
        /\ r.op # "delete" =>
             /\ DOMAIN file'.tasks = DOMAIN file.tasks \cup {Target(r)}
             /\ file'.tasks[Target(r)] = Written(file, r, now)
    <3>1. file \in Stores /\ Len(made) \in Nat /\ file.next = Len(made) + 1
      BY <1>2 DEF Typed, InOrder
    <3> QED
      BY ONLY <1>2, <1>3, <3>1, OutcomeIs
  <2>2. r.op = "delete" => Target(r) = r.id
    BY DEF Target
  <2> QED
    BY <2>1, <2>2
<1>5. PICK got \in [id : Nat, stamp : Nat] :
        /\ got = [id |-> Target(r), stamp |-> IF r.op = "delete" THEN 0 ELSE Written(file, r, now).stamp]
        /\ got.id = Target(r)
        /\ r.op # "delete" => got.stamp = file'.tasks[Target(r)].stamp
  <2>1. r.op # "delete" => Written(file, r, now).stamp \in Nat
    BY <1>3, <1>4, InTable DEF Stores, Task
  <2>2. Target(r) \in Nat
    BY <1>3
  <2>3. PICK n \in Nat : n = IF r.op = "delete" THEN 0 ELSE Written(file, r, now).stamp
    BY <2>1
  <2>4. [id |-> Target(r), stamp |-> n] \in [id : Nat, stamp : Nat]
    BY <2>2
  <2>5. r.op # "delete" => n = file'.tasks[Target(r)].stamp
    BY <1>4, <2>3
  <2> QED
    BY <2>3, <2>4, <2>5
<1>6. Told(u, "written", got)
  BY <1>1, <1>3, <1>5
<1>7. /\ poll' \in [pc : {"idle", "wait", "reconcile"}, awaits : SUBSET Askers] /\ poll'.pc = poll.pc
      /\ calls' \in [Clients -> [Slots -> CallRecords]]
      /\ \A c \in Clients, s \in Slots :
           /\ calls'[c][s].reply = calls[c][s].reply
           /\ \/ calls'[c][s] = calls[c][s]
              \/ /\ s = "save" /\ r.from = c /\ calls[c].save.stage = "queued"
                 /\ calls'[c][s].stage = "written" /\ calls'[c][s].got = got
                 /\ calls'[c][s].op = calls[c][s].op
  BY <1>6, ToldIs
<1>8. Typed' /\ OneMutation'
  BY <1>2, <1>3, <1>7 DEF Typed, OneMutation
<1>9. ShowsOld
  BY <1>2, <1>7 DEF ShowsOld
<1>10. WaitsOn
  BY <1>7 DEF WaitsOn, Slots
<1>11. SavesGoOn
  <2> SUFFICES ASSUME NEW c \in Clients, calls'[c].save # calls[c].save
               PROVE  SaveHolds(calls[c].save)'
    BY <1>2, <1>7 DEF SavesGoOn
  <2>1. /\ r.from = c /\ calls[c].save.stage = "queued" /\ calls'[c].save.stage = "written"
        /\ calls'[c].save.got = got /\ calls'[c].save.op = calls[c].save.op
    BY <1>7 DEF Slots
  <2>2. calls[c].save.op = r.op
    BY <2>1 DEF ClientIInv, RequestsHold, RequestHolds, Stage
  <2>3. PICK k : k = calls'[c].save /\ k.op = r.op /\ k.got = got /\ k.stage = "written"
    BY <2>1, <2>2
  <2>4. Shows(k, file.tasks)'
    <3>1. CASE r.op = "delete"
      BY <1>4, <1>5, <2>3, <3>1 DEF Shows
    <3>2. CASE r.op # "delete"
      BY <1>4, <1>5, <2>3, <3>2 DEF Shows
    <3> QED
      BY <3>1, <3>2
  <2>5. k.got.id \in 1..Len(made')
    BY <1>3, <1>5, <2>3
  <2> QED
    BY <2>3, <2>4, <2>5 DEF SaveHolds, Shows
<1>12. \A q \in Requested' : q \in Requested
  BY <1>2, <1>3 DEF Requested
<1> QED
  BY <1>3, <1>8, <1>9, <1>10, <1>11, <1>12, StepKeeps

LEMMA SourceRejectsKeeps == ClientIInv /\ SourceRejects => ClientIInv'
<1> SUFFICES ASSUME ClientIInv, SourceRejects
             PROVE  ClientIInv'
  OBVIOUS
<1>1. PICK u \in underway : Reject(u) /\ Told(u, "refused", Idle.got)
  BY DEF SourceRejects
<1>2. /\ Typed /\ InOrder /\ OneMutation
      /\ UNCHANGED <<file, queue, made, asks, board, view, open, interval, editor>>
      /\ underway = {u} /\ underway' = underway \ {u}
  BY <1>1 DEF ClientIInv, SourceRejects, Free, Fault, Reject, OneMutation
<1>3. Idle.got \in [id : Nat, stamp : Nat]
  BY DEF Idle
<1>4. /\ poll' \in [pc : {"idle", "wait", "reconcile"}, awaits : SUBSET Askers] /\ poll'.pc = poll.pc
      /\ calls' \in [Clients -> [Slots -> CallRecords]]
      /\ \A c \in Clients, s \in Slots :
           /\ calls'[c][s].reply = calls[c][s].reply
           /\ calls'[c][s] = calls[c][s] \/ (s = "save" /\ calls'[c][s].stage = "refused")
  <2>1. PICK got \in [id : Nat, stamp : Nat] : Told(u, "refused", got)
    BY <1>1, <1>3
  <2> QED
    BY <2>1, ToldIs
<1>5. Typed' /\ OneMutation'
  BY <1>2, <1>4 DEF Typed, OneMutation
<1>6. InOrder'
  <2>1. underway' = {} /\ Len(made) + Len(queue) + 1 <= asks + 1
    BY <1>2 DEF InOrder
  <2>2. Len(made) \in Nat /\ Len(queue) \in Nat /\ asks \in Nat
    BY <1>2 DEF Typed
  <2>3. Len(made') + Len(queue') + 0 <= asks' + 1
    BY <1>2, <2>1, <2>2
  <2> QED
    BY <1>2, <2>1, <2>3 DEF InOrder
<1>7. Grows /\ ShowsOld /\ WaitsOn /\ SavesGoOn
  BY <1>2, <1>4, NothingGrows DEF ShowsOld, WaitsOn, SavesGoOn, Slots
<1>8. \A q \in Requested' : q \in Requested
  BY <1>2 DEF Requested
<1> QED
  BY <1>5, <1>6, <1>7, <1>8, StepKeeps

-----------------------------------------------------------------------------
(* Faults *)

\* A queue without one of its requests.
OneLess(t, s) ==
  /\ t \in Seq(Request) /\ Len(t) = Len(s) - 1
  /\ \A j \in DOMAIN t : \E i \in DOMAIN s : t[j] = s[i]

LEMMA WithoutIs ==
  ASSUME NEW s \in Seq(Request), NEW k \in 1..Len(s)
  PROVE  OneLess(SubSeq(s, 1, k - 1) \o SubSeq(s, k + 1, Len(s)), s)
<1> DEFINE S == {s[i] : i \in DOMAIN s}
           a == SubSeq(s, 1, k - 1)
           b == SubSeq(s, k + 1, Len(s))
           t == a \o b
<1>1. /\ Len(s) \in Nat /\ DOMAIN s = 1..Len(s) /\ k \in Nat /\ k >= 1 /\ k <= Len(s)
      /\ k - 1 \in Int /\ k + 1 \in Int
  OBVIOUS
<1>2. S \subseteq Request /\ \A i \in 1..Len(s) : s[i] \in S
  BY <1>1
<1>3. a \in Seq(S) /\ Len(a) = k - 1
  <2>1. \A i \in 1..(k - 1) : s[i] \in S
    BY <1>1, <1>2
  <2> HIDE DEF S
  <2>2. a \in Seq(S) /\ Len(a) = IF 1 <= k - 1 THEN (k - 1) - 1 + 1 ELSE 0
    BY <1>1, <2>1, SubSeqProperties
  <2>3. (IF 1 <= k - 1 THEN (k - 1) - 1 + 1 ELSE 0) = k - 1
    BY <1>1
  <2> QED
    BY <2>2, <2>3
<1>4. b \in Seq(S) /\ Len(b) = Len(s) - k
  <2>1. \A i \in (k + 1)..Len(s) : s[i] \in S
    BY <1>1, <1>2
  <2> HIDE DEF S
  <2>2. b \in Seq(S) /\ Len(b) = IF k + 1 <= Len(s) THEN Len(s) - (k + 1) + 1 ELSE 0
    BY <1>1, <2>1, SubSeqProperties
  <2>3. \A n, i \in Nat :
          i <= n => (IF i + 1 <= n THEN n - (i + 1) + 1 ELSE 0) = n - i
    OBVIOUS
  <2> QED
    BY <1>1, <2>2, <2>3
<1>5. t \in Seq(S) /\ Len(t) = Len(a) + Len(b)
  <2> HIDE DEF S, a, b
  <2> QED
    BY <1>3, <1>4, ConcatProperties
<1>6. Len(t) = Len(s) - 1
  <2>1. \A n, i \in Nat : (i - 1) + (n - i) = n - 1
    OBVIOUS
  <2> HIDE DEF a, b, t
  <2> QED
    BY ONLY <1>1, <1>3, <1>4, <1>5, <2>1
<1>7. t \in Seq(Request)
  <2> HIDE DEF S, t
  <2> QED
    BY <1>2, <1>5
<1>8. \A j \in DOMAIN t : t[j] \in S
  <2> HIDE DEF S, t
  <2>1. DOMAIN t = 1..Len(t)
    BY <1>7
  <2> QED
    BY <1>5, <2>1, ElementOfSeq
<1>9. OneLess(t, s)
  <2> HIDE DEF t
  <2> QED
    BY <1>6, <1>7, <1>8 DEF OneLess
<1> QED
  BY <1>9

LEMMA CallLostKeeps ==
  ASSUME ClientIInv, NEW c \in Clients, NEW s \in Slots, CallLost(c, s)
  PROVE  ClientIInv'
<1>1. /\ Typed /\ InOrder /\ OneMutation /\ Failed({<<c, s>>})
      /\ UNCHANGED <<file, underway, made, asks, board, view, open, interval, editor>>
  BY DEF ClientIInv, CallLost, Fault
<1>2. /\ calls' \in [Clients -> [Slots -> CallRecords]]
      /\ \A d \in Clients, v \in Slots :
           calls'[d][v] = IF <<d, v>> \in {<<c, s>>} THEN Idle ELSE calls[d][v]
      /\ \A d \in Clients, v \in Slots :
           calls'[d][v].reply.tasks \in {calls[d][v].reply.tasks, Empty}
  BY ONLY <1>1, FailedChanges
<1>3. /\ queue' \in Seq(Request) /\ Len(queue') <= Len(queue)
      /\ \A q \in Requested' : q \in Requested
      /\ poll' \in [pc : {"idle", "wait", "reconcile"}, awaits : SUBSET Askers] /\ poll'.pc = poll.pc
  <2>1. CASE UNCHANGED <<queue, poll>>
    BY <1>1, <2>1 DEF Typed, Requested
  <2>2. ASSUME NEW k \in DOMAIN queue,
               queue' = SubSeq(queue, 1, k - 1) \o SubSeq(queue, k + 1, Len(queue)),
               poll' = [poll EXCEPT !.awaits = poll.awaits \ {c}]
        PROVE  /\ queue' \in Seq(Request) /\ Len(queue') <= Len(queue)
               /\ \A q \in Requested' : q \in Requested
               /\ poll' \in [pc : {"idle", "wait", "reconcile"}, awaits : SUBSET Askers] /\ poll'.pc = poll.pc
    <3>1. queue \in Seq(Request) /\ Len(queue) \in Nat /\ k \in 1..Len(queue)
      BY <1>1 DEF Typed
    <3>2. /\ queue' \in Seq(Request) /\ Len(queue') = Len(queue) - 1
          /\ \A j \in DOMAIN queue' : \E i \in DOMAIN queue : queue'[j] = queue[i]
      <4>1. OneLess(SubSeq(queue, 1, k - 1) \o SubSeq(queue, k + 1, Len(queue)), queue)
        BY ONLY <3>1, WithoutIs
      <4>2. OneLess(queue', queue)
        BY <2>2, <4>1
      <4> QED
        BY <4>2 DEF OneLess
    <3>3. \A q \in Requested' : q \in Requested
      BY <1>1, <3>2 DEF Requested
    <3> QED
      <4>1. poll' \in [pc : {"idle", "wait", "reconcile"}, awaits : SUBSET Askers] /\ poll'.pc = poll.pc
        BY <1>1, <2>2 DEF Typed
      <4> QED
        BY <3>1, <3>2, <3>3, <4>1
  <2> QED
    BY <2>1, <2>2 DEF CallLost
<1>4. Typed' /\ OneMutation'
  BY <1>1, <1>2, <1>3 DEF Typed, OneMutation
<1>5. InOrder'
  <2>1. Len(made) \in Nat /\ Len(queue) \in Nat /\ Len(queue') \in Nat /\ asks \in Nat
    BY <1>1, <1>3 DEF Typed
  <2> QED
    BY <1>1, <1>3, <2>1 DEF InOrder
<1>6. \A d \in Clients :
        calls'[d]["save"] = calls[d]["save"] \/ calls'[d]["save"].stage = "none"
  BY <1>2, IdleTyped DEF Slots
<1>7. Grows /\ ShowsOld
  BY <1>1, <1>2, NothingGrows DEF ShowsOld
<1>8. WaitsOn /\ SavesGoOn
  BY <1>1, <1>3, <1>6 DEF WaitsOn, SavesGoOn
<1> QED
  BY <1>3, <1>4, <1>5, <1>7, <1>8, StepKeeps

LEMMA CrashKeeps == ClientIInv /\ Crash => ClientIInv'
<1> SUFFICES ASSUME ClientIInv, Crash
             PROVE  ClientIInv'
  OBVIOUS
<1> DEFINE lost == {k \in Clients \X Slots : Stage(k[1], k[2]) \notin {"none", "answered", "refused"}}
<1>1. /\ Typed /\ InOrder /\ Failed(lost) /\ board' = NoBoard /\ poll' = IdlePoll
      /\ queue' = <<>> /\ underway' = {}
      /\ UNCHANGED <<file, made, asks, view, open, interval, editor>>
  BY DEF ClientIInv, Crash, Fault, SourceDown
<1>2. /\ calls' \in [Clients -> [Slots -> CallRecords]]
      /\ \A d \in Clients, v \in Slots :
           calls'[d][v] = IF <<d, v>> \in lost THEN Idle ELSE calls[d][v]
      /\ \A d \in Clients, v \in Slots :
           calls'[d][v].reply.tasks \in {calls[d][v].reply.tasks, Empty}
  BY ONLY <1>1, FailedChanges
<1>3. IdlePoll \in [pc : {"idle", "wait", "reconcile"}, awaits : SUBSET Askers]
  BY DEF IdlePoll
<1>4. Typed'
  BY <1>1, <1>2, <1>3, IdleTyped DEF Typed
<1>5. OneMutation' /\ Requested' = {}
  BY <1>1 DEF OneMutation, Requested
<1>6. InOrder'
  <2>1. Len(made) \in Nat /\ Len(queue) \in Nat /\ Len(queue') = 0 /\ asks \in Nat
    BY <1>1 DEF Typed
  <2>2. Len(made') + Len(queue') + 0 <= asks' + 1
    BY <1>1, <2>1 DEF InOrder
  <2> QED
    BY <1>1, <2>2 DEF InOrder
<1>7. Grows /\ ShowsOld
  BY <1>1, <1>2, NothingGrows, IdleTyped DEF ShowsOld
<1>8. \A d \in Clients :
        \/ calls'[d]["save"] = calls[d]["save"] /\ calls[d]["save"].stage \in {"none", "answered", "refused"}
        \/ calls'[d]["save"].stage = "none"
  BY <1>2, IdleTyped DEF Slots, Stage
<1>9. WaitsOn /\ SavesGoOn
  BY <1>8 DEF WaitsOn, SavesGoOn
<1> QED
  BY <1>4, <1>5, <1>6, <1>7, <1>9, StepKeeps

-----------------------------------------------------------------------------
(* Theorems *)

LEMMA InitHolds == Init => ClientIInv
<1> SUFFICES ASSUME Init
             PROVE  ClientIInv
  OBVIOUS
<1>1. /\ made = <<1>> /\ queue = <<>> /\ underway = {} /\ asks = 0 /\ MaxAsks \in Nat
      /\ board = NoBoard /\ poll = IdlePoll /\ open = {}
      /\ calls = [c \in Clients |-> [s \in Slots |-> Idle]]
      /\ view = [c \in Clients |-> Empty] /\ interval = [c \in Clients |-> "none"]
      /\ editor = [c \in Clients |-> NoEditor]
  BY SourceConstants DEF Init, SourceInit
<1>2. /\ made \in Seq(Nat) /\ Len(made) = 1 /\ DOMAIN made = {1} /\ made[1] = 1
      /\ queue \in Seq(Request) /\ Len(queue) = 0 /\ DOMAIN queue = {}
  BY <1>1
<1>3. file \in Stores /\ file.next = 2 /\ DOMAIN file.tasks = {1}
  <2> DEFINE f == [i \in {1} |-> [number |-> 1, content |-> 0, stamp |-> 0]]
  <2>1. file = [next |-> 2, tasks |-> f]
    BY DEF Init, SourceInit
  <2>2. f \in [{1} -> Task]
    BY DEF Task
  <2>3. f \in Tables /\ DOMAIN f = {1}
    BY <2>2, TableOf
  <2> HIDE DEF f
  <2> QED
    BY <2>1, <2>3 DEF Stores
<1>4. /\ NoEditor \in [id : Nat, base : Task] /\ IdlePoll.pc = "idle"
      /\ IdlePoll \in [pc : {"idle", "wait", "reconcile"}, awaits : SUBSET Askers]
  BY DEF NoEditor, Nowhere, Task, IdlePoll
<1>5. Typed
  <2>1. /\ view \in [Clients -> Tables] /\ calls \in [Clients -> [Slots -> CallRecords]]
        /\ editor \in [Clients -> [id : Nat, base : Task]] /\ board \in Replies
    BY <1>1, <1>4, IdleTyped
  <2>2. asks \in 0..MaxAsks /\ open \subseteq Clients /\ interval \in [Clients -> {"none", "on", "cleared"}]
    BY <1>1
  <2> QED
    BY <1>1, <1>2, <1>3, <1>4, <2>1, <2>2 DEF Typed
<1>6. InOrder /\ OneMutation
  BY <1>1, <1>2, <1>3 DEF InOrder, OneMutation
<1>7. EverythingSeen
  <2>1. AllSeen(Empty)
    BY DEF AllSeen, Empty
  <2> QED
    BY <1>1, <2>1, IdleTyped DEF EverythingSeen
<1>8. RequestsHold
  BY <1>1, <1>2 DEF RequestsHold
<1>9. SavesHold
  BY <1>1, IdleTyped DEF SavesHold, SaveHolds, Slots
<1> QED
  BY <1>5, <1>6, <1>7, <1>8, <1>9 DEF ClientIInv

LEMMA StutterKeeps == ClientIInv /\ UNCHANGED vars => ClientIInv'
<1> SUFFICES ASSUME ClientIInv, UNCHANGED vars
             PROVE  ClientIInv'
  OBVIOUS
<1>1. UNCHANGED <<file, queue, underway, made, board, poll, calls, view, open, interval, editor, asks>>
  BY DEF vars, sourceVars, clientVars
<1>2. Typed' /\ ShowsOld /\ WaitsOn /\ SavesGoOn
  BY <1>1 DEF ClientIInv, Typed, ShowsOld, WaitsOn, SavesGoOn
<1> QED
  BY <1>1, <1>2, QuietKeeps DEF sourceVars

LEMMA NextKeeps == ClientIInv /\ [Next]_vars => ClientIInv'
<1> SUFFICES ASSUME ClientIInv, [Next]_vars
             PROVE  ClientIInv'
  OBVIOUS
<1>1. ASSUME NEW c \in Clients,
             \/ Open(c) \/ Close(c) \/ Tick(c) \/ OpenEditor(c) \/ CloseEditor(c)
             \/ Submit(c) \/ ConfirmDelete(c)
      PROVE  ClientIInv'
  BY <1>1, OpenKeeps, TickKeeps, EditorKeeps, SubmitKeeps
<1>2. ASSUME NEW c \in Clients, ServeRefresh(c) \/ ServeState(c) \/ SaveRefreshes(c)
      PROVE  ClientIInv'
  BY <1>2, ServeRefreshKeeps, ServeStateKeeps, SaveRefreshesKeeps
<1>3. ASSUME NEW c \in Clients, NEW s \in Slots,
             Receive(c, s) \/ ReceiveFailure(c, s) \/ CallLost(c, s)
      PROVE  ClientIInv'
  BY <1>3, ReceiveKeeps, ReceiveFailureKeeps, CallLostKeeps
<1>4. CASE \/ PollDue \/ PollReads \/ PollEnds \/ AgentUpdates
           \/ SourceBegins \/ SourceWrites \/ SourceRejects \/ Crash
  BY <1>4, PollDueKeeps, PollReadsKeeps, PollEndsKeeps, AgentUpdatesKeeps, SourceBeginsKeeps,
     SourceWritesKeeps, SourceRejectsKeeps, CrashKeeps
<1>5. CASE UNCHANGED vars
  BY <1>5, StutterKeeps
<1> QED
  BY <1>1, <1>2, <1>3, <1>4, <1>5 DEF Next

\* What is seen has a number that was given.
LEMMA ClientImplies == ClientIInv => ClientInv
<1> SUFFICES ASSUME ClientIInv
             PROVE  ClientInv
  OBVIOUS
<1>1. Typed /\ InOrder /\ made \in Seq(Nat) /\ asks \in 0..MaxAsks /\ MaxAsks \in Nat
  BY SourceConstants DEF ClientIInv, Typed
<1>2. 1..Len(made) \subseteq Ids
  <2>1. Len(made) \in Nat /\ Len(queue) \in Nat /\ asks <= MaxAsks /\ asks \in Nat
    BY <1>1 DEF Typed
  <2>2. Len(made) <= MaxAsks + 1
    <3>1. Len(made) + Len(queue) + (IF underway = {} THEN 0 ELSE 1) <= asks + 1
      BY <1>1 DEF InOrder
    <3> QED
      BY <1>1, <2>1, <3>1
  <2> QED
    BY <1>1, <2>1, <2>2 DEF Ids
<1>3. \A tasks : AllSeen(tasks) => DOMAIN tasks \subseteq Ids
  BY <1>2 DEF AllSeen, Seen
<1>4. SourceTypeOK
  <2>1. \A i \in DOMAIN file.tasks : file.tasks[i] \in Task
    BY <1>1, InTable DEF Typed, Stores
  <2> QED
    BY <1>1, <1>2, <2>1 DEF Typed, InOrder, SourceTypeOK
<1>5. TypeOK
  <2>1. /\ DOMAIN board.tasks \subseteq Ids
        /\ \A c \in Clients : DOMAIN view[c] \subseteq Ids
    BY <1>3 DEF ClientIInv, EverythingSeen
  <2>2. \A c \in Clients : editor[c].id \in Ids \cup {0}
    <3> SUFFICES ASSUME NEW c \in Clients
                 PROVE  editor[c].id \in Ids \cup {0}
      OBVIOUS
    <3>1. CASE editor[c] = NoEditor
      BY <3>1 DEF NoEditor
    <3>2. CASE editor[c] # NoEditor
      BY <3>2, <1>2 DEF ClientIInv, EverythingSeen, Seen
    <3> QED
      BY <3>1, <3>2
  <2>3. \A c \in Clients, s \in Slots : calls[c][s].stage \in Stages
    BY <1>1 DEF Typed, CallRecords
  <2>4. board.failed \in BOOLEAN
    BY <1>1 DEF Typed, Replies
  <2>5. poll.pc \in {"idle", "wait", "reconcile"} /\ poll.awaits \subseteq Clients \cup {"agent"}
    BY <1>1 DEF Typed, Askers
  <2> QED
    BY <1>1, <1>4, <2>1, <2>2, <2>3, <2>4, <2>5 DEF Typed, TypeOK
<1>6. NumbersUnique
  BY <1>1 DEF InOrder, NumbersUnique
<1>7. SavedIsShown
  BY DEF ClientIInv, SavesHold, SaveHolds, Shows, SavedIsShown, Has
<1> QED
  BY <1>5, <1>6, <1>7 DEF ClientInv

\* One task per number, and every save is shown by the reply to it, for any
\* number of mutations, however calls are lost and the host restarts.
THEOREM ClientInvHolds == Spec => []ClientInv
<1> QED
  BY InitHolds, NextKeeps, ClientImplies, PTL DEF Spec

\* Only a write changes the file.
LEMMA OnlyWrites ==
  ASSUME ClientIInv, [Next]_vars
  PROVE  UNCHANGED file \/ SourceWrites
<1>1. ASSUME NEW c \in Clients,
             \/ Open(c) \/ Close(c) \/ Tick(c) \/ OpenEditor(c) \/ CloseEditor(c)
             \/ Submit(c) \/ ConfirmDelete(c)
      PROVE  UNCHANGED file
  BY <1>1 DEF Open, Close, Tick, OpenEditor, CloseEditor, Submit, ConfirmDelete, Save, sourceVars
<1>2. ASSUME NEW c \in Clients, ServeRefresh(c) \/ ServeState(c) \/ SaveRefreshes(c)
      PROVE  UNCHANGED file
  BY <1>2 DEF ServeRefresh, ServeState, SaveRefreshes, sourceVars
<1>3. ASSUME NEW c \in Clients, NEW s \in Slots,
             Receive(c, s) \/ ReceiveFailure(c, s) \/ CallLost(c, s)
      PROVE  UNCHANGED file
  BY <1>3 DEF Receive, ReceiveFailure, CallLost, sourceVars
<1>4. CASE PollDue \/ PollReads \/ PollEnds \/ AgentUpdates \/ SourceBegins \/ SourceRejects \/ Crash
  BY <1>4 DEF PollDue, PollReads, PollEnds, AgentUpdates, SourceBegins, Begin, SourceRejects, Reject,
              Crash, SourceDown, sourceVars
<1>5. CASE UNCHANGED vars
  BY <1>5 DEF vars, sourceVars
<1> QED
  BY <1>1, <1>2, <1>3, <1>4, <1>5 DEF Next

LEMMA WriteIsApart ==
  ASSUME ClientIInv, SourceWrites
  PROVE  OnlyItsTask /\ EditOnSeen
<1>1. PICK u \in underway, now \in Clock : Commit(u, now)
  BY DEF SourceWrites
<1>2. /\ Typed /\ InOrder /\ OneMutation /\ now \in Nat /\ UNCHANGED asks
  BY SourceConstants DEF ClientIInv, SourceWrites, Free
<1> DEFINE r == u.req
<1>3. /\ r \in Request /\ underway = {u} /\ ~Refused(file, r) /\ file' = Outcome(file, r, now)
  BY <1>1, <1>2, CommitOrders
<1>4. /\ file \in Stores /\ Len(made) \in Nat /\ file.next = Len(made) + 1
  BY <1>2 DEF Typed, InOrder
<1>5. /\ r.op = "delete" => DOMAIN file'.tasks = DOMAIN file.tasks \ {r.id}
      /\ r.op # "delete" => DOMAIN file'.tasks = DOMAIN file.tasks \cup {Target(r)}
      /\ \A i \in DOMAIN file'.tasks : i # Target(r) => file'.tasks[i] = file.tasks[i]
      /\ r.op # "create" => r.id \in DOMAIN file.tasks
  BY ONLY <1>2, <1>3, <1>4, OutcomeIs
<1>6. r.op = "delete" => Target(r) = r.id
  BY DEF Target
<1>7. \A i : i # Target(r) =>
        /\ i \in DOMAIN file'.tasks <=> i \in DOMAIN file.tasks
        /\ i \in DOMAIN file'.tasks => file'.tasks[i] = file.tasks[i]
  BY <1>5, <1>6
<1>8. OnlyItsTask
  <2>1. \A i \in Ids :
          (\/ Has(file, i) # Has(file', i)
           \/ Has(file, i) /\ Has(file', i) /\ file.tasks[i] # file'.tasks[i]) => i = Target(r)
    BY <1>7 DEF Has
  <2> QED
    BY <2>1 DEF OnlyItsTask
<1>9. EditOnSeen
  <2> SUFFICES ASSUME r.op = "update", r.base # Nowhere
               PROVE  file.tasks[r.id] = r.base
    BY <1>3 DEF EditOnSeen
  <2>1. Seen(r.id, r.base)
    BY DEF ClientIInv, RequestsHold, RequestHolds
  <2>2. r.id \in DOMAIN file.tasks /\ file.tasks[r.id].stamp = r.base.stamp
    BY <1>3, <1>5 DEF Refused
  <2>3. r.base.stamp \in Nat
    BY <1>3 DEF Request, Task, Nowhere
  <2> QED
    BY <2>1, <2>2, <2>3 DEF Seen
<1> QED
  BY <1>8, <1>9

\* No writer loses the work of another: a write changes its task and no other,
\* and an edit is written over exactly what its editor has seen.
THEOREM WritesKeepOthersHolds == Spec => WritesKeepOthers
<1>1. ClientIInv /\ [Next]_vars => [OnlyItsTask /\ EditOnSeen]_sourceVars
  <2> SUFFICES ASSUME ClientIInv, [Next]_vars
               PROVE  OnlyItsTask /\ EditOnSeen
    OBVIOUS
  <2>1. CASE UNCHANGED file
    BY <2>1 DEF OnlyItsTask, EditOnSeen, Has
  <2>2. CASE SourceWrites
    BY <2>2, WriteIsApart
  <2> QED
    BY <2>1, <2>2, OnlyWrites
<1> QED
  BY <1>1, InitHolds, NextKeeps, PTL DEF Spec, WritesKeepOthers

-----------------------------------------------------------------------------
(* Places in an order *)

LEMMA CountUpTo ==
  ASSUME NEW n \in Nat
  PROVE  IsFiniteSet(1..n) /\ Cardinality(1..n) = n
<1>1. 1 \in Int /\ n \in Int  OBVIOUS
<1>2. IsFiniteSet(1..n) /\ Cardinality(1..n) = IF 1 > n THEN 0 ELSE n - 1 + 1  BY <1>1, FS_Interval
<1> QED  BY <1>2

\* R orders S: of two elements one precedes the other.
Orders(R, S) ==
  /\ \A x \in S : <<x, x>> \notin R
  /\ \A x, y \in S : x = y \/ <<x, y>> \in R \/ <<y, x>> \in R
  /\ \A x, y, z \in S : <<x, y>> \in R /\ <<y, z>> \in R => <<x, z>> \in R

PlaceIn(S, R, x) == Cardinality({f \in S : <<x, f>> \notin R})

\* The elements have the places 1 to n, and the order is that of their places.
LEMMA PlacesAre ==
  ASSUME NEW S, IsFiniteSet(S), NEW R, Orders(R, S)
  PROVE  /\ Cardinality(S) \in Nat
         /\ \A x \in S : PlaceIn(S, R, x) \in 1..Cardinality(S)
         /\ \A n \in 1..Cardinality(S) : \E x \in S : PlaceIn(S, R, x) = n
         /\ \A x, y \in S : PlaceIn(S, R, x) = PlaceIn(S, R, y) => x = y
         /\ \A x, y \in S : PlaceIn(S, R, x) < PlaceIn(S, R, y) => <<x, y>> \in R
<1> DEFINE Upto(x) == {f \in S : <<x, f>> \notin R}
           n == Cardinality(S)
           place == [x \in S |-> PlaceIn(S, R, x)]
<1>1. n \in Nat  BY FS_CardinalityType
<1>2. \A x \in S : Upto(x) \in SUBSET S /\ x \in Upto(x)  BY DEF Orders
<1>3. ASSUME NEW x \in S
      PROVE  IsFiniteSet(Upto(x)) /\ Cardinality(Upto(x)) \in 1..n
  <2>1. Upto(x) \in SUBSET S /\ Upto(x) # {}  BY <1>2
  <2> HIDE DEF Upto
  <2>2. IsFiniteSet(Upto(x)) /\ Cardinality(Upto(x)) <= n  BY <2>1, FS_Subset
  <2>3. Cardinality(Upto(x)) \in Nat /\ Cardinality(Upto(x)) # 0  BY <2>1, <2>2, FS_CardinalityType, FS_EmptySet
  <2> QED  BY <1>1, <2>2, <2>3
<1>4. ASSUME NEW x \in S, NEW y \in S, <<x, y>> \in R
      PROVE  Cardinality(Upto(x)) < Cardinality(Upto(y))
  <2>1. Upto(x) \in SUBSET Upto(y)  BY <1>4 DEF Orders
  <2>2. y \in Upto(y) /\ y \notin Upto(x)  BY <1>2, <1>4
  <2>3. IsFiniteSet(Upto(x)) /\ IsFiniteSet(Upto(y)) /\ Cardinality(Upto(x)) \in Nat /\ Cardinality(Upto(y)) \in Nat
    BY <1>1, <1>3
  <2> HIDE DEF Upto
  <2>4. Cardinality(Upto(x)) <= Cardinality(Upto(y)) /\ Cardinality(Upto(x)) # Cardinality(Upto(y))
    BY <2>1, <2>2, <2>3, FS_Subset
  <2> QED  BY <2>3, <2>4
<1>5. \A x \in S : PlaceIn(S, R, x) = Cardinality(Upto(x))  BY DEF PlaceIn
<1> HIDE DEF Upto
<1>6. place \in [S -> 1..n]  BY <1>3, <1>5
<1>7. ASSUME NEW x \in S, NEW y \in S
      PROVE  /\ PlaceIn(S, R, x) = PlaceIn(S, R, y) => x = y
             /\ PlaceIn(S, R, x) < PlaceIn(S, R, y) => <<x, y>> \in R
  <2>1. PlaceIn(S, R, x) \in Nat /\ PlaceIn(S, R, y) \in Nat  BY <1>1, <1>3, <1>5
  <2>2. x = y \/ <<x, y>> \in R \/ <<y, x>> \in R  BY DEF Orders
  <2>3. CASE x = y  BY <2>1, <2>3
  <2>4. CASE <<x, y>> \in R  BY <1>4, <1>5, <2>1, <2>4
  <2>5. CASE <<y, x>> \in R  BY <1>4, <1>5, <2>1, <2>5
  <2> QED  BY <2>2, <2>3, <2>4, <2>5
<1>8. place \in Surjection(S, 1..n)
  <2>1. \A x, y \in S : place[x] = place[y] => x = y  BY <1>7
  <2> HIDE DEF place
  <2>2. place \in Injection(S, 1..n)  BY <1>6, <2>1 DEF Injection, IsInjective
  <2>3. IsFiniteSet(1..n) /\ Cardinality(1..n) = Cardinality(S)  BY <1>1, CountUpTo DEF n
  <2> HIDE DEF n
  <2> QED  BY <2>2, <2>3, FS_Injection
<1>9. \A m \in 1..n : \E x \in S : place[x] = m
  <2> HIDE DEF place
  <2> QED  BY <1>8 DEF Surjection
<1> QED  BY <1>1, <1>3, <1>5, <1>7, <1>9

LEMMA SortedAre ==
  ASSUME NEW S, IsFiniteSet(S), NEW R, Orders(R, S)
  PROVE  /\ Cardinality(S) \in Nat
         /\ Sorted(S, R) \in [1..Cardinality(S) -> S]
         /\ \A m, n \in 1..Cardinality(S) : Sorted(S, R)[m] = Sorted(S, R)[n] => m = n
         /\ \A m, n \in 1..Cardinality(S) : m < n => <<Sorted(S, R)[m], Sorted(S, R)[n]>> \in R
         /\ \A x \in S : \E n \in 1..Cardinality(S) : Sorted(S, R)[n] = x
<1> DEFINE size == Cardinality(S)
           c == Sorted(S, R)
           Place(x) == PlaceIn(S, R, x)
<1>1. /\ size \in Nat /\ \A x \in S : Place(x) \in 1..size
      /\ \A n \in 1..size : \E x \in S : Place(x) = n
      /\ \A x, y \in S : Place(x) = Place(y) => x = y
      /\ \A x, y \in S : Place(x) < Place(y) => <<x, y>> \in R
  BY PlacesAre
<1>2. c = [n \in 1..size |-> CHOOSE x \in S : Place(x) = n]  BY DEF Sorted, PlaceIn
<1> HIDE DEF c, Place, size
<1>3. ASSUME NEW n \in 1..size PROVE c[n] \in S /\ Place(c[n]) = n
  <2>1. c[n] = CHOOSE x \in S : Place(x) = n  BY <1>2
  <2>2. \E x \in S : Place(x) = n  BY <1>1
  <2> QED  BY <2>1, <2>2, Zenon
<1>4. c \in [1..size -> S]
  <2>1. c = [n \in 1..size |-> c[n]]  BY <1>2
  <2> QED  BY <1>3, <2>1
<1>5. ASSUME NEW x \in S PROVE \E n \in 1..size : c[n] = x
  <2>1. Place(x) \in 1..size  BY <1>1
  <2> QED  BY <1>1, <1>3, <2>1
<1>6. \A m, n \in 1..size : c[m] = c[n] => m = n  BY <1>3
<1>7. ASSUME NEW m \in 1..size, NEW n \in 1..size, m < n PROVE <<c[m], c[n]>> \in R
  BY <1>1, <1>3, <1>7
<1> QED  BY <1>1, <1>4, <1>5, <1>6, <1>7 DEF c, size

\* One element precedes all others.
LEMMA FirstIs ==
  ASSUME NEW S, IsFiniteSet(S), S # {}, NEW R, Orders(R, S)
  PROVE  \E x \in S : \A y \in S : x = y \/ <<x, y>> \in R
<1> DEFINE c == Sorted(S, R)
           size == Cardinality(S)
<1>1. /\ size \in Nat /\ c \in [1..size -> S]
      /\ \A m, n \in 1..size : m < n => <<c[m], c[n]>> \in R
      /\ \A x \in S : \E n \in 1..size : c[n] = x
  BY SortedAre
<1> HIDE DEF c, size
<1>2. \E n \in 1..size : TRUE  BY <1>1
<1>3. 1 \in 1..size  BY <1>1, <1>2
<1>4. ASSUME NEW y \in S PROVE c[1] = y \/ <<c[1], y>> \in R
  <2>1. PICK n \in 1..size : c[n] = y  BY <1>1
  <2>2. n = 1 \/ 1 < n  BY <1>1
  <2> QED  BY <1>1, <1>3, <2>1, <2>2
<1> QED  BY <1>1, <1>3, <1>4

\* The least and the greatest of finitely many numbers are among them.
LEMMA LeastIs ==
  ASSUME NEW S, S \subseteq Int, IsFiniteSet(S), S # {}
  PROVE  Least(S) \in S /\ \A y \in S : Least(S) <= y
<1> DEFINE R == {w \in S \X S : w[1] < w[2]}
<1>1. \A x, y \in S : x \in Int /\ y \in Int /\ (<<x, y>> \in R <=> x < y)  OBVIOUS
<1> HIDE DEF R
<1>2. Orders(R, S)  BY <1>1 DEF Orders
<1>3. \E x \in S : \A y \in S : x = y \/ <<x, y>> \in R  BY <1>2, FirstIs
<1>4. \E x \in S : \A y \in S : x <= y
  <2>1. PICK x \in S : \A y \in S : x = y \/ <<x, y>> \in R  BY <1>3
  <2>2. ASSUME NEW y \in S PROVE x <= y
    <3>1. x \in Int /\ y \in Int /\ (<<x, y>> \in R <=> x < y)  BY <1>1
    <3>2. CASE x = y  BY <3>1, <3>2
    <3>3. CASE <<x, y>> \in R  BY <3>1, <3>3
    <3> QED  BY <2>1, <3>2, <3>3
  <2> QED  BY <2>2
<1> QED  BY <1>4, Zenon DEF Least

LEMMA GreatestIs ==
  ASSUME NEW S, S \subseteq Int, IsFiniteSet(S), S # {}
  PROVE  Greatest(S) \in S /\ \A y \in S : y <= Greatest(S)
<1> DEFINE R == {w \in S \X S : w[2] < w[1]}
<1>1. \A x, y \in S : x \in Int /\ y \in Int /\ (<<x, y>> \in R <=> y < x)  OBVIOUS
<1> HIDE DEF R
<1>2. Orders(R, S)  BY <1>1 DEF Orders
<1>3. \E x \in S : \A y \in S : x = y \/ <<x, y>> \in R  BY <1>2, FirstIs
<1>4. \E x \in S : \A y \in S : y <= x
  <2>1. PICK x \in S : \A y \in S : x = y \/ <<x, y>> \in R  BY <1>3
  <2>2. ASSUME NEW y \in S PROVE y <= x
    <3>1. x \in Int /\ y \in Int /\ (<<x, y>> \in R <=> y < x)  BY <1>1
    <3>2. CASE x = y  BY <3>1, <3>2
    <3>3. CASE <<x, y>> \in R  BY <3>1, <3>3
    <3> QED  BY <2>1, <3>2, <3>3
  <2> QED  BY <2>2
<1> QED  BY <1>4, Zenon DEF Greatest

LEMMA PlacesFinite ==
  ASSUME NEW X, NEW s \in Seq(X), NEW P, P \subseteq DOMAIN s
  PROVE  IsFiniteSet(P) /\ P \subseteq Nat
<1>1. Len(s) \in Nat /\ DOMAIN s = 1..Len(s)  OBVIOUS
<1>2. IsFiniteSet(1..Len(s))  BY <1>1, CountUpTo
<1>3. P \in SUBSET (1..Len(s))  BY <1>1
<1>4. IsFiniteSet(P)  BY <1>2, <1>3, FS_Subset
<1> QED  BY <1>1, <1>4

\* What a filter takes, one position after the other.
Picks(s, P, t, at) ==
  /\ at \in [DOMAIN t -> P]
  /\ \A n \in DOMAIN t : t[n] = s[at[n]]
  /\ \A m, n \in DOMAIN t : at[m] = at[n] => m = n
  /\ \A k \in P : \E n \in DOMAIN t : at[n] = k

LEMMA KeptAre ==
  ASSUME NEW X, NEW s \in Seq(X), NEW P, P \subseteq DOMAIN s
  PROVE  Kept(s, P) \in Seq(X) /\ \E at : Picks(s, P, Kept(s, P), at)
<1> DEFINE R == {w \in P \X P : w[1] < w[2]}
           at == Sorted(P, R)
           t == Kept(s, P)
           size == Cardinality(P)
<1>1. IsFiniteSet(P) /\ P \subseteq Nat  BY PlacesFinite
<1>2. \A x, y \in P : x \in Int /\ y \in Int /\ (<<x, y>> \in R <=> x < y)  BY <1>1
<1>3. t = [n \in DOMAIN at |-> s[at[n]]]  BY DEF Kept
<1> HIDE DEF R, t
<1>4. Orders(R, P)  BY <1>2 DEF Orders
<1>5. /\ size \in Nat /\ at \in [1..size -> P]
      /\ \A m, n \in 1..size : at[m] = at[n] => m = n
      /\ \A x \in P : \E n \in 1..size : at[n] = x
  BY <1>1, <1>4, SortedAre
<1> HIDE DEF at, size
<1>6. DOMAIN at = 1..size  BY <1>5
<1>7. \A n \in 1..size : t[n] = s[at[n]] /\ t[n] \in X  BY <1>3, <1>5, <1>6
<1>8. t \in Seq(X) /\ DOMAIN t = 1..size  BY <1>3, <1>5, <1>6, <1>7
<1>9. Picks(s, P, t, at)  BY <1>5, <1>7, <1>8 DEF Picks
<1> QED  BY <1>8, <1>9 DEF t

LEMMA ImageFinite ==
  ASSUME NEW S, IsFiniteSet(S), NEW f, DOMAIN f = S
  PROVE  IsFiniteSet({f[x] : x \in S})
<1> DEFINE T == {f[x] : x \in S}
           g == [x \in S |-> f[x]]
<1>1. g \in [S -> T] /\ \A y \in T : \E x \in S : g[x] = y  OBVIOUS
<1> HIDE DEF T, g
<1>2. g \in Surjection(S, T)  BY <1>1 DEF Surjection
<1>3. IsFiniteSet(T)  BY <1>2, FS_Surjection
<1> QED  BY <1>3 DEF T

-----------------------------------------------------------------------------
(* The board of one project *)

AllNamed(flow) == flow.visible \o flow.active \o flow.terminal

LEMMA NamedAre ==
  ASSUME NEW r \in Registered, Proper(r)
  PROVE  /\ AllNamed(r.flow) \in Seq(Names)
         /\ \A n \in DOMAIN AllNamed(r.flow) : Listed(AllNamed(r.flow)[n])
<1> DEFINE v == r.flow.visible
           a == r.flow.active
           t == r.flow.terminal
<1>1. r.flow \in Flow  BY DEF Registered
<1>2. v \in Seq(Names) /\ a \in Seq(Names) /\ t \in Seq(Names)  BY <1>1 DEF Flow
<1>3. /\ \A n \in DOMAIN v : Listed(v[n])
      /\ \A n \in DOMAIN a : Listed(a[n])
      /\ \A n \in DOMAIN t : Listed(t[n])
  BY DEF Proper
<1> HIDE DEF v, a, t
<1>4. (v \o a) \o t \in Seq(Names)  BY <1>2
<1>5. ASSUME NEW n \in DOMAIN ((v \o a) \o t) PROVE Listed(((v \o a) \o t)[n])
  <2>1. /\ n \in 1..Len(v) => ((v \o a) \o t)[n] = v[n]
        /\ n \in (Len(v) + 1)..(Len(v) + Len(a)) =>
             (n - Len(v)) \in DOMAIN a /\ ((v \o a) \o t)[n] = a[n - Len(v)]
        /\ n \in (Len(v) + Len(a) + 1)..(Len(v) + Len(a) + Len(t)) =>
             (n - Len(v) - Len(a)) \in DOMAIN t /\ ((v \o a) \o t)[n] = t[n - Len(v) - Len(a)]
    BY <1>2
  <2>2. n \in 1..(Len(v) + Len(a) + Len(t)) /\ Len(v) \in Nat /\ Len(a) \in Nat /\ Len(t) \in Nat  BY <1>2, <1>5
  <2>3. CASE n \in 1..Len(v)
    <3>1. n \in DOMAIN v  BY <1>2, <2>3
    <3> QED  BY <1>3, <2>1, <2>3, <3>1
  <2>4. CASE n \in (Len(v) + 1)..(Len(v) + Len(a))
    <3>1. (n - Len(v)) \in DOMAIN a /\ ((v \o a) \o t)[n] = a[n - Len(v)]  BY <2>1, <2>4
    <3> QED  BY <1>3, <3>1
  <2>5. CASE n \in (Len(v) + Len(a) + 1)..(Len(v) + Len(a) + Len(t))
    <3>1. (n - Len(v) - Len(a)) \in DOMAIN t /\ ((v \o a) \o t)[n] = t[n - Len(v) - Len(a)]  BY <2>1, <2>5
    <3> QED  BY <1>3, <3>1
  <2> QED  BY <2>2, <2>3, <2>4, <2>5
<1>6. AllNamed(r.flow) = (v \o a) \o t  BY DEF AllNamed, v, a, t
<1> QED  BY <1>4, <1>5, <1>6

LEMMA DeclaredAre ==
  ASSUME NEW r \in Registered, Proper(r)
  PROVE  /\ Declared(r.flow) \in Seq(Names)
         /\ \A n \in DOMAIN Declared(r.flow) : Listed(Declared(r.flow)[n])
<1> DEFINE all == AllNamed(r.flow)
           P == {n \in DOMAIN all : \A m \in 1..(n - 1) : all[m] # all[n]}
           t == Kept(all, P)
<1>1. all \in Seq(Names) /\ \A n \in DOMAIN all : Listed(all[n])  BY NamedAre
<1>2. Declared(r.flow) = t  BY DEF Declared, AllNamed
<1> HIDE DEF all
<1>3. P \subseteq DOMAIN all  OBVIOUS
<1> HIDE DEF P
<1>4. t \in Seq(Names) /\ \E at : Picks(all, P, t, at)  BY <1>1, <1>3, KeptAre
<1>5. PICK at : Picks(all, P, t, at)  BY <1>4
<1> HIDE DEF t
<1>6. \A n \in DOMAIN t : Listed(t[n])  BY <1>1, <1>3, <1>5 DEF Picks
<1> QED  BY <1>2, <1>4, <1>6

\* The positions of the issues in one state.
InState(r, key) == {i \in DOMAIN r.issues : Normal(r.issues[i].state) = key}

BoardKeys(r) == NamesOf(Declared(r.flow)) \cup {Normal(r.issues[i].state) : i \in DOMAIN r.issues}

IssuesOf(r, key) == Kept(r.issues, InState(r, key))

LEMMA IssuesAre ==
  ASSUME NEW r \in Registered, NEW key
  PROVE  /\ IssuesOf(r, key) \in Seq(BoardIssue)
         /\ \E at : Picks(r.issues, InState(r, key), IssuesOf(r, key), at)
         /\ \A n \in DOMAIN IssuesOf(r, key) : Normal(IssuesOf(r, key)[n].state) = key
<1> DEFINE P == InState(r, key)
           t == IssuesOf(r, key)
<1>1. r.issues \in Seq(BoardIssue) /\ P \subseteq DOMAIN r.issues  BY DEF Registered, InState
<1>2. \A i \in P : Normal(r.issues[i].state) = key  BY DEF InState
<1>3. t = Kept(r.issues, P)  BY DEF IssuesOf
<1> HIDE DEF P, t
<1>4. t \in Seq(BoardIssue) /\ \E at : Picks(r.issues, P, t, at)  BY <1>1, <1>3, KeptAre
<1>5. PICK at : Picks(r.issues, P, t, at)  BY <1>4
<1>6. \A n \in DOMAIN t : Normal(t[n].state) = key  BY <1>2, <1>5 DEF Picks
<1> QED  BY <1>4, <1>6 DEF t, P

LEMMA OrIs ==
  ASSUME NEW v \in Int, NEW d \in Int
  PROVE  Or(v, d) \in Int
BY DEF Or

LEMMA ColumnIs ==
  ASSUME NEW r \in Registered, Proper(r), NEW key \in BoardKeys(r)
  PROVE  LET col == ColumnOf(key, r.flow, r.issues) IN
         /\ col.position \in Int /\ Normal(col.name) = key /\ Listed(col.name)
         /\ col.hidden <=> r.flow.visible # << >> /\ key \notin NamesOf(r.flow.visible)
         /\ col.issues = IssuesOf(r, key)
<1> DEFINE d == Declared(r.flow)
           spelled == {p \in DOMAIN d : Normal(d[p]) = key}
           in == IssuesOf(r, key)
           base == IF spelled = {} THEN MaxInt ELSE Greatest(spelled) - 1
           positions == {base} \cup {Or(in[i].position, base) : i \in DOMAIN in}
           name == IF spelled = {} THEN in[1].state ELSE d[Greatest(spelled)]
           type == IF spelled = {} THEN in[1].type
                   ELSE IF key \in NamesOf(r.flow.terminal) THEN "completed" ELSE "started"
           col == ColumnOf(key, r.flow, r.issues)
<1>1. col = [name |-> name, type |-> type, position |-> Least(positions),
             hidden |-> r.flow.visible # << >> /\ key \notin NamesOf(r.flow.visible), issues |-> in]
  BY DEF ColumnOf, IssuesOf, InState
<1>2. d \in Seq(Names) /\ \A n \in DOMAIN d : Listed(d[n])  BY DeclaredAre
<1>3. /\ in \in Seq(BoardIssue) /\ \A n \in DOMAIN in : Normal(in[n].state) = key
      /\ \E at : Picks(r.issues, InState(r, key), in, at)
  BY IssuesAre
<1>4. key \in NamesOf(d) \/ \E i \in DOMAIN r.issues : Normal(r.issues[i].state) = key  BY DEF BoardKeys
<1> HIDE DEF d, in, col
<1>5. IsFiniteSet(spelled) /\ spelled \subseteq Nat /\ spelled \subseteq DOMAIN d
  <2>1. spelled \subseteq DOMAIN d  OBVIOUS
  <2> HIDE DEF spelled
  <2> QED  BY <1>2, <2>1, PlacesFinite
<1>6. spelled # {} => Greatest(spelled) \in spelled
  <2>1. spelled \subseteq Int  BY <1>5
  <2> HIDE DEF spelled
  <2> QED  BY <1>5, <2>1, GreatestIs
<1>7. Normal(name) = key /\ Listed(name)
  <2>1. CASE spelled = {}
    <3>1. key \notin NamesOf(d)  BY <2>1 DEF NamesOf
    <3>2. PICK i \in DOMAIN r.issues : Normal(r.issues[i].state) = key  BY <1>4, <3>1
    <3>3. PICK at : Picks(r.issues, InState(r, key), in, at)  BY <1>3
    <3>4. i \in InState(r, key)  BY <3>2 DEF InState
    <3>5. \E n \in DOMAIN in : at[n] = i  BY <3>3, <3>4 DEF Picks
    <3>6. 1 \in DOMAIN in  BY <1>3, <3>5
    <3>7. at[1] \in InState(r, key) /\ in[1] = r.issues[at[1]]  BY <3>3, <3>6 DEF Picks
    <3>8. Listed(r.issues[at[1]].state)  BY <3>7 DEF Proper, InState
    <3> QED  BY <1>3, <2>1, <3>6, <3>7, <3>8
  <2>2. CASE spelled # {}
    <3>1. name = d[Greatest(spelled)]  BY <2>2
    <3>2. Greatest(spelled) \in spelled  BY <1>6, <2>2
    <3> QED  BY <1>2, <3>1, <3>2
  <2> QED  BY <2>1, <2>2
<1>8. base \in Int
  <2>1. MaxInt \in Int  BY OverviewConstants
  <2>2. spelled # {} => Greatest(spelled) \in Int  BY <1>5, <1>6
  <2> HIDE DEF spelled
  <2> QED  BY <2>1, <2>2
<1> HIDE DEF spelled, base, name, type
<1>9. positions \subseteq Int /\ IsFiniteSet(positions) /\ positions # {}
  <2> DEFINE f == [i \in DOMAIN in |-> Or(in[i].position, base)]
  <2>1. ASSUME NEW i \in DOMAIN in PROVE in[i].position \in Int
    <3>1. in[i] \in BoardIssue  BY <1>3
    <3> QED  BY <3>1 DEF BoardIssue
  <2>2. \A i \in DOMAIN in : f[i] \in Int  BY <1>8, <2>1, OrIs
  <2>3. DOMAIN f = DOMAIN in /\ positions = {base} \cup {f[i] : i \in DOMAIN in}  OBVIOUS
  <2>4. IsFiniteSet(DOMAIN in)  BY <1>3, PlacesFinite
  <2> HIDE DEF f, positions
  <2>5. IsFiniteSet({f[i] : i \in DOMAIN in})  BY <2>3, <2>4, ImageFinite
  <2>6. IsFiniteSet({f[i] : i \in DOMAIN in} \cup {base})  BY <2>5, FS_AddElement
  <2>7. positions = {f[i] : i \in DOMAIN in} \cup {base}  BY <2>3
  <2> QED  BY <1>8, <2>2, <2>6, <2>7
<1> HIDE DEF positions
<1>10. Least(positions) \in Int  BY <1>9, LeastIs
<1>11. col.position \in Int /\ Normal(col.name) = key /\ Listed(col.name)  BY <1>1, <1>7, <1>10
<1>12. col.hidden <=> r.flow.visible # << >> /\ key \notin NamesOf(r.flow.visible)  BY <1>1
<1>13. col.issues = in  BY <1>1
<1> QED  BY <1>11, <1>12, <1>13 DEF in, col

RankOf(name) == CHOOSE i \in DOMAIN Alphabet : Alphabet[i] = Normal(name)

LEMMA RankIs ==
  ASSUME NEW name, Listed(name)
  PROVE  RankOf(name) \in Nat /\ Alphabet[RankOf(name)] = Normal(name)
<1>1. \E i \in DOMAIN Alphabet : Alphabet[i] = Normal(name)  BY DEF Listed, Normal
<1>2. RankOf(name) \in DOMAIN Alphabet /\ Alphabet[RankOf(name)] = Normal(name)  BY <1>1, Zenon DEF RankOf
<1> QED  BY <1>2, OverviewConstants

ColumnAt(r, key) == ColumnOf(key, r.flow, r.issues)

BoardOrder(r) ==
  {w \in BoardKeys(r) \X BoardKeys(r) :
     \/ ColumnAt(r, w[1]).position < ColumnAt(r, w[2]).position
     \/ /\ ColumnAt(r, w[1]).position = ColumnAt(r, w[2]).position
        /\ Before(ColumnAt(r, w[1]).name, ColumnAt(r, w[2]).name)}

LEMMA BoardOrders ==
  ASSUME NEW r \in Registered, Proper(r)
  PROVE  IsFiniteSet(BoardKeys(r)) /\ Orders(BoardOrder(r), BoardKeys(r))
<1> DEFINE keys == BoardKeys(r)
           d == Declared(r.flow)
           At(key) == ColumnAt(r, key).position
           Rank(key) == RankOf(ColumnAt(r, key).name)
<1>1. d \in Seq(Names) /\ r.issues \in Seq(BoardIssue)  BY DeclaredAre DEF Registered
<1>2. IsFiniteSet(keys)
  <2> DEFINE f == [n \in DOMAIN d |-> Normal(d[n])]
             g == [i \in DOMAIN r.issues |-> Normal(r.issues[i].state)]
             F == {f[n] : n \in DOMAIN d}
             G == {g[i] : i \in DOMAIN r.issues}
  <2>1. DOMAIN f = DOMAIN d /\ DOMAIN g = DOMAIN r.issues /\ keys = F \cup G  BY DEF BoardKeys, NamesOf
  <2>2. IsFiniteSet(DOMAIN d) /\ IsFiniteSet(DOMAIN r.issues)  BY <1>1, PlacesFinite
  <2> HIDE DEF f, g, d
  <2>3. IsFiniteSet(F) /\ IsFiniteSet(G)  BY <2>1, <2>2, ImageFinite
  <2> HIDE DEF F, G, keys
  <2> QED  BY <2>1, <2>3, FS_Union
<1>3. ASSUME NEW key \in keys
      PROVE  At(key) \in Int /\ Rank(key) \in Nat /\ Alphabet[Rank(key)] = key
  <2>1. At(key) \in Int /\ Normal(ColumnAt(r, key).name) = key /\ Listed(ColumnAt(r, key).name)
    BY ColumnIs DEF ColumnAt
  <2> QED  BY <2>1, RankIs
<1>4. \A x, y \in keys :
        <<x, y>> \in BoardOrder(r) <=> At(x) < At(y) \/ (At(x) = At(y) /\ Rank(x) < Rank(y))
  BY DEF BoardOrder, Before, RankOf
<1> HIDE DEF keys, At, Rank
<1>5. \A x \in keys : <<x, x>> \notin BoardOrder(r)  BY <1>3, <1>4
<1>6. ASSUME NEW x \in keys, NEW y \in keys
      PROVE  x = y \/ <<x, y>> \in BoardOrder(r) \/ <<y, x>> \in BoardOrder(r)
  <2>1. Rank(x) = Rank(y) => x = y  BY <1>3
  <2>2. At(x) \in Int /\ At(y) \in Int /\ Rank(x) \in Nat /\ Rank(y) \in Nat  BY <1>3
  <2> QED  BY <1>4, <2>1, <2>2
<1>7. ASSUME NEW x \in keys, NEW y \in keys, NEW z \in keys,
             <<x, y>> \in BoardOrder(r), <<y, z>> \in BoardOrder(r)
      PROVE  <<x, z>> \in BoardOrder(r)
  <2>1. At(x) \in Int /\ At(y) \in Int /\ At(z) \in Int  BY <1>3
  <2>2. Rank(x) \in Nat /\ Rank(y) \in Nat /\ Rank(z) \in Nat  BY <1>3
  <2>3. /\ At(x) < At(y) \/ (At(x) = At(y) /\ Rank(x) < Rank(y))
        /\ At(y) < At(z) \/ (At(y) = At(z) /\ Rank(y) < Rank(z))
    BY <1>4, <1>7
  <2>4. At(x) < At(z) \/ (At(x) = At(z) /\ Rank(x) < Rank(z))  BY <2>1, <2>2, <2>3
  <2> QED  BY <1>4, <2>4
<1>8. Orders(BoardOrder(r), keys)  BY <1>5, <1>6, <1>7 DEF Orders
<1> QED  BY <1>2, <1>8 DEF keys

\* The columns of a board have the keys one after the other.
KeysOf(r) == Sorted(BoardKeys(r), BoardOrder(r))

LEMMA ColumnsAre ==
  ASSUME NEW r \in Registered, Proper(r)
  PROVE  /\ Columns(r.flow, r.issues) = [c \in DOMAIN KeysOf(r) |-> ColumnAt(r, KeysOf(r)[c])]
         /\ DOMAIN KeysOf(r) \subseteq Nat /\ IsFiniteSet(DOMAIN KeysOf(r))
         /\ \A c \in DOMAIN KeysOf(r) : KeysOf(r)[c] \in BoardKeys(r)
         /\ \A c, d \in DOMAIN KeysOf(r) : KeysOf(r)[c] = KeysOf(r)[d] => c = d
         /\ \A key \in BoardKeys(r) : \E c \in DOMAIN KeysOf(r) : KeysOf(r)[c] = key
<1> DEFINE keys == BoardKeys(r)
           column == [key \in keys |-> ColumnOf(key, r.flow, r.issues)]
           Comes(c, d) == c.position < d.position \/ (c.position = d.position /\ Before(c.name, d.name))
           R == {w \in keys \X keys : Comes(column[w[1]], column[w[2]])}
           s == KeysOf(r)
<1>1. Columns(r.flow, r.issues) = [c \in DOMAIN Sorted(keys, R) |-> column[Sorted(keys, R)[c]]]
  BY DEF Columns, BoardKeys
<1>2. \A key \in keys : column[key] = ColumnAt(r, key)  BY DEF ColumnAt
<1>3. R = BoardOrder(r)
  <2>1. \A w \in keys \X keys : column[w[1]] = ColumnAt(r, w[1]) /\ column[w[2]] = ColumnAt(r, w[2])  BY <1>2
  <2> HIDE DEF column
  <2>2. \A w \in keys \X keys : Comes(column[w[1]], column[w[2]]) <=> Comes(ColumnAt(r, w[1]), ColumnAt(r, w[2]))
    BY <2>1
  <2> QED  BY <2>2 DEF BoardOrder
<1>4. /\ Cardinality(keys) \in Nat /\ s \in [1..Cardinality(keys) -> keys]
      /\ \A m, n \in 1..Cardinality(keys) : s[m] = s[n] => m = n
      /\ \A x \in keys : \E n \in 1..Cardinality(keys) : s[n] = x
  BY BoardOrders, SortedAre DEF KeysOf
<1>5. Sorted(keys, R) = s  BY <1>3 DEF KeysOf
<1> HIDE DEF keys, column, R, s
<1>6. IsFiniteSet(1..Cardinality(keys)) /\ DOMAIN s = 1..Cardinality(keys)  BY <1>4, CountUpTo
<1>7. Columns(r.flow, r.issues) = [c \in DOMAIN s |-> ColumnAt(r, s[c])]  BY <1>1, <1>2, <1>4, <1>5
<1> QED  BY <1>4, <1>6, <1>7 DEF keys, s

-----------------------------------------------------------------------------
(* The cells of a board *)

Board(r) == Columns(r.flow, r.issues)

LEMMA BoardIs ==
  ASSUME NEW r \in Registered, Proper(r)
  PROVE  /\ DOMAIN Board(r) \subseteq Nat /\ IsFiniteSet(DOMAIN Board(r))
         /\ \A c \in DOMAIN Board(r) :
              /\ DOMAIN Board(r)[c].issues \subseteq Nat /\ IsFiniteSet(DOMAIN Board(r)[c].issues)
              /\ \A n \in DOMAIN Board(r)[c].issues :
                   LET issue == Board(r)[c].issues[n] IN
                   /\ \E i \in DOMAIN r.issues : issue = r.issues[i]
                   /\ Board(r)[c].hidden <=> r.flow.visible # << >> /\ Normal(issue.state) \notin NamesOf(r.flow.visible)
<1> DEFINE keys == KeysOf(r)
<1>1. /\ Board(r) = [c \in DOMAIN keys |-> ColumnAt(r, keys[c])]
      /\ DOMAIN keys \subseteq Nat /\ IsFiniteSet(DOMAIN keys)
      /\ \A c \in DOMAIN keys : keys[c] \in BoardKeys(r)
  BY ColumnsAre DEF Board
<1> HIDE DEF keys
<1>2. DOMAIN Board(r) = DOMAIN keys  BY <1>1
<1>3. ASSUME NEW c \in DOMAIN Board(r)
      PROVE  /\ Board(r)[c].issues = IssuesOf(r, keys[c])
             /\ Board(r)[c].hidden <=> r.flow.visible # << >> /\ keys[c] \notin NamesOf(r.flow.visible)
  <2>1. keys[c] \in BoardKeys(r) /\ Board(r)[c] = ColumnAt(r, keys[c])  BY <1>1, <1>2
  <2> QED  BY <2>1, ColumnIs DEF ColumnAt
<1>4. ASSUME NEW c \in DOMAIN Board(r)
      PROVE  DOMAIN Board(r)[c].issues \subseteq Nat /\ IsFiniteSet(DOMAIN Board(r)[c].issues)
  <2>1. IssuesOf(r, keys[c]) \in Seq(BoardIssue)  BY IssuesAre
  <2>2. IsFiniteSet(DOMAIN IssuesOf(r, keys[c])) /\ DOMAIN IssuesOf(r, keys[c]) \subseteq Nat  BY <2>1, PlacesFinite
  <2> QED  BY <1>3, <2>2
<1>5. ASSUME NEW c \in DOMAIN Board(r), NEW n \in DOMAIN Board(r)[c].issues
      PROVE  /\ \E i \in DOMAIN r.issues : Board(r)[c].issues[n] = r.issues[i]
             /\ Normal(Board(r)[c].issues[n].state) = keys[c]
  <2> DEFINE t == IssuesOf(r, keys[c])
  <2>1. t = Board(r)[c].issues /\ n \in DOMAIN t  BY <1>3
  <2>2. \E at : Picks(r.issues, InState(r, keys[c]), t, at)  BY IssuesAre
  <2>3. \A k \in DOMAIN t : Normal(t[k].state) = keys[c]  BY IssuesAre
  <2>4. InState(r, keys[c]) \subseteq DOMAIN r.issues  BY DEF InState
  <2> HIDE DEF t
  <2>5. PICK at : Picks(r.issues, InState(r, keys[c]), t, at)  BY <2>2
  <2>6. at[n] \in InState(r, keys[c]) /\ t[n] = r.issues[at[n]]  BY <2>1, <2>5 DEF Picks
  <2>7. at[n] \in DOMAIN r.issues /\ Board(r)[c].issues[n] = r.issues[at[n]]  BY <2>1, <2>4, <2>6
  <2> QED  BY <2>1, <2>3, <2>7
<1> QED  BY <1>1, <1>2, <1>3, <1>4, <1>5

\* Every issue has one cell of its board.
LEMMA CellIs ==
  ASSUME NEW r \in Registered, Proper(r), NEW i \in DOMAIN r.issues
  PROVE  \E c \in DOMAIN Board(r) : \E n \in DOMAIN Board(r)[c].issues :
           /\ Board(r)[c].issues[n] = r.issues[i]
           /\ \A d \in DOMAIN Board(r) : \A m \in DOMAIN Board(r)[d].issues :
                Board(r)[d].issues[m] = r.issues[i] => d = c /\ m = n
<1> DEFINE keys == KeysOf(r)
           key == Normal(r.issues[i].state)
<1>1. /\ Board(r) = [c \in DOMAIN keys |-> ColumnAt(r, keys[c])]
      /\ \A c \in DOMAIN keys : keys[c] \in BoardKeys(r)
      /\ \A c, d \in DOMAIN keys : keys[c] = keys[d] => c = d
      /\ \A k \in BoardKeys(r) : \E c \in DOMAIN keys : keys[c] = k
  BY ColumnsAre DEF Board
<1>2. key \in BoardKeys(r)  BY DEF BoardKeys
<1> HIDE DEF keys, key
<1>3. DOMAIN Board(r) = DOMAIN keys  BY <1>1
<1>4. ASSUME NEW c \in DOMAIN keys PROVE Board(r)[c].issues = IssuesOf(r, keys[c])
  <2>1. keys[c] \in BoardKeys(r) /\ Board(r)[c] = ColumnAt(r, keys[c])  BY <1>1
  <2> QED  BY <2>1, ColumnIs DEF ColumnAt
<1>5. PICK c \in DOMAIN keys : keys[c] = key  BY <1>1, <1>2
<1> DEFINE t == IssuesOf(r, key)
<1>6. Board(r)[c].issues = t  BY <1>4, <1>5
<1>7. \E at : Picks(r.issues, InState(r, key), t, at)  BY IssuesAre
<1>8. \A k \in DOMAIN keys : \A n \in DOMAIN IssuesOf(r, keys[k]) : Normal(IssuesOf(r, keys[k])[n].state) = keys[k]
  BY IssuesAre
<1> HIDE DEF t
<1>9. PICK at : Picks(r.issues, InState(r, key), t, at)  BY <1>7
<1>10. i \in InState(r, key)  BY DEF InState, key
<1>11. PICK n \in DOMAIN t : at[n] = i  BY <1>9, <1>10 DEF Picks
<1>12. t[n] = r.issues[i]  BY <1>9, <1>11 DEF Picks
<1>13. ASSUME NEW d \in DOMAIN keys, NEW m \in DOMAIN Board(r)[d].issues, Board(r)[d].issues[m] = r.issues[i]
       PROVE  d = c /\ m = n
  <2>1. m \in DOMAIN IssuesOf(r, keys[d]) /\ IssuesOf(r, keys[d])[m] = r.issues[i]  BY <1>4, <1>13
  <2>2. keys[d] = key  BY <1>8, <2>1 DEF key
  <2>3. d = c  BY <1>1, <1>5, <2>2
  <2>4. m \in DOMAIN t /\ t[m] = r.issues[i]  BY <1>6, <1>13, <2>3
  <2>5. at[m] \in DOMAIN r.issues /\ r.issues[at[m]] = r.issues[i]  BY <1>9, <2>4 DEF Picks, InState
  <2>6. at[m] = i  BY <2>5 DEF Proper
  <2> QED  BY <1>9, <1>11, <2>3, <2>4, <2>6 DEF Picks
<1>14. Board(r)[c].issues[n] = r.issues[i] /\ n \in DOMAIN Board(r)[c].issues  BY <1>6, <1>12
<1> QED  BY <1>3, <1>5, <1>13, <1>14

-----------------------------------------------------------------------------
(* The projects that run, and the cells of their boards *)

GoodList(projects) ==
  /\ projects \in Seq(Registered)
  /\ \A p, q \in DOMAIN projects : projects[p].id = projects[q].id => p = q
  /\ \A p \in DOMAIN projects : Proper(projects[p])

LEMMA LiveIs ==
  ASSUME NEW projects \in Registries
  PROVE  /\ GoodList(projects) /\ GoodList(Live(projects))
         /\ \A q \in DOMAIN Live(projects) : \E p \in DOMAIN projects :
              Live(projects)[q] = projects[p] /\ projects[p].live
         /\ \A p \in DOMAIN projects : projects[p].live =>
              \E q \in DOMAIN Live(projects) : Live(projects)[q] = projects[p]
<1> DEFINE P == {p \in DOMAIN projects : projects[p].live}
           t == Live(projects)
<1>1. GoodList(projects)
  <2>1. projects \in Seq(Registered)  BY OverviewConstants
  <2> QED  BY <2>1, OverviewConstants DEF GoodList
<1>2. t = Kept(projects, P) /\ P \subseteq DOMAIN projects /\ \A p \in P : projects[p].live  BY DEF Live
<1>3. \A p \in DOMAIN projects : projects[p].live => p \in P  OBVIOUS
<1> HIDE DEF P, t
<1>4. t \in Seq(Registered) /\ \E at : Picks(projects, P, t, at)  BY <1>1, <1>2, KeptAre DEF GoodList
<1>5. PICK at : Picks(projects, P, t, at)  BY <1>4
<1>6. \A n \in DOMAIN t : at[n] \in DOMAIN projects /\ t[n] = projects[at[n]] /\ projects[at[n]].live
  BY <1>2, <1>5 DEF Picks
<1>7. \A m, n \in DOMAIN t : t[m].id = t[n].id => m = n
  <2> SUFFICES ASSUME NEW m \in DOMAIN t, NEW n \in DOMAIN t, t[m].id = t[n].id PROVE m = n  OBVIOUS
  <2>1. at[m] = at[n]  BY <1>1, <1>6 DEF GoodList
  <2> QED  BY <1>5, <2>1 DEF Picks
<1>8. \A n \in DOMAIN t : Proper(t[n])  BY <1>1, <1>6 DEF GoodList
<1>9. GoodList(t)  BY <1>4, <1>7, <1>8 DEF GoodList
<1>10. \A q \in DOMAIN t : \E p \in DOMAIN projects : t[q] = projects[p] /\ projects[p].live  BY <1>6
<1>11. ASSUME NEW p \in DOMAIN projects, projects[p].live PROVE \E q \in DOMAIN t : t[q] = projects[p]
  <2>1. PICK q \in DOMAIN t : at[q] = p  BY <1>3, <1>5, <1>11 DEF Picks
  <2> QED  BY <1>6, <2>1
<1> QED  BY <1>1, <1>9, <1>10, <1>11 DEF t

LEMMA BoardOf ==
  ASSUME NEW list, GoodList(list), NEW p \in DOMAIN list
  PROVE  list[p] \in Registered /\ Proper(list[p]) /\ p \in Nat
BY DEF GoodList

IsCell(list, p, c, n) ==
  p \in DOMAIN list /\ c \in DOMAIN Board(list[p]) /\ n \in DOMAIN Board(list[p])[c].issues

LEMMA CellsAre ==
  ASSUME NEW list, GoodList(list)
  PROVE  /\ IsFiniteSet(DOMAIN Placed(list))
         /\ DOMAIN Placed(list) \subseteq Nat \X Nat \X Nat
         /\ \A w \in DOMAIN Placed(list) :
              IsCell(list, w[1], w[2], w[3]) /\ w = <<w[1], w[2], w[3]>>
         /\ \A p, c, n : IsCell(list, p, c, n) => <<p, c, n>> \in DOMAIN Placed(list)
<1> DEFINE boards == [p \in DOMAIN list |-> Columns(list[p].flow, list[p].issues)]
           Of(p, c) == {<<p, c, n>> : n \in DOMAIN boards[p][c].issues}
           In(p) == UNION {Of(p, c) : c \in DOMAIN boards[p]}
           all == Cells(boards)
<1>1. DOMAIN Placed(list) = all  BY DEF Placed, PlacedFrom
<1>2. all = UNION {In(p) : p \in DOMAIN list}  BY DEF Cells
<1>3. DOMAIN boards = DOMAIN list /\ \A p \in DOMAIN list : boards[p] = Board(list[p])  BY DEF Board
<1> HIDE DEF boards, all
<1>4. ASSUME NEW p \in DOMAIN list, NEW c \in DOMAIN boards[p] PROVE IsFiniteSet(Of(p, c))
  <2> DEFINE cells == DOMAIN boards[p][c].issues
             f == [n \in cells |-> <<p, c, n>>]
  <2>1. IsFiniteSet(cells)  BY <1>3, <1>4, BoardOf, BoardIs
  <2>2. DOMAIN f = cells /\ Of(p, c) = {f[n] : n \in cells}  OBVIOUS
  <2> HIDE DEF f, cells, Of
  <2> QED  BY <2>1, <2>2, ImageFinite
<1>5. ASSUME NEW p \in DOMAIN list PROVE IsFiniteSet(In(p))
  <2> DEFINE f == [c \in DOMAIN boards[p] |-> Of(p, c)]
             F == {f[c] : c \in DOMAIN boards[p]}
  <2>1. IsFiniteSet(DOMAIN boards[p])  BY <1>3, BoardOf, BoardIs
  <2>2. DOMAIN f = DOMAIN boards[p] /\ (\A c \in DOMAIN boards[p] : f[c] = Of(p, c)) /\ In(p) = UNION F  OBVIOUS
  <2> HIDE DEF f, Of, In
  <2>3. IsFiniteSet(F)  BY <2>1, <2>2, ImageFinite
  <2>4. \A T \in F : IsFiniteSet(T)  BY <1>4, <2>2
  <2> HIDE DEF F
  <2>5. IsFiniteSet(UNION F)  BY <2>3, <2>4, FS_UNION
  <2> QED  BY <2>2, <2>5
<1>6. IsFiniteSet(all)
  <2> DEFINE f == [p \in DOMAIN list |-> In(p)]
             F == {f[p] : p \in DOMAIN list}
  <2>1. IsFiniteSet(DOMAIN list)  BY PlacesFinite DEF GoodList
  <2>2. DOMAIN f = DOMAIN list /\ (\A p \in DOMAIN list : f[p] = In(p)) /\ all = UNION F  BY <1>2
  <2> HIDE DEF f, Of, In
  <2>3. IsFiniteSet(F)  BY <2>1, <2>2, ImageFinite
  <2>4. \A T \in F : IsFiniteSet(T)  BY <1>5, <2>2
  <2> HIDE DEF F
  <2>5. IsFiniteSet(UNION F)  BY <2>3, <2>4, FS_UNION
  <2> QED  BY <2>2, <2>5
<1>7. ASSUME NEW w \in all
      PROVE  IsCell(list, w[1], w[2], w[3]) /\ w = <<w[1], w[2], w[3]>> /\ w \in Nat \X Nat \X Nat
  <2>1. PICK p \in DOMAIN list : w \in In(p)  BY <1>2
  <2>2. PICK c \in DOMAIN boards[p] : w \in Of(p, c)  BY <2>1
  <2>3. PICK n \in DOMAIN boards[p][c].issues : w = <<p, c, n>>  BY <2>2
  <2>4. IsCell(list, p, c, n)  BY <1>3, <2>3 DEF IsCell
  <2>5. w[1] = p /\ w[2] = c /\ w[3] = n  BY <2>3
  <2>6. p \in Nat /\ DOMAIN Board(list[p]) \subseteq Nat /\ DOMAIN Board(list[p])[c].issues \subseteq Nat
    BY <1>3, BoardOf, BoardIs
  <2>7. p \in Nat /\ c \in Nat /\ n \in Nat  BY <2>4, <2>6 DEF IsCell
  <2> QED  BY <2>3, <2>4, <2>5, <2>7
<1>8. ASSUME NEW p, NEW c, NEW n, IsCell(list, p, c, n) PROVE <<p, c, n>> \in all
  <2>1. p \in DOMAIN list /\ c \in DOMAIN boards[p] /\ n \in DOMAIN boards[p][c].issues  BY <1>3, <1>8 DEF IsCell
  <2>2. <<p, c, n>> \in Of(p, c)  BY <2>1
  <2>3. <<p, c, n>> \in In(p)  BY <2>1, <2>2
  <2> QED  BY <1>2, <2>1, <2>3
<1> QED  BY <1>1, <1>6, <1>7, <1>8

LEMMA PlacedAt ==
  ASSUME NEW list, GoodList(list), NEW w \in DOMAIN Placed(list)
  PROVE  LET e == Placed(list)[w]
             r == list[w[1]]
         IN /\ w[1] \in DOMAIN list /\ w[2] \in DOMAIN Board(r) /\ w[3] \in DOMAIN Board(r)[w[2]].issues
            /\ e.issue = Board(r)[w[2]].issues[w[3]] /\ e.origin = r.id /\ e.from = Board(r)[w[2]]
            /\ e.name = ColumnName(e.issue, e.from, NamesOf(r.flow.terminal))
            /\ e.issue \in BoardIssue /\ \E i \in DOMAIN r.issues : e.issue = r.issues[i]
            /\ e.from.hidden <=> r.flow.visible # << >> /\ Normal(e.issue.state) \notin NamesOf(r.flow.visible)
<1> DEFINE boards == [p \in DOMAIN list |-> Columns(list[p].flow, list[p].issues)]
           r == list[w[1]]
           e == Placed(list)[w]
           column == boards[w[1]][w[2]]
           issue == column.issues[w[3]]
<1>1. w \in Cells(boards)  BY DEF Placed, PlacedFrom
<1>2. e = [issue |-> issue, origin |-> r.id, from |-> column,
           name |-> ColumnName(issue, column, NamesOf(r.flow.terminal))]
  BY <1>1 DEF Placed, PlacedFrom
<1>3. IsCell(list, w[1], w[2], w[3])  BY CellsAre
<1>4. w[1] \in DOMAIN list /\ boards[w[1]] = Board(r)  BY <1>3 DEF IsCell, Board
<1> HIDE DEF boards, e
<1>5. r \in Registered /\ Proper(r)  BY <1>4, BoardOf
<1>6. e.issue = issue /\ e.origin = r.id /\ e.from = column /\ e.name = ColumnName(e.issue, e.from, NamesOf(r.flow.terminal))
  BY <1>2
<1>7. column = Board(r)[w[2]] /\ issue = Board(r)[w[2]].issues[w[3]]  BY <1>4
<1>8. w[2] \in DOMAIN Board(r) /\ w[3] \in DOMAIN Board(r)[w[2]].issues  BY <1>3 DEF IsCell
<1>9. /\ \E i \in DOMAIN r.issues : issue = r.issues[i]
      /\ column.hidden <=> r.flow.visible # << >> /\ Normal(issue.state) \notin NamesOf(r.flow.visible)
  BY <1>5, <1>7, <1>8, BoardIs
<1>10. issue \in BoardIssue
  <2>1. r.issues \in Seq(BoardIssue)  BY <1>5 DEF Registered
  <2> QED  BY <1>9, <2>1
<1> HIDE DEF column, issue, r
<1> QED  BY <1>4, <1>6, <1>7, <1>8, <1>9, <1>10 DEF e, r

LEMMA PlacedOnce ==
  ASSUME NEW list, GoodList(list), NEW p \in DOMAIN list, NEW i \in DOMAIN list[p].issues
  PROVE  \E w \in DOMAIN Placed(list) : \A v \in DOMAIN Placed(list) :
           Stands(Placed(list)[v], list[p], list[p].issues[i]) <=> v = w
<1> DEFINE r == list[p]
<1>1. r \in Registered /\ Proper(r)  BY BoardOf
<1>2. PICK c \in DOMAIN Board(r) : \E n \in DOMAIN Board(r)[c].issues :
           /\ Board(r)[c].issues[n] = r.issues[i]
           /\ \A d \in DOMAIN Board(r) : \A m \in DOMAIN Board(r)[d].issues :
                Board(r)[d].issues[m] = r.issues[i] => d = c /\ m = n
  <2> HIDE DEF r
  <2> QED  BY <1>1, CellIs DEF r
<1>3. PICK n \in DOMAIN Board(r)[c].issues :
           /\ Board(r)[c].issues[n] = r.issues[i]
           /\ \A d \in DOMAIN Board(r) : \A m \in DOMAIN Board(r)[d].issues :
                Board(r)[d].issues[m] = r.issues[i] => d = c /\ m = n
  BY <1>2
<1> DEFINE w == <<p, c, n>>
<1>4. w \in DOMAIN Placed(list)
  <2>1. IsCell(list, p, c, n)  BY <1>2, <1>3 DEF IsCell
  <2> QED  BY <2>1, CellsAre
<1>5. Stands(Placed(list)[w], r, r.issues[i])
  <2>1. w[1] = p /\ w[2] = c /\ w[3] = n  OBVIOUS
  <2> HIDE DEF w
  <2>2. Placed(list)[w].issue = Board(list[w[1]])[w[2]].issues[w[3]] /\ Placed(list)[w].origin = list[w[1]].id
    BY <1>4, PlacedAt
  <2> QED  BY <1>3, <2>1, <2>2 DEF Stands
<1>6. ASSUME NEW v \in DOMAIN Placed(list), Stands(Placed(list)[v], r, r.issues[i])
      PROVE  v = w
  <2>1. /\ v[1] \in DOMAIN list /\ v[2] \in DOMAIN Board(list[v[1]]) /\ v[3] \in DOMAIN Board(list[v[1]])[v[2]].issues
        /\ Placed(list)[v].issue = Board(list[v[1]])[v[2]].issues[v[3]] /\ Placed(list)[v].origin = list[v[1]].id
    BY PlacedAt
  <2>2. list[v[1]].id = list[p].id  BY <1>6, <2>1 DEF Stands
  <2>3. v[1] = p  BY <2>1, <2>2 DEF GoodList
  <2>4. v[2] = c /\ v[3] = n  BY <1>3, <1>6, <2>1, <2>3 DEF Stands
  <2>5. v = <<v[1], v[2], v[3]>>  BY CellsAre
  <2> QED  BY <2>3, <2>4, <2>5
<1> QED  BY <1>4, <1>5, <1>6

-----------------------------------------------------------------------------
(* The order of the visits, and of the issues of a column *)

VisitOrder(S) == {u \in S \X S : Visited(u[1], u[2])}

LEMMA VisitsOrder ==
  ASSUME NEW S, S \subseteq Nat \X Nat \X Nat
  PROVE  /\ Orders(VisitOrder(S), S)
         /\ \A x \in S : ~Visited(x, x)
         /\ \A x, y \in S : x = y \/ Visited(x, y) \/ Visited(y, x)
         /\ \A x, y, z \in S : Visited(x, y) /\ Visited(y, z) => Visited(x, z)
<1>1. \A x \in S : x[1] \in Nat /\ x[2] \in Nat /\ x[3] \in Nat /\ x = <<x[1], x[2], x[3]>>  OBVIOUS
<1>2. \A x \in S : ~Visited(x, x)  BY <1>1 DEF Visited
<1>3. ASSUME NEW x \in S, NEW y \in S PROVE x = y \/ Visited(x, y) \/ Visited(y, x)
  <2>1. /\ x[1] \in Nat /\ x[2] \in Nat /\ x[3] \in Nat /\ y[1] \in Nat /\ y[2] \in Nat /\ y[3] \in Nat
        /\ x = <<x[1], x[2], x[3]>> /\ y = <<y[1], y[2], y[3]>>
    BY <1>1
  <2>2. \/ x[1] = y[1] /\ x[2] = y[2] /\ x[3] = y[3]
        \/ Visited(x, y) \/ Visited(y, x)
    BY <2>1 DEF Visited
  <2> QED  BY <2>1, <2>2
<1>4. ASSUME NEW x \in S, NEW y \in S, NEW z \in S, Visited(x, y), Visited(y, z) PROVE Visited(x, z)
  <2>1. /\ x[1] \in Nat /\ x[2] \in Nat /\ x[3] \in Nat /\ y[1] \in Nat /\ y[2] \in Nat /\ y[3] \in Nat
        /\ z[1] \in Nat /\ z[2] \in Nat /\ z[3] \in Nat
    BY <1>1
  <2> QED  BY <1>4, <2>1 DEF Visited
<1>5. \A x, y \in S : <<x, y>> \in VisitOrder(S) <=> Visited(x, y)  BY DEF VisitOrder
<1>6. Orders(VisitOrder(S), S)  BY <1>2, <1>3, <1>4, <1>5 DEF Orders
<1> QED  BY <1>2, <1>3, <1>4, <1>6

CardOrder(placed, S) == {u \in S \X S : IssueOrder(placed, u[1], u[2])}

LEMMA CardsOrder ==
  ASSUME NEW list, GoodList(list), NEW S, S \subseteq DOMAIN Placed(list)
  PROVE  IsFiniteSet(S) /\ Orders(CardOrder(Placed(list), S), S)
<1> DEFINE placed == Placed(list)
           P(x) == Or(placed[x].issue.priority, MaxInt)
           N(x) == placed[x].issue.number
           R == CardOrder(placed, S)
<1>1. IsFiniteSet(S) /\ S \subseteq Nat \X Nat \X Nat
  <2>1. IsFiniteSet(DOMAIN placed) /\ DOMAIN placed \subseteq Nat \X Nat \X Nat  BY CellsAre
  <2>2. S \in SUBSET (DOMAIN placed)  OBVIOUS
  <2> HIDE DEF placed
  <2>3. IsFiniteSet(S)  BY <2>1, <2>2, FS_Subset
  <2> QED  BY <2>1, <2>2, <2>3
<1>2. ASSUME NEW x \in S PROVE P(x) \in Int /\ N(x) \in Nat
  <2>1. placed[x].issue \in BoardIssue  BY PlacedAt
  <2>2. placed[x].issue.priority \in Int /\ N(x) \in Nat  BY <2>1 DEF BoardIssue
  <2>3. MaxInt \in Int  BY OverviewConstants
  <2> QED  BY <2>2, <2>3, OrIs
<1>3. \A x, y \in S : <<x, y>> \in R <=>
        P(x) < P(y) \/ (P(x) = P(y) /\ (N(x) < N(y) \/ (N(x) = N(y) /\ Visited(x, y))))
  BY DEF CardOrder, IssueOrder
<1>4. /\ \A x \in S : ~Visited(x, x)
      /\ \A x, y \in S : x = y \/ Visited(x, y) \/ Visited(y, x)
      /\ \A x, y, z \in S : Visited(x, y) /\ Visited(y, z) => Visited(x, z)
  BY <1>1, VisitsOrder
<1> HIDE DEF P, N, R
<1>5. \A x \in S : <<x, x>> \notin R  BY <1>2, <1>3, <1>4
<1>6. \A x, y \in S : x = y \/ <<x, y>> \in R \/ <<y, x>> \in R
  <2> SUFFICES ASSUME NEW x \in S, NEW y \in S PROVE x = y \/ <<x, y>> \in R \/ <<y, x>> \in R  OBVIOUS
  <2>1. P(x) \in Int /\ P(y) \in Int /\ N(x) \in Nat /\ N(y) \in Nat  BY <1>2
  <2>2. x = y \/ Visited(x, y) \/ Visited(y, x)  BY <1>4
  <2> QED  BY <1>3, <2>1, <2>2
<1>7. ASSUME NEW x \in S, NEW y \in S, NEW z \in S, <<x, y>> \in R, <<y, z>> \in R PROVE <<x, z>> \in R
  <2>1. P(x) \in Int /\ P(y) \in Int /\ P(z) \in Int /\ N(x) \in Nat /\ N(y) \in Nat /\ N(z) \in Nat  BY <1>2
  <2>2. Visited(x, y) /\ Visited(y, z) => Visited(x, z)  BY <1>4
  <2>3. /\ P(x) < P(y) \/ (P(x) = P(y) /\ (N(x) < N(y) \/ (N(x) = N(y) /\ Visited(x, y))))
        /\ P(y) < P(z) \/ (P(y) = P(z) /\ (N(y) < N(z) \/ (N(y) = N(z) /\ Visited(y, z))))
    BY <1>3, <1>7
  <2>4. P(x) < P(z) \/ (P(x) = P(z) /\ (N(x) < N(z) \/ (N(x) = N(z) /\ Visited(x, z))))  BY <2>1, <2>2, <2>3
  <2> QED  BY <1>3, <2>4
<1>8. Orders(R, S)  BY <1>5, <1>6, <1>7 DEF Orders
<1> QED  BY <1>1, <1>8 DEF R

\* A column shows the cells of S, each once.
LEMMA ColumnShows ==
  ASSUME NEW list, GoodList(list), NEW S, S \subseteq DOMAIN Placed(list), NEW name, NEW hidden, NEW position
  PROVE  \E at : Picks(Placed(list), S, Column(name, hidden, position, Placed(list), S).issues, at)
<1> DEFINE placed == Placed(list)
           at == Sorted(S, CardOrder(placed, S))
           t == Column(name, hidden, position, placed, S).issues
           size == Cardinality(S)
<1>1. t = [n \in DOMAIN at |-> placed[at[n]]]  BY DEF Column, CardOrder
<1>2. /\ size \in Nat /\ at \in [1..size -> S]
      /\ \A m, n \in 1..size : at[m] = at[n] => m = n
      /\ \A x \in S : \E n \in 1..size : at[n] = x
  BY CardsOrder, SortedAre
<1> HIDE DEF at, t, size, placed
<1>3. DOMAIN at = 1..size /\ DOMAIN t = 1..size  BY <1>1, <1>2
<1>4. \A n \in DOMAIN t : t[n] = placed[at[n]]  BY <1>1, <1>3
<1>5. Picks(placed, S, t, at)  BY <1>2, <1>3, <1>4 DEF Picks
<1> QED  BY <1>5 DEF t, placed

-----------------------------------------------------------------------------
(* The columns of the board of all projects *)

LEMMA CanonicalApart ==
  /\ Len(Canonical) = 9 /\ DOMAIN Canonical = 1..9
  /\ \A c, d \in 1..9 : Canonical[c] = Canonical[d] => c = d
<1>1. Len(Canonical) = 9 /\ DOMAIN Canonical = 1..9  BY DEF Canonical
<1>2. /\ Canonical[1] = "Backlog" /\ Canonical[2] = "Todo" /\ Canonical[3] = "In Progress"
      /\ Canonical[4] = "Human Review" /\ Canonical[5] = "Rework" /\ Canonical[6] = "Merging"
      /\ Canonical[7] = "Done" /\ Canonical[8] = "Canceled" /\ Canonical[9] = "Duplicate"
  BY DEF Canonical
<1>3. \A c \in 1..9 : c = 1 \/ c = 2 \/ c = 3 \/ c = 4 \/ c = 5 \/ c = 6 \/ c = 7 \/ c = 8 \/ c = 9  OBVIOUS
<1>4. ASSUME NEW c \in 1..9, NEW d \in 1..9, Canonical[c] = Canonical[d] PROVE c = d
  BY ONLY <1>2, <1>3, <1>4
<1> QED  BY <1>1, <1>4

FirstsOf(placed) == Sorted(Firsts(placed), VisitOrder(Firsts(placed)))

\* The cells of each column.
CellsOf(placed, c) ==
  IF c <= 9 THEN {w \in DOMAIN placed : placed[w].name = CanonicalName(Canonical[c])}
  ELSE SameState(placed, FirstsOf(placed)[c - 9])

LEMMA FirstsAre ==
  ASSUME NEW list, GoodList(list)
  PROVE  LET placed == Placed(list)
             firsts == FirstsOf(placed)
         IN /\ Len(firsts) \in Nat /\ firsts \in [1..Len(firsts) -> Firsts(placed)]
            /\ \A k, l \in 1..Len(firsts) : firsts[k] = firsts[l] => k = l
            /\ \A w \in Firsts(placed) : \E k \in 1..Len(firsts) : firsts[k] = w
<1> DEFINE placed == Placed(list)
           S == Firsts(placed)
           firsts == FirstsOf(placed)
           size == Cardinality(S)
<1>1. IsFiniteSet(DOMAIN placed) /\ DOMAIN placed \subseteq Nat \X Nat \X Nat  BY CellsAre
<1>2. S \in SUBSET (DOMAIN placed)  BY DEF Firsts, Custom
<1>3. firsts = Sorted(S, VisitOrder(S))  BY DEF FirstsOf
<1> HIDE DEF S, placed, firsts
<1>4. IsFiniteSet(S) /\ Orders(VisitOrder(S), S)  BY <1>1, <1>2, FS_Subset, VisitsOrder
<1>5. /\ size \in Nat /\ firsts \in [1..size -> S]
      /\ \A m, n \in 1..size : firsts[m] = firsts[n] => m = n
      /\ \A x \in S : \E n \in 1..size : firsts[n] = x
  BY <1>3, <1>4, SortedAre
<1> HIDE DEF size
<1>6. Len(firsts) = size  BY <1>5
<1> QED  BY <1>5, <1>6 DEF S, placed, firsts

LEMMA GlobalColumnsAre ==
  ASSUME NEW list, GoodList(list)
  PROVE  LET placed == Placed(list)
             columns == GlobalColumns(list)
             firsts == FirstsOf(placed)
         IN /\ Len(columns) = 9 + Len(firsts) /\ DOMAIN columns = 1..(9 + Len(firsts))
            /\ \A c \in DOMAIN columns :
                 /\ CellsOf(placed, c) \subseteq DOMAIN placed
                 /\ \E at : Picks(placed, CellsOf(placed, c), columns[c].issues, at)
            /\ \A c \in DOMAIN columns : c > 9 =>
                 /\ columns[c].name = placed[firsts[c - 9]].name
                 /\ columns[c].hidden <=> StaysHidden(placed, CellsOf(placed, c))
<1> DEFINE placed == Placed(list)
           columns == GlobalColumns(list)
           firsts == FirstsOf(placed)
<1>1. Len(firsts) \in Nat  BY FirstsAre
<1>2. columns = [c \in 1..(9 + Len(firsts)) |->
                   IF c <= 9 THEN CanonicalColumn(c, placed) ELSE CustomColumn(c - 9, firsts[c - 9], placed)]
  BY CanonicalApart DEF GlobalColumns, ColumnsWith, FirstsOf, VisitOrder
<1> HIDE DEF placed, columns, firsts
<1>3. DOMAIN columns = 1..(9 + Len(firsts)) /\ Len(columns) = 9 + Len(firsts)  BY <1>1, <1>2
<1>4. ASSUME NEW c \in DOMAIN columns
      PROVE  /\ CellsOf(placed, c) \subseteq DOMAIN placed
             /\ \E name, hidden, position :
                  /\ columns[c] = Column(name, hidden, position, placed, CellsOf(placed, c))
                  /\ c > 9 => /\ name = placed[firsts[c - 9]].name
                              /\ hidden = StaysHidden(placed, CellsOf(placed, c))
  <2>1. c \in 1..(9 + Len(firsts)) /\ c \in Nat  BY <1>1, <1>3
  <2>2. CASE c <= 9
    <3>1. columns[c] = CanonicalColumn(c, placed)  BY <1>2, <2>1, <2>2
    <3>2. CellsOf(placed, c) = {w \in DOMAIN placed : placed[w].name = CanonicalName(Canonical[c])}
      BY <2>2 DEF CellsOf
    <3>3. columns[c] = Column(CanonicalName(Canonical[c]), Canonical[c] \notin Shown, c - 1, placed, CellsOf(placed, c))
      BY <3>1, <3>2 DEF CanonicalColumn
    <3>4. ~(c > 9)  BY <2>1, <2>2
    <3> QED  BY <3>2, <3>3, <3>4
  <2>3. CASE ~(c <= 9)
    <3>1. columns[c] = CustomColumn(c - 9, firsts[c - 9], placed)  BY <1>2, <2>1, <2>3
    <3>2. CellsOf(placed, c) = SameState(placed, firsts[c - 9])  BY <2>3 DEF CellsOf, firsts
    <3>3. columns[c] = Column(placed[firsts[c - 9]].name, StaysHidden(placed, CellsOf(placed, c)),
                              Len(Canonical) + (c - 9) - 1, placed, CellsOf(placed, c))
      BY <3>1, <3>2 DEF CustomColumn
    <3>4. CellsOf(placed, c) \subseteq DOMAIN placed  BY <3>2 DEF SameState, Custom
    <3> QED  BY <3>3, <3>4
  <2> QED  BY <2>2, <2>3
<1>5. ASSUME NEW c \in DOMAIN columns
      PROVE  /\ \E at : Picks(placed, CellsOf(placed, c), columns[c].issues, at)
             /\ c > 9 => /\ columns[c].name = placed[firsts[c - 9]].name
                         /\ columns[c].hidden <=> StaysHidden(placed, CellsOf(placed, c))
  <2>1. PICK name, hidden, position :
               /\ columns[c] = Column(name, hidden, position, placed, CellsOf(placed, c))
               /\ c > 9 => /\ name = placed[firsts[c - 9]].name
                           /\ hidden = StaysHidden(placed, CellsOf(placed, c))
    BY <1>4
  <2>2. \E at : Picks(placed, CellsOf(placed, c), columns[c].issues, at)
    BY <1>4, <2>1, ColumnShows DEF placed
  <2>3. columns[c].name = name /\ columns[c].hidden = hidden  BY <2>1 DEF Column
  <2> QED  BY <2>1, <2>2, <2>3
<1> QED  BY <1>3, <1>4, <1>5 DEF placed, columns, firsts

\* The issues of one state, and the first of them.
LEMMA FirstOfState ==
  ASSUME NEW list, GoodList(list), NEW w \in Custom(Placed(list))
  PROVE  \E x \in Firsts(Placed(list)) : SameState(Placed(list), x) = SameState(Placed(list), w)
<1> DEFINE placed == Placed(list)
           S == SameState(placed, w)
<1>1. IsFiniteSet(DOMAIN placed) /\ DOMAIN placed \subseteq Nat \X Nat \X Nat  BY CellsAre
<1>2. /\ S \in SUBSET (DOMAIN placed) /\ S \subseteq Custom(placed) /\ w \in S
      /\ \A v \in S : SameState(placed, v) = S
  BY DEF SameState, Custom
<1> HIDE DEF S, placed
<1>3. IsFiniteSet(S) /\ S # {} /\ S \subseteq Nat \X Nat \X Nat  BY <1>1, <1>2, FS_Subset
<1>4. /\ Orders(VisitOrder(S), S) /\ \A x \in S : ~Visited(x, x)
      /\ \A x, y, z \in S : Visited(x, y) /\ Visited(y, z) => Visited(x, z)
  BY <1>3, VisitsOrder
<1>5. \E x \in S : \A y \in S : x = y \/ <<x, y>> \in VisitOrder(S)  BY <1>3, <1>4, FirstIs
<1>6. PICK x \in S : \A y \in S : x = y \/ <<x, y>> \in VisitOrder(S)  BY <1>5
<1>7. \A y \in S : x = y \/ Visited(x, y)  BY <1>6 DEF VisitOrder
<1>8. \A y \in S : ~Visited(y, x)  BY <1>4, <1>7
<1>9. x \in Custom(placed) /\ SameState(placed, x) = S  BY <1>2
<1>10. x \in Firsts(placed)  BY <1>8, <1>9 DEF Firsts
<1> QED  BY <1>9, <1>10 DEF S, placed

\* A state has one first issue.
LEMMA FirstsApart ==
  ASSUME NEW list, GoodList(list), NEW x \in Firsts(Placed(list)), NEW y \in Firsts(Placed(list)),
         CustomKey(Placed(list)[x].name) = CustomKey(Placed(list)[y].name)
  PROVE  x = y
<1> DEFINE placed == Placed(list)
           S == DOMAIN placed
<1>1. S \subseteq Nat \X Nat \X Nat  BY CellsAre
<1>2. /\ x \in S /\ y \in S /\ x \in SameState(placed, y) /\ y \in SameState(placed, x)
      /\ ~Visited(x, y) /\ ~Visited(y, x)
  BY DEF Firsts, SameState, Custom
<1> HIDE DEF S
<1>3. \A v, w \in S : v = w \/ Visited(v, w) \/ Visited(w, v)  BY <1>1, VisitsOrder
<1> QED  BY <1>2, <1>3

LEMMA OneColumn ==
  ASSUME NEW list, GoodList(list), NEW w \in DOMAIN Placed(list)
  PROVE  \E c \in DOMAIN GlobalColumns(list) : \A d \in DOMAIN GlobalColumns(list) :
           w \in CellsOf(Placed(list), d) <=> d = c
<1> DEFINE placed == Placed(list)
           columns == GlobalColumns(list)
           firsts == FirstsOf(placed)
           name == placed[w].name
<1>1. /\ Len(firsts) \in Nat /\ firsts \in [1..Len(firsts) -> Firsts(placed)]
      /\ \A k, l \in 1..Len(firsts) : firsts[k] = firsts[l] => k = l
      /\ \A x \in Firsts(placed) : \E k \in 1..Len(firsts) : firsts[k] = x
  BY FirstsAre
<1>2. DOMAIN columns = 1..(9 + Len(firsts))  BY GlobalColumnsAre
<1>3. \A d \in DOMAIN columns : d <= 9 => (w \in CellsOf(placed, d) <=> name = CanonicalName(Canonical[d]))
  BY DEF CellsOf
<1>4. \A d \in DOMAIN columns : ~(d <= 9) => CellsOf(placed, d) = SameState(placed, firsts[d - 9])
  BY DEF CellsOf
<1>5. IsCanonical(name) <=> \E c \in 1..9 : name = CanonicalName(Canonical[c])  BY CanonicalApart DEF IsCanonical
<1> HIDE DEF columns, firsts
<1>6. CASE IsCanonical(name)
  <2>1. PICK c \in 1..9 : name = CanonicalName(Canonical[c])  BY <1>5, <1>6
  <2>2. c \in DOMAIN columns /\ c <= 9  BY <1>1, <1>2
  <2>3. ASSUME NEW d \in DOMAIN columns, w \in CellsOf(placed, d) PROVE d = c
    <3>1. d <= 9
      <4>1. w \notin Custom(placed)  BY <1>6 DEF Custom
      <4>2. ~(d <= 9) => w \notin CellsOf(placed, d)  BY <1>4, <4>1 DEF SameState
      <4> QED  BY <2>3, <4>2
    <3>2. d \in 1..9  BY <1>1, <1>2, <3>1
    <3>3. CanonicalName(Canonical[d]) = CanonicalName(Canonical[c])  BY <1>3, <2>1, <2>3, <3>1
    <3>4. CanonicalName(Canonical[d]).words[1] = Canonical[d] /\ CanonicalName(Canonical[c]).words[1] = Canonical[c]
      BY DEF CanonicalName
    <3> QED  BY <3>2, <3>3, <3>4, CanonicalApart
  <2>4. w \in CellsOf(placed, c)  BY <1>3, <2>1, <2>2
  <2> QED  BY <2>2, <2>3, <2>4 DEF columns
<1>7. CASE ~IsCanonical(name)
  <2>1. w \in Custom(placed)  BY <1>7 DEF Custom
  <2>2. PICK x \in Firsts(placed) : SameState(placed, x) = SameState(placed, w)  BY <2>1, FirstOfState
  <2>3. PICK k \in 1..Len(firsts) : firsts[k] = x  BY <1>1
  <2>4. (k + 9) \in DOMAIN columns /\ ~(k + 9 <= 9) /\ (k + 9) - 9 = k  BY <1>1, <1>2
  <2>5. w \in SameState(placed, w)  BY <2>1 DEF SameState
  <2>6. w \in CellsOf(placed, k + 9)
    <3>1. CellsOf(placed, k + 9) = SameState(placed, firsts[(k + 9) - 9])  BY <1>4, <2>4
    <3> QED  BY <2>2, <2>3, <2>4, <2>5, <3>1
  <2>7. ASSUME NEW d \in DOMAIN columns, w \in CellsOf(placed, d) PROVE d = k + 9
    <3>1. ~(d <= 9)
      <4>1. d <= 9 => d \in 1..9  BY <1>1, <1>2
      <4> QED  BY <1>3, <1>5, <1>7, <2>7, <4>1
    <3>2. d - 9 \in 1..Len(firsts) /\ d = (d - 9) + 9  BY <1>1, <1>2, <3>1
    <3>3. w \in SameState(placed, firsts[d - 9])  BY <1>4, <2>7, <3>1
    <3>4. firsts[d - 9] \in Firsts(placed)  BY <1>1, <3>2
    <3>5. CustomKey(placed[firsts[d - 9]].name) = CustomKey(placed[w].name)  BY <3>3 DEF SameState
    <3>6. CustomKey(placed[x].name) = CustomKey(placed[w].name)  BY <2>2, <2>5 DEF SameState
    <3>7. firsts[d - 9] = x  BY <3>4, <3>5, <3>6, FirstsApart
    <3>8. d - 9 = k  BY <1>1, <2>3, <3>2, <3>7
    <3> QED  BY <3>2, <3>8
  <2> QED  BY <2>4, <2>6, <2>7 DEF columns
<1> QED  BY <1>6, <1>7

-----------------------------------------------------------------------------
(* The properties *)

LEMMA IssueOnceHolds ==
  ASSUME NEW projects \in Registries
  PROVE  EveryIssueOnce(projects)
<1> DEFINE live == Live(projects)
           placed == Placed(live)
           columns == GlobalColumns(live)
           cards == UNION {{<<c, n>> : n \in DOMAIN columns[c].issues} : c \in DOMAIN columns}
           Card(w) == columns[w[1]].issues[w[2]]
<1>1. GoodList(live)  BY LiveIs
<1> HIDE DEF live
<1>2. \A c \in DOMAIN columns :
        /\ CellsOf(placed, c) \subseteq DOMAIN placed
        /\ \E at : Picks(placed, CellsOf(placed, c), columns[c].issues, at)
  BY <1>1, GlobalColumnsAre
<1>3. \A w \in DOMAIN placed : \E c \in DOMAIN columns : \A d \in DOMAIN columns : w \in CellsOf(placed, d) <=> d = c
  BY <1>1, OneColumn
<1>4. ASSUME NEW p \in DOMAIN live, NEW i \in DOMAIN live[p].issues
      PROVE  \E w \in DOMAIN placed : \A v \in DOMAIN placed : Stands(placed[v], live[p], live[p].issues[i]) <=> v = w
  BY <1>1, PlacedOnce
<1>5. \A w \in DOMAIN placed : \E p \in DOMAIN live : \E i \in DOMAIN live[p].issues :
        Stands(placed[w], live[p], live[p].issues[i])
  <2> SUFFICES ASSUME NEW w \in DOMAIN placed
               PROVE  \E p \in DOMAIN live : \E i \in DOMAIN live[p].issues : Stands(placed[w], live[p], live[p].issues[i])
    OBVIOUS
  <2>1. /\ w[1] \in DOMAIN live /\ placed[w].origin = live[w[1]].id
        /\ \E i \in DOMAIN live[w[1]].issues : placed[w].issue = live[w[1]].issues[i]
    BY <1>1, PlacedAt
  <2> QED  BY <2>1 DEF Stands
<1>6. \A c, n : <<c, n>> \in cards <=> c \in DOMAIN columns /\ n \in DOMAIN columns[c].issues  OBVIOUS
<1>7. \A u \in cards : u = <<u[1], u[2]>> /\ u[1] \in DOMAIN columns /\ u[2] \in DOMAIN columns[u[1]].issues  OBVIOUS
<1> HIDE DEF placed, columns, cards
<1>8. ASSUME NEW p \in DOMAIN live, NEW i \in DOMAIN live[p].issues
      PROVE  \E u \in cards : \A v \in cards : Stands(Card(v), live[p], live[p].issues[i]) <=> v = u
  <2> DEFINE Here(card) == Stands(card, live[p], live[p].issues[i])
  <2>1. PICK w \in DOMAIN placed : \A v \in DOMAIN placed : Here(placed[v]) <=> v = w  BY <1>4
  <2> HIDE DEF Here
  <2>2. PICK c \in DOMAIN columns : \A d \in DOMAIN columns : w \in CellsOf(placed, d) <=> d = c  BY <1>3
  <2>3. PICK at : Picks(placed, CellsOf(placed, c), columns[c].issues, at)  BY <1>2
  <2>4. PICK n \in DOMAIN columns[c].issues : at[n] = w  BY <2>2, <2>3 DEF Picks
  <2>5. <<c, n>> \in cards  BY <1>6
  <2>6. Here(Card(<<c, n>>))
    <3>1. columns[c].issues[n] = placed[w]  BY <2>3, <2>4 DEF Picks
    <3> QED  BY <2>1, <3>1
  <2>7. ASSUME NEW v \in cards, Here(Card(v)) PROVE v = <<c, n>>
    <3>1. v = <<v[1], v[2]>> /\ v[1] \in DOMAIN columns /\ v[2] \in DOMAIN columns[v[1]].issues  BY <1>7
    <3>2. PICK by : Picks(placed, CellsOf(placed, v[1]), columns[v[1]].issues, by)  BY <1>2, <3>1
    <3>3. by[v[2]] \in CellsOf(placed, v[1]) /\ Card(v) = placed[by[v[2]]]  BY <3>1, <3>2 DEF Picks
    <3>4. by[v[2]] \in DOMAIN placed  BY <1>2, <3>1, <3>3
    <3>5. by[v[2]] = w  BY <2>1, <2>7, <3>3, <3>4
    <3>6. v[1] = c  BY <2>2, <3>1, <3>3, <3>5
    <3>7. v[2] \in DOMAIN columns[c].issues /\ Card(v) = columns[c].issues[v[2]]  BY <3>1, <3>6
    <3>8. at[v[2]] \in DOMAIN placed /\ placed[at[v[2]]] = Card(v)  BY <1>2, <2>3, <3>7 DEF Picks
    <3>9. at[v[2]] = w  BY <2>1, <2>7, <3>8
    <3>10. v[2] = n  BY <2>3, <2>4, <3>7, <3>9 DEF Picks
    <3> QED  BY <3>1, <3>6, <3>10
  <2>8. \A v \in cards : Here(Card(v)) <=> v = <<c, n>>  BY <2>6, <2>7
  <2> QED  BY <2>5, <2>8 DEF Here
<1>9. ASSUME NEW u \in cards
      PROVE  \E p \in DOMAIN live : \E i \in DOMAIN live[p].issues : Stands(Card(u), live[p], live[p].issues[i])
  <2>1. u[1] \in DOMAIN columns /\ u[2] \in DOMAIN columns[u[1]].issues  BY <1>7
  <2>2. PICK at : Picks(placed, CellsOf(placed, u[1]), columns[u[1]].issues, at)  BY <1>2, <2>1
  <2>3. at[u[2]] \in DOMAIN placed /\ Card(u) = placed[at[u[2]]]  BY <1>2, <2>1, <2>2 DEF Picks
  <2> QED  BY <1>5, <2>3
<1> QED  BY <1>8, <1>9 DEF EveryIssueOnce, StandsOnce, live, columns, cards

LEMMA FinishedHolds ==
  ASSUME NEW projects \in Registries
  PROVE  FinishedIsShownFinished(projects)
<1> DEFINE live == Live(projects)
           placed == Placed(live)
           finished == {CanonicalName(c) : c \in {"Done", "Canceled", "Duplicate"}}
<1>1. /\ GoodList(projects) /\ GoodList(live)
      /\ \A q \in DOMAIN live : \E p \in DOMAIN projects : live[q] = projects[p]
  BY LiveIs
<1> HIDE DEF live
<1>2. ASSUME NEW e \in DOMAIN placed, NEW p \in DOMAIN projects, projects[p].id = placed[e].origin,
             Normal(placed[e].issue.state) \in NamesOf(projects[p].flow.terminal)
      PROVE  placed[e].name \in finished
  <2> DEFINE issue == placed[e].issue
             from == placed[e].from
             type == IF issue.type = "" THEN from.type ELSE issue.type
             words == Normal(issue.state)
             terminal == NamesOf(projects[p].flow.terminal)
             hits == {r \in DOMAIN Rules : Applies(Rules[r], words, type, terminal)}
  <2>1. /\ e[1] \in DOMAIN live /\ placed[e].origin = live[e[1]].id
        /\ placed[e].name = ColumnName(issue, from, NamesOf(live[e[1]].flow.terminal))
    BY <1>1, PlacedAt
  <2>2. live[e[1]] = projects[p]
    <3>1. PICK q \in DOMAIN projects : live[e[1]] = projects[q]  BY <1>1, <2>1
    <3>2. q = p  BY <1>1, <1>2, <2>1, <3>1 DEF GoodList
    <3> QED  BY <3>1, <3>2
  <2>3. placed[e].name = ColumnName(issue, from, terminal)  BY <2>1, <2>2
  <2>4. words \in terminal  BY <1>2
  <2> HIDE DEF placed, issue, from, terminal, words
  <2>5. placed[e].name = IF hits = {} THEN issue.state ELSE CanonicalName(Rules[Least(hits)])
    BY <2>3 DEF ColumnName, words
  <2> HIDE DEF type
  <2>6. DOMAIN Rules = 1..9 /\ Rules[1] = "Duplicate" /\ Rules[2] = "Canceled" /\ Rules[3] = "Done"  BY DEF Rules
  <2>7. 3 \in hits
    <3>1. Applies("Done", words, type, terminal)  BY <2>4 DEF Applies, Finished
    <3> QED  BY <2>6, <3>1
  <2>8. hits \subseteq 1..9  BY <2>6
  <2> HIDE DEF hits
  <2>9. IsFiniteSet(hits)
    <3>1. IsFiniteSet(1..9)  BY CountUpTo
    <3> QED  BY <2>8, <3>1, FS_Subset
  <2>10. hits \subseteq Int /\ hits # {}  BY <2>7, <2>8
  <2>11. Least(hits) \in hits /\ Least(hits) <= 3  BY <2>7, <2>9, <2>10, LeastIs
  <2>12. Least(hits) = 1 \/ Least(hits) = 2 \/ Least(hits) = 3
    <3>1. Least(hits) \in 1..9 /\ Least(hits) <= 3  BY <2>8, <2>11
    <3> HIDE DEF hits
    <3>2. \A r \in 1..9 : r <= 3 => r = 1 \/ r = 2 \/ r = 3  OBVIOUS
    <3> QED  BY ONLY <3>1, <3>2
  <2>13. placed[e].name = CanonicalName(Rules[Least(hits)])  BY <2>5, <2>7
  <2> QED  BY <2>6, <2>12, <2>13
<1> QED  BY <1>2 DEF FinishedIsShownFinished, live

LEMMA LeadBackHolds ==
  ASSUME NEW projects \in Registries
  PROVE  KeysLeadBack(projects)
<1> DEFINE live == Live(projects)
<1>1. ASSUME NEW p \in DOMAIN live, NEW i \in DOMAIN live[p].issues
      PROVE  Reached(projects, GlobalKey(live[p].id, SourceKey(live[p].issues[i])))
             = {<<live[p].id, SourceKey(live[p].issues[i])>>}
  <2> DEFINE id == live[p].id
             issue == live[p].issues[i]
             key == GlobalKey(id, SourceKey(issue))
             routes == Routes(projects)
             here == [key |-> key, project |-> id, source |-> SourceKey(issue)]
  <2>1. here \in routes  BY DEF Routes
  <2>2. ASSUME NEW r \in routes, r.key = key PROVE r.project = id /\ r.source = SourceKey(issue)
    <3>1. PICK q \in DOMAIN live : \E j \in DOMAIN live[q].issues :
            r = [key |-> GlobalKey(live[q].id, SourceKey(live[q].issues[j])),
                 project |-> live[q].id, source |-> SourceKey(live[q].issues[j])]
      BY DEF Routes
    <3>2. PICK j \in DOMAIN live[q].issues :
            r = [key |-> GlobalKey(live[q].id, SourceKey(live[q].issues[j])),
                 project |-> live[q].id, source |-> SourceKey(live[q].issues[j])]
      BY <3>1
    <3>3. r.key = <<live[q].id, live[q].issues[j].scope, live[q].issues[j].ref>>  BY <3>2 DEF GlobalKey, SourceKey
    <3>4. key = <<id, issue.scope, issue.ref>>  BY DEF GlobalKey, SourceKey
    <3>5. <<live[q].id, live[q].issues[j].scope, live[q].issues[j].ref>> = <<id, issue.scope, issue.ref>>
      BY <2>2, <3>3, <3>4, Zenon
    <3>6. live[q].id = id /\ live[q].issues[j].scope = issue.scope /\ live[q].issues[j].ref = issue.ref
      <4> HIDE DEF live, id, issue
      <4> QED  BY <3>5
    <3> QED  BY <3>2, <3>6 DEF SourceKey
  <2>3. Reached(projects, key) = {<<r.project, r.source>> : r \in {s \in routes : s.key = key}}  BY DEF Reached
  <2> HIDE DEF routes, key, id, issue
  <2>4. here.key = key /\ here.project = id /\ here.source = SourceKey(issue)  OBVIOUS
  <2> HIDE DEF here
  <2>5. Reached(projects, key) = {<<id, SourceKey(issue)>>}  BY <2>1, <2>2, <2>3, <2>4
  <2> QED  BY <2>5 DEF key, id, issue
<1> QED  BY <1>1 DEF KeysLeadBack

\* An issue with a column of its own is in the column of its state.
LEMMA CustomIs ==
  ASSUME NEW list, GoodList(list), NEW w \in Custom(Placed(list))
  PROVE  Placed(list)[w].name = Placed(list)[w].issue.state
<1> DEFINE e == Placed(list)[w]
           r == list[w[1]]
           terminal == NamesOf(r.flow.terminal)
           type == IF e.issue.type = "" THEN e.from.type ELSE e.issue.type
           hits == {n \in DOMAIN Rules : Applies(Rules[n], Normal(e.issue.state), type, terminal)}
<1>1. w \in DOMAIN Placed(list) /\ ~IsCanonical(e.name)  BY DEF Custom
<1>2. e.name = ColumnName(e.issue, e.from, terminal)  BY <1>1, PlacedAt
<1> HIDE DEF e, terminal
<1>3. e.name = IF hits = {} THEN e.issue.state ELSE CanonicalName(Rules[Least(hits)])  BY <1>2 DEF ColumnName
<1>4. DOMAIN Rules = 1..9 /\ IsFiniteSet(1..9)
  <2>1. IsFiniteSet(1..9)  BY CountUpTo
  <2>2. DOMAIN Rules = 1..9  BY DEF Rules
  <2> QED  BY <2>1, <2>2
<1>5. hits \subseteq 1..9  BY <1>4
<1> HIDE DEF hits
<1>6. ASSUME hits # {} PROVE FALSE
  <2>1. hits \subseteq Int /\ hits \in SUBSET (1..9)  BY <1>5
  <2> HIDE DEF hits
  <2>2. Least(hits) \in 1..9
    <3>1. IsFiniteSet(hits)  BY <1>4, <2>1, FS_Subset
    <3>2. Least(hits) \in hits  BY <1>6, <2>1, <3>1, LeastIs
    <3> QED  BY <1>5, <3>2
  <2>3. \A n \in 1..9 : \E c \in DOMAIN Canonical : Rules[n] = Canonical[c]
    <3>1. /\ Canonical[1] = "Backlog" /\ Canonical[2] = "Todo" /\ Canonical[3] = "In Progress"
          /\ Canonical[4] = "Human Review" /\ Canonical[5] = "Rework" /\ Canonical[6] = "Merging"
          /\ Canonical[7] = "Done" /\ Canonical[8] = "Canceled" /\ Canonical[9] = "Duplicate"
      BY DEF Canonical
    <3>2. /\ Rules[1] = "Duplicate" /\ Rules[2] = "Canceled" /\ Rules[3] = "Done" /\ Rules[4] = "Rework"
          /\ Rules[5] = "Merging" /\ Rules[6] = "Human Review" /\ Rules[7] = "Backlog" /\ Rules[8] = "Todo"
          /\ Rules[9] = "In Progress"
      BY DEF Rules
    <3>3. \A n \in 1..9 : n = 1 \/ n = 2 \/ n = 3 \/ n = 4 \/ n = 5 \/ n = 6 \/ n = 7 \/ n = 8 \/ n = 9  OBVIOUS
    <3>4. \A c \in 1..9 : c \in DOMAIN Canonical  BY CanonicalApart
    <3>5. /\ 1 \in DOMAIN Canonical /\ 2 \in DOMAIN Canonical /\ 3 \in DOMAIN Canonical
          /\ 4 \in DOMAIN Canonical /\ 5 \in DOMAIN Canonical /\ 6 \in DOMAIN Canonical
          /\ 7 \in DOMAIN Canonical /\ 8 \in DOMAIN Canonical /\ 9 \in DOMAIN Canonical
      BY <3>4
    <3> QED  BY ONLY <3>1, <3>2, <3>3, <3>5
  <2>4. PICK c \in DOMAIN Canonical : Rules[Least(hits)] = Canonical[c]  BY <2>2, <2>3
  <2>5. e.name = CanonicalName(Canonical[c])  BY <1>3, <1>6, <2>4
  <2> QED  BY <1>1, <2>5 DEF IsCanonical
<1> QED  BY <1>3, <1>6 DEF e

LEMMA VisibleHolds ==
  ASSUME NEW projects \in Registries
  PROVE  CustomStatesStayVisible(projects)
<1> DEFINE live == Live(projects)
           placed == Placed(live)
           columns == GlobalColumns(live)
           firsts == FirstsOf(placed)
           HiddenAt(p, key) == live[p].flow.visible # << >> /\ key \notin NamesOf(live[p].flow.visible)
           At(c) == firsts[c - 9]
<1>1. GoodList(live)  BY LiveIs
<1> HIDE DEF live
<1>2. /\ DOMAIN columns = 1..(9 + Len(firsts)) /\ Len(columns) = 9 + Len(firsts)
      /\ \A c \in DOMAIN columns :
           /\ CellsOf(placed, c) \subseteq DOMAIN placed
           /\ \E at : Picks(placed, CellsOf(placed, c), columns[c].issues, at)
      /\ \A c \in DOMAIN columns : c > 9 =>
           /\ columns[c].name = placed[At(c)].name
           /\ columns[c].hidden <=> StaysHidden(placed, CellsOf(placed, c))
  BY <1>1, GlobalColumnsAre
<1>3. /\ Len(firsts) \in Nat /\ firsts \in [1..Len(firsts) -> Firsts(placed)]
      /\ \A k, l \in 1..Len(firsts) : firsts[k] = firsts[l] => k = l
  BY <1>1, FirstsAre
<1>4. \A w \in DOMAIN placed :
        /\ w[1] \in DOMAIN live /\ placed[w].origin = live[w[1]].id
        /\ placed[w].from.hidden <=> HiddenAt(w[1], Normal(placed[w].issue.state))
  BY <1>1, PlacedAt
<1>5. \A w \in Custom(placed) : placed[w].name = placed[w].issue.state  BY <1>1, CustomIs
<1>6. \A x, y \in Firsts(placed) : CustomKey(placed[x].name) = CustomKey(placed[y].name) => x = y
  BY <1>1, FirstsApart
<1>7. \A p, q \in DOMAIN live : live[p].id = live[q].id => p = q  BY <1>1 DEF GoodList
<1> HIDE DEF columns, firsts, placed
<1>8. ASSUME NEW c \in (Len(Canonical) + 1)..Len(columns)
      PROVE  /\ c \in DOMAIN columns /\ c > 9 /\ c \in Nat
             /\ c - 9 \in 1..Len(firsts) /\ At(c) \in Firsts(placed)
             /\ columns[c].name = placed[At(c)].name
  <2>1. c \in DOMAIN columns /\ c > 9 /\ c \in Nat /\ c - 9 \in 1..Len(firsts)  BY <1>2, <1>3, CanonicalApart
  <2> QED  BY <1>2, <1>3, <2>1
<1>9. ASSUME NEW c \in (Len(Canonical) + 1)..Len(columns), NEW d \in (Len(Canonical) + 1)..Len(columns),
             Normal(columns[c].name) = Normal(columns[d].name)
      PROVE  c = d
  <2>1. CustomKey(placed[At(c)].name) = CustomKey(placed[At(d)].name)  BY <1>8, <1>9 DEF CustomKey
  <2>2. At(c) = At(d)  BY <1>6, <1>8, <2>1
  <2>3. c - 9 \in 1..Len(firsts) /\ d - 9 \in 1..Len(firsts) /\ c \in Nat /\ d \in Nat  BY <1>8
  <2>4. c - 9 = d - 9  BY <1>3, <2>2, <2>3
  <2> QED  BY <2>3, <2>4
<1>10. ASSUME NEW c \in (Len(Canonical) + 1)..Len(columns)
       PROVE  columns[c].hidden <=>
                \A p \in DOMAIN live :
                  HiddenAt(p, Normal(columns[c].name))
                  \/ \A e \in DOMAIN columns[c].issues : columns[c].issues[e].origin # live[p].id
  <2> DEFINE cells == CellsOf(placed, c)
             key == Normal(columns[c].name)
             cards == columns[c].issues
  <2>1. c \in DOMAIN columns /\ c > 9 /\ c \in Nat /\ columns[c].name = placed[At(c)].name  BY <1>8
  <2>2. cells = SameState(placed, At(c))  BY <2>1 DEF CellsOf, firsts
  <2>3. PICK at : Picks(placed, cells, cards, at)  BY <1>2, <2>1
  <2>4. columns[c].hidden <=> \A w \in cells : placed[w].from.hidden  BY <1>2, <2>1 DEF StaysHidden
  <2>5. cells \subseteq DOMAIN placed  BY <1>2, <2>1
  <2>6. ASSUME NEW w \in cells
        PROVE  /\ placed[w].from.hidden <=> HiddenAt(w[1], key)
               /\ w[1] \in DOMAIN live /\ placed[w].origin = live[w[1]].id
    <3>1. w \in Custom(placed) /\ CustomKey(placed[w].name) = CustomKey(placed[At(c)].name)  BY <2>2 DEF SameState
    <3>2. Normal(placed[w].issue.state) = key  BY <1>5, <2>1, <3>1 DEF CustomKey
    <3>3. w \in DOMAIN placed  BY <2>5
    <3> HIDE DEF cells, key, HiddenAt
    <3> QED  BY <1>4, <3>2, <3>3
  <2> HIDE DEF cells, key, cards, HiddenAt
  <2>7. ASSUME columns[c].hidden, NEW p \in DOMAIN live, NEW e \in DOMAIN cards, cards[e].origin = live[p].id
        PROVE  HiddenAt(p, key)
    <3>1. at[e] \in cells /\ cards[e] = placed[at[e]]  BY <2>3 DEF Picks
    <3>2. placed[at[e]].from.hidden /\ at[e][1] \in DOMAIN live /\ live[at[e][1]].id = live[p].id
      BY <2>4, <2>6, <2>7, <3>1
    <3>3. at[e][1] = p  BY <1>7, <3>2
    <3> QED  BY <2>6, <3>1, <3>2, <3>3
  <2>8. ASSUME NEW w \in cells,
               \A p \in DOMAIN live : HiddenAt(p, key) \/ \A e \in DOMAIN cards : cards[e].origin # live[p].id
        PROVE  placed[w].from.hidden
    <3>1. PICK e \in DOMAIN cards : at[e] = w  BY <2>3 DEF Picks
    <3>2. cards[e] = placed[w]  BY <2>3, <3>1 DEF Picks
    <3>3. w[1] \in DOMAIN live /\ cards[e].origin = live[w[1]].id  BY <2>6, <3>2
    <3>4. HiddenAt(w[1], key)  BY <2>8, <3>3
    <3> QED  BY <2>6, <3>4
  <2>9. columns[c].hidden <=>
          \A p \in DOMAIN live : HiddenAt(p, key) \/ \A e \in DOMAIN cards : cards[e].origin # live[p].id
    BY <2>4, <2>7, <2>8
  <2> QED  BY <2>9 DEF cards, key
<1>11. \A c \in (Len(Canonical) + 1)..Len(columns) :
         /\ \A d \in (Len(Canonical) + 1)..Len(columns) : Normal(columns[c].name) = Normal(columns[d].name) => c = d
         /\ columns[c].hidden <=>
              \A p \in DOMAIN live :
                HiddenAt(p, Normal(columns[c].name))
                \/ \A e \in DOMAIN columns[c].issues : columns[c].issues[e].origin # live[p].id
  BY <1>9, <1>10
<1> QED  BY <1>11 DEF CustomStatesStayVisible, VisibleWhereExposed, live, columns

-----------------------------------------------------------------------------
(* What needs attention *)

LEMMA WaitingCounted ==
  ASSUME NEW list, GoodList(list),
         NEW waiting, waiting = UNION {{<<p, n>> : n \in {m \in DOMAIN list[p].runtime :
                                          list[p].runtime[m].phase \in {"retrying", "blocked"}}} : p \in DOMAIN list},
         NEW keys, keys = {w.key : w \in {v \in GlobalRuntime(list) : v.phase \in {"retrying", "blocked"}}}
  PROVE  Cardinality(keys) = Cardinality(waiting)
<1> DEFINE View(p, n) == list[p].runtime[n]
           Wait(p, n) == p \in DOMAIN list /\ n \in DOMAIN list[p].runtime /\ View(p, n).phase \in {"retrying", "blocked"}
           KeyOf(u) == GlobalKey(list[u[1]].id, View(u[1], u[2]).key)
           f == [u \in waiting |-> KeyOf(u)]
<1>1. \A p, n : Wait(p, n) => <<p, n>> \in waiting  OBVIOUS
<1>2. \A u \in waiting : Wait(u[1], u[2]) /\ u = <<u[1], u[2]>>  OBVIOUS
<1>3. ASSUME NEW p \in DOMAIN list, NEW n \in DOMAIN list[p].runtime
      PROVE  View(p, n).key \in STRING \X Nat
  <2>1. list[p] \in Registered  BY BoardOf
  <2>2. list[p].runtime \in Seq([key : STRING \X Nat, phase : STRING])  BY <2>1 DEF Registered
  <2>3. View(p, n) \in [key : STRING \X Nat, phase : STRING]
    <3> DEFINE V == [key : STRING \X Nat, phase : STRING]
    <3> HIDE DEF V
    <3>1. list[p].runtime \in Seq(V)  BY <2>2 DEF V
    <3>2. View(p, n) \in V  BY <3>1
    <3> QED  BY <3>2 DEF V
  <2> QED  BY <2>3
<1>4. \A u \in waiting : KeyOf(u) \in keys
  <2> SUFFICES ASSUME NEW u \in waiting PROVE KeyOf(u) \in keys  OBVIOUS
  <2> DEFINE v == [key |-> KeyOf(u), phase |-> View(u[1], u[2]).phase, origin |-> list[u[1]].id]
  <2>1. Wait(u[1], u[2])  BY <1>2
  <2>2. v \in GlobalRuntime(list)  BY <2>1 DEF GlobalRuntime
  <2>3. v.key = KeyOf(u) /\ v.phase \in {"retrying", "blocked"}  BY <2>1
  <2> HIDE DEF v, KeyOf
  <2> QED  BY <2>2, <2>3
<1>5. \A k \in keys : \E u \in waiting : KeyOf(u) = k
  <2> SUFFICES ASSUME NEW k \in keys PROVE \E u \in waiting : KeyOf(u) = k  OBVIOUS
  <2>1. PICK v \in GlobalRuntime(list) : v.key = k /\ v.phase \in {"retrying", "blocked"}  OBVIOUS
  <2>2. PICK p \in DOMAIN list : \E n \in DOMAIN list[p].runtime :
          v = [key |-> GlobalKey(list[p].id, list[p].runtime[n].key), phase |-> list[p].runtime[n].phase, origin |-> list[p].id]
    BY <2>1 DEF GlobalRuntime
  <2>3. PICK n \in DOMAIN list[p].runtime :
          v = [key |-> GlobalKey(list[p].id, list[p].runtime[n].key), phase |-> list[p].runtime[n].phase, origin |-> list[p].id]
    BY <2>2
  <2>4. Wait(p, n)  BY <2>1, <2>3
  <2>5. KeyOf(<<p, n>>) = k  BY <2>1, <2>3
  <2>6. <<p, n>> \in waiting  BY <1>1, <2>4
  <2> QED  BY <2>5, <2>6
<1>6. ASSUME NEW u \in waiting, NEW v \in waiting, KeyOf(u) = KeyOf(v) PROVE u = v
  <2>1. Wait(u[1], u[2]) /\ Wait(v[1], v[2]) /\ u = <<u[1], u[2]>> /\ v = <<v[1], v[2]>>  BY <1>2
  <2> DEFINE k == View(u[1], u[2]).key
             l == View(v[1], v[2]).key
  <2>2. k \in STRING \X Nat /\ l \in STRING \X Nat  BY <1>3, <2>1
  <2>3. <<list[u[1]].id, k[1], k[2]>> = <<list[v[1]].id, l[1], l[2]>>  BY <1>6 DEF GlobalKey
  <2> HIDE DEF k, l
  <2>4. list[u[1]].id = list[v[1]].id /\ k[1] = l[1] /\ k[2] = l[2]  BY <2>3
  <2>5. u[1] = v[1]  BY <2>1, <2>4 DEF GoodList
  <2>6. k = l  BY <2>2, <2>4
  <2>7. u[2] = v[2]  BY <2>1, <2>5, <2>6 DEF GoodList, Proper, k, l
  <2> QED  BY <2>1, <2>5, <2>7
<1>7. IsFiniteSet(waiting)
  <2> DEFINE In(p) == {<<p, n>> : n \in {m \in DOMAIN list[p].runtime : View(p, m).phase \in {"retrying", "blocked"}}}
             g == [p \in DOMAIN list |-> In(p)]
             F == {g[p] : p \in DOMAIN list}
  <2>1. waiting = UNION F /\ DOMAIN g = DOMAIN list /\ \A p \in DOMAIN list : g[p] = In(p)  OBVIOUS
  <2>2. IsFiniteSet(DOMAIN list)  BY PlacesFinite DEF GoodList
  <2>3. ASSUME NEW p \in DOMAIN list PROVE IsFiniteSet(In(p))
    <3> DEFINE P == {m \in DOMAIN list[p].runtime : View(p, m).phase \in {"retrying", "blocked"}}
               h == [n \in P |-> <<p, n>>]
    <3>1. list[p].runtime \in Seq([key : STRING \X Nat, phase : STRING])  BY BoardOf DEF Registered
    <3>2. IsFiniteSet(P)
      <4>1. P \subseteq DOMAIN list[p].runtime  OBVIOUS
      <4> HIDE DEF P
      <4> QED  BY <3>1, <4>1, PlacesFinite
    <3>3. DOMAIN h = P /\ In(p) = {h[n] : n \in P}  OBVIOUS
    <3> HIDE DEF P, h, In
    <3> QED  BY <3>2, <3>3, ImageFinite
  <2> HIDE DEF g, In
  <2>4. IsFiniteSet(F)  BY <2>1, <2>2, ImageFinite
  <2>5. \A T \in F : IsFiniteSet(T)  BY <2>1, <2>3
  <2> HIDE DEF F
  <2> QED  BY <2>1, <2>4, <2>5, FS_UNION
<1> HIDE DEF KeyOf
<1>8. f \in [waiting -> keys] /\ (\A u \in waiting : f[u] = KeyOf(u))  BY <1>4
<1> HIDE DEF f
<1>9. f \in Injection(waiting, keys) /\ f \in Surjection(waiting, keys)
  <2>1. \A u, v \in waiting : f[u] = f[v] => u = v  BY <1>6, <1>8
  <2>2. \A k \in keys : \E u \in waiting : f[u] = k  BY <1>5, <1>8
  <2> QED  BY <1>8, <2>1, <2>2 DEF Injection, IsInjective, Surjection
<1> QED  BY <1>7, <1>9, FS_Surjection

LEMMA StaleIs ==
  ASSUME NEW projects \in Registries, NEW now \in Nat
  PROVE  LET live == Live(projects)
             refreshed == {p \in DOMAIN live : live[p].refreshed # Undefined}
         IN Stale(projects, now) <=> refreshed # {} /\ \A p \in refreshed : live[p].refreshed + StaleAfter < now
<1> DEFINE live == Live(projects)
           T == {live[p].refreshed : p \in DOMAIN live} \cup {Undefined}
           g == Greatest(T)
           refreshed == {p \in DOMAIN live : live[p].refreshed # Undefined}
<1>1. GoodList(live)  BY LiveIs
<1>2. Stale(projects, now) <=> g # Undefined /\ now - g > StaleAfter  BY DEF Stale, LastRefresh
<1> HIDE DEF live
<1>3. \A p \in DOMAIN live : live[p].refreshed \in Nat \cup {Undefined}
  <2> SUFFICES ASSUME NEW p \in DOMAIN live PROVE live[p].refreshed \in Nat \cup {Undefined}  OBVIOUS
  <2>1. live[p] \in Registered  BY <1>1, BoardOf
  <2> QED  BY <2>1 DEF Registered
<1>4. T \subseteq Int /\ T # {} /\ IsFiniteSet(T)
  <2> DEFINE f == [p \in DOMAIN live |-> live[p].refreshed]
             F == {f[p] : p \in DOMAIN live}
  <2>1. T = F \cup {Undefined} /\ DOMAIN f = DOMAIN live  OBVIOUS
  <2>2. IsFiniteSet(DOMAIN live)  BY <1>1, PlacesFinite DEF GoodList
  <2>3. T \subseteq Int  BY <1>3 DEF Undefined
  <2> HIDE DEF f, T
  <2>4. IsFiniteSet(F)  BY <2>1, <2>2, ImageFinite
  <2> HIDE DEF F
  <2> QED  BY <2>1, <2>3, <2>4, FS_AddElement
<1>5. g \in T /\ \A y \in T : y <= g
  <2> HIDE DEF T
  <2> QED  BY <1>4, GreatestIs
<1> HIDE DEF g
<1>6. StaleAfter \in Nat /\ Undefined = -1  BY OverviewConstants DEF Undefined
<1>7. g \in Int /\ \A p \in DOMAIN live : live[p].refreshed <= g  BY <1>4, <1>5
<1>8. g # Undefined => \E p \in refreshed : live[p].refreshed = g  BY <1>5
<1>9. ASSUME g # Undefined, now - g > StaleAfter
      PROVE  refreshed # {} /\ \A p \in refreshed : live[p].refreshed + StaleAfter < now
  <2>1. refreshed # {}  BY <1>8, <1>9
  <2>2. ASSUME NEW p \in refreshed PROVE live[p].refreshed + StaleAfter < now
    <3>1. live[p].refreshed \in Nat /\ live[p].refreshed <= g  BY <1>3, <1>7
    <3> QED  BY <1>6, <1>7, <1>9, <3>1
  <2> QED  BY <2>1, <2>2
<1>10. ASSUME NEW p \in refreshed, \A q \in refreshed : live[q].refreshed + StaleAfter < now
       PROVE  g # Undefined /\ now - g > StaleAfter
  <2>1. live[p].refreshed \in Nat /\ live[p].refreshed <= g  BY <1>3, <1>7
  <2>2. g # Undefined  BY <1>6, <1>7, <2>1
  <2>3. PICK q \in refreshed : live[q].refreshed = g  BY <1>8, <2>2
  <2>4. g + StaleAfter < now  BY <1>10, <2>3
  <2> QED  BY <1>6, <1>7, <2>2, <2>4
<1>11. Stale(projects, now) <=> refreshed # {} /\ \A p \in refreshed : live[p].refreshed + StaleAfter < now
  BY <1>2, <1>9, <1>10
<1> QED  BY <1>11 DEF live

LEMMA AttentionHolds ==
  ASSUME NEW projects \in Registries, NEW now \in Nat
  PROVE  AttentionIsComplete(projects, now)
<1> DEFINE live == Live(projects)
           waiting == UNION {{<<p, n>> : n \in {m \in DOMAIN live[p].runtime :
                                live[p].runtime[m].phase \in {"retrying", "blocked"}}} : p \in DOMAIN live}
           refreshed == {p \in DOMAIN live : live[p].refreshed # Undefined}
           broken == {p \in DOMAIN projects :
                        IF projects[p].context THEN projects[p].error \/ ~projects[p].definition
                        ELSE projects[p].remembered = "invalid"}
           old == refreshed # {} /\ \A p \in refreshed : live[p].refreshed + StaleAfter < now
<1>1. /\ GoodList(projects) /\ GoodList(live)
      /\ \A q \in DOMAIN live : \E p \in DOMAIN projects : live[q] = projects[p] /\ projects[p].live
      /\ \A p \in DOMAIN projects : projects[p].live => \E q \in DOMAIN live : live[q] = projects[p]
  BY LiveIs
<1>2. Cardinality(IssueKeys(projects)) = Cardinality(waiting)
  <2>1. IssueKeys(projects) = {w.key : w \in {v \in GlobalRuntime(live) : v.phase \in {"retrying", "blocked"}}}
    BY DEF IssueKeys
  <2> HIDE DEF live
  <2> QED  BY <1>1, <2>1, WaitingCounted
<1>3. Invalid(projects) = broken
  <2>1. ASSUME NEW p \in DOMAIN projects
        PROVE  ConfigurationState(projects[p]) = "invalid"
               <=> IF projects[p].context THEN projects[p].error \/ ~projects[p].definition
                   ELSE projects[p].remembered = "invalid"
    <3>1. CASE projects[p].context  BY <3>1 DEF ConfigurationState
    <3>2. CASE ~projects[p].context  BY <3>2 DEF ConfigurationState
    <3> QED  BY <3>1, <3>2
  <2> QED  BY <2>1 DEF Invalid
<1>4. Failing(projects) <=> \E p \in DOMAIN live : live[p].failed
  <2> HIDE DEF live
  <2> QED  BY <1>1 DEF Failing
<1>5. Stale(projects, now) <=> old  BY StaleIs
<1> HIDE DEF waiting, broken, old, refreshed
<1>6. AttentionCount(projects, now)
        = Cardinality(waiting) + Cardinality(broken)
          + (IF \E p \in DOMAIN live : live[p].failed THEN 1 ELSE 0) + (IF old THEN 1 ELSE 0)
  BY <1>2, <1>3, <1>4, <1>5, Zenon DEF AttentionCount
<1> QED  BY <1>6 DEF AttentionIsComplete, waiting, broken, old, refreshed

\* What is shown of all projects.
LEMMA OverviewHolds == OverviewInv
<1> SUFFICES ASSUME NEW projects \in Registries
             PROVE  /\ EveryIssueOnce(projects) /\ FinishedIsShownFinished(projects)
                    /\ CustomStatesStayVisible(projects) /\ KeysLeadBack(projects)
                    /\ AttentionIsComplete(projects, Now)
  BY DEF OverviewInv
<1>1. Now \in Nat  BY OverviewConstants
<1> QED  BY <1>1, IssueOnceHolds, FinishedHolds, VisibleHolds, LeadBackHolds, AttentionHolds

(* What the browser shows: its own state, as above, and the board of all projects, on which every issue stands    *)
(* once, a finished one in a column of finished issues, no state is hidden that a project shows, a key leads back *)
(* to its project, and the count of attention misses nothing (buildColumns, aggregateProjectSnapshots,            *)
(* globalSnapshot, buildAttentionSummary).                                                                        *)
THEOREM BoardInvHolds == Spec => []BoardInv
<1>1. ClientIInv => BoardInv
  BY ClientImplies, OverviewHolds DEF BoardInv
<1> QED
  BY <1>1, InitHolds, NextKeeps, PTL DEF Spec
=============================================================================
