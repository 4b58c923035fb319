-------------------------- MODULE MemoryView_proofs --------------------------
(***************************************************************************)
(* Proofs about ProjectMemory, ProjectArtifacts, MemoryView and            *)
(* MemoryRetrieval: for any projects, titles, callers and entries of       *)
(* before, and any tables, requests, rooms and candidates.                 *)
(*                                                                         *)
(* The inductive invariant says what a call that waits for its write still *)
(* knows: the entry its user saw is an earlier state of the one in the     *)
(* table, or the same; and what the browser shows or is about to show was  *)
(* read after the last change made in it.  Retrieval has no behaviours:    *)
(* its proofs are about places in an order, filters and sums.              *)
(***************************************************************************)
EXTENDS MemoryView, Integers, FiniteSetTheorems, SequenceTheorems, WellFoundedInduction, TLAPS

-----------------------------------------------------------------------------
(* Entries and calls *)

\* What e may have become.
Becomes(e, f) ==
  /\ f.project = e.project /\ f.supersedes = e.supersedes /\ f.run = e.run
  /\ f.version >= e.version /\ (f.version = e.version => f = e)
  /\ e.status = "superseded" => f.status = "superseded" /\ f.title = e.title

\* What has been seen of entry i: it has become what is in the table.
Seen(table, i, e) == i \in DOMAIN table /\ e \in Entry /\ Becomes(e, table[i])

Todos == {<<>>, <<"put">>, <<"put", "mark">>, <<"mark">>, <<"update">>, <<"status">>}

Frames == [todo : Todos, id : Nat, title : Titles \cup {None}, project : Projects \cup {None}, run : BOOLEAN,
           seen : Entry \cup {None}, to : Statuses \cup {None}]

Changes == {<<"update">>, <<"status">>}

\* A call and the entry it is about.
FrameRight(table, f) ==
  /\ f.todo = <<>> => f = Off
  /\ f.id \in DOMAIN table \cup {0}
  /\ f.todo \in {<<"put">>, <<"put", "mark">>} => f.title \in Titles /\ f.project \in Projects
  /\ f.todo = <<"put">> => f.id = 0
  /\ f.todo \in {<<"put", "mark">>, <<"mark">>} => f.id \in DOMAIN table
  /\ f.todo = <<"mark">> => \E j \in DOMAIN table : table[j].supersedes = f.id
  /\ f.todo \in Changes =>
       /\ Seen(table, f.id, f.seen)
       /\ f.seen.version = table[f.id].version => table[f.id].status # "superseded"
  /\ f.todo = <<"update">> => f.to = None /\ f.title \in Titles
  /\ f.todo = <<"status">> => f.to \in Statuses

MemoryTyped ==
  /\ memory \in Seq(Entry) /\ \A i \in Ids : memory[i].supersedes \in 0..(i - 1)
  /\ frame \in [Writers -> Frames]
  /\ retired \subseteq Ids /\ cut \subseteq Ids

FramesRight == \A w \in Writers : FrameRight(memory, frame[w])

\* SupersessionComplete, in terms of what is left to write.
Marks(calls, t) == \E w \in Writers : calls[w].todo = <<"mark">> /\ calls[w].id = t
Complete ==
  \A i \in Ids \ cut :
    memory[i].supersedes # 0 => memory[memory[i].supersedes].status = "superseded" \/ Marks(frame, memory[i].supersedes)

MemoryIInv == MemoryTyped /\ FramesRight /\ Complete /\ SuccessorKept

LEMMA OffFrame == Off \in Frames /\ Off.todo = <<>> /\ Off.id = 0
  BY DEF Off, Frames, Todos

\* No two of the things that may be left are the same.
LEMMA TodosApart ==
  /\ <<>> \notin {<<"put">>, <<"put", "mark">>, <<"mark">>, <<"update">>, <<"status">>}
  /\ <<"put">> \notin {<<"put", "mark">>, <<"mark">>, <<"update">>, <<"status">>}
  /\ <<"put", "mark">> \notin {<<"mark">>, <<"update">>, <<"status">>}
  /\ <<"mark">> \notin {<<"update">>, <<"status">>}
  /\ <<"update">> # <<"status">>
<1>1. Len(<<>>) = 0 /\ Len(<<"put", "mark">>) = 2
  OBVIOUS
<1>2. \A x, y : <<x>> = <<y>> => x = y
  OBVIOUS
<1>3. \A x : Len(<<x>>) = 1
  OBVIOUS
<1>4. <<"put">> # <<"mark">> /\ <<"put">> # <<"update">> /\ <<"put">> # <<"status">> /\ <<"mark">> # <<"update">>
      /\ <<"mark">> # <<"status">> /\ <<"update">> # <<"status">>
  BY <1>2
<1> QED
  BY <1>1, <1>3, <1>4

\* The first step of what is left, for every thing that may be left.
LEMMA Firsts ==
  ASSUME NEW todo \in Todos
  PROVE  /\ todo \in Seq({"put", "mark", "update", "status"})
         /\ todo # <<>> /\ Head(todo) = "put" <=> todo \in {<<"put">>, <<"put", "mark">>}
         /\ todo # <<>> /\ Head(todo) = "mark" <=> todo = <<"mark">>
         /\ todo # <<>> /\ Head(todo) = "update" <=> todo = <<"update">>
         /\ todo # <<>> /\ Head(todo) = "status" <=> todo = <<"status">>
         /\ todo # <<>> /\ Len(todo) = 1 <=> todo \in {<<"put">>, <<"mark">>, <<"update">>, <<"status">>}
         /\ todo = <<"put", "mark">> => Tail(todo) = <<"mark">> /\ Len(todo) # 1
<1> USE DEF Todos
<1>1. CASE todo = <<>>
  BY <1>1
<1>2. CASE todo = <<"put">>
  BY <1>2
<1>3. CASE todo = <<"put", "mark">>
  BY <1>3
<1>4. CASE todo = <<"mark">>
  BY <1>4
<1>5. CASE todo = <<"update">>
  BY <1>5
<1>6. CASE todo = <<"status">>
  BY <1>6
<1> QED
  BY <1>1, <1>2, <1>3, <1>4, <1>5, <1>6

LEMMA StepAt ==
  ASSUME MemoryTyped, NEW w \in Writers
  PROVE  /\ frame[w] \in Frames /\ frame[w].todo \in Todos
         /\ At(w, "put") <=> frame[w].todo \in {<<"put">>, <<"put", "mark">>}
         /\ At(w, "mark") <=> frame[w].todo = <<"mark">>
         /\ At(w, "update") <=> frame[w].todo = <<"update">>
         /\ At(w, "status") <=> frame[w].todo = <<"status">>
<1>1. frame[w] \in Frames /\ frame[w].todo \in Todos
  BY DEF MemoryTyped, Frames
<1> QED
  BY <1>1, Firsts DEF At

LEMMA CallRight ==
  ASSUME MemoryTyped, NEW w \in Writers, NEW f \in Frames, Call(w, f)
  PROVE  /\ frame' \in [Writers -> Frames] /\ frame'[w] = f
         /\ \A x \in Writers : x # w => frame'[x] = frame[x]
  BY DEF MemoryTyped, Call

LEMMA EntriesOf == \A s \in Seq(Entry) : \A i \in DOMAIN s : s[i] \in Entry
  OBVIOUS

LEMMA TableOf ==
  ASSUME memory \in Seq(Entry)
  PROVE  Len(memory) \in Nat /\ Ids = 1..Len(memory) /\ \A i \in Ids : memory[i] \in Entry
<1>1. Len(memory) \in Nat /\ Ids = 1..Len(memory)
  BY DEF Ids
<1>2. \A i \in Ids : memory[i] \in Entry
  BY EntriesOf DEF Ids
<1> QED
  BY <1>1, <1>2

LEMMA TableOfNext ==
  ASSUME memory' \in Seq(Entry)
  PROVE  Len(memory') \in Nat /\ Ids' = 1..Len(memory') /\ \A i \in Ids' : memory'[i] \in Entry
<1>1. Len(memory') \in Nat /\ Ids' = 1..Len(memory')
  BY DEF Ids
<1>2. \A i \in Ids' : memory'[i] \in Entry
  BY EntriesOf DEF Ids
<1> QED
  BY <1>1, <1>2

LEMMA EntryIsLater == \A e \in Entry : Becomes(e, e)
  BY DEF Becomes, Entry

LEMMA BecomesFurther ==
  ASSUME NEW d \in Entry, NEW e \in Entry, NEW f \in Entry, Becomes(d, e), Becomes(e, f)
  PROVE  Becomes(d, f)
  BY DEF Becomes, Entry

\* What a mark and a change make of an entry.
LEMMA NextVersion ==
  ASSUME NEW e \in Entry
  PROVE  e.version + 1 \in Nat \ {0}
  BY DEF Entry

MovedTo(e, s) == [e EXCEPT !.status = s, !.version = e.version + 1]

LEMMA EntryMoved ==
  ASSUME NEW e \in Entry, NEW s \in Statuses, NEW f, f = MovedTo(e, s)
  PROVE  /\ f \in Entry /\ f.status = s /\ f.version = e.version + 1 /\ f.title = e.title
         /\ f.project = e.project /\ f.supersedes = e.supersedes /\ f.run = e.run
<1> DEFINE n == e.version + 1
<1>1. n \in Nat \ {0} /\ f = [e EXCEPT !.status = s, !.version = n]
  BY NextVersion DEF MovedTo
<1> HIDE DEF n
<1>2. /\ f \in Entry /\ f.status = s /\ f.version = n /\ f.title = e.title
      /\ f.project = e.project /\ f.supersedes = e.supersedes /\ f.run = e.run
  BY <1>1 DEF Entry
<1> QED
  BY <1>2 DEF n

LEMMA EntryEdited ==
  ASSUME NEW e \in Entry, NEW t \in Titles, NEW f, f = [e EXCEPT !.title = t, !.version = e.version + 1]
  PROVE  /\ f \in Entry /\ f.status = e.status /\ f.version = e.version + 1
         /\ f.project = e.project /\ f.supersedes = e.supersedes /\ f.run = e.run
<1> DEFINE n == e.version + 1
<1>1. n \in Nat \ {0} /\ f = [e EXCEPT !.title = t, !.version = n]
  BY NextVersion
<1> HIDE DEF n
<1>2. /\ f \in Entry /\ f.status = e.status /\ f.version = n
      /\ f.project = e.project /\ f.supersedes = e.supersedes /\ f.run = e.run
  BY <1>1 DEF Entry
<1> QED
  BY <1>2 DEF n

-----------------------------------------------------------------------------
(* How the table changes *)

\* Entries stay, and become only what they may become.
Later == Ids \subseteq Ids' /\ \A i \in Ids : Becomes(memory[i], memory'[i])

LEMMA MemorySame ==
  ASSUME MemoryTyped, UNCHANGED memory
  PROVE  Later
  BY EntryIsLater, TableOf DEF Later, MemoryTyped, Ids

\* What was seen stays seen.
LEMMA SeenStays ==
  ASSUME MemoryTyped, Later, memory' \in Seq(Entry), NEW i, NEW e, Seen(memory, i, e)
  PROVE  Seen(memory', i, e)
<1>1. i \in Ids /\ i \in Ids' /\ i \in DOMAIN memory' /\ e \in Entry /\ memory[i] \in Entry /\ memory'[i] \in Entry
  BY TableOf, TableOfNext DEF Seen, Later, MemoryTyped, Ids
<1>2. Becomes(e, memory[i]) /\ Becomes(memory[i], memory'[i])
  BY <1>1 DEF Seen, Later
<1> QED
  BY <1>1, <1>2, BecomesFurther DEF Seen

\* A call that does not move is right of the later table too.
LEMMA FrameStays ==
  ASSUME MemoryTyped, Later, memory' \in Seq(Entry), NEW f \in Frames, FrameRight(memory, f)
  PROVE  FrameRight(memory', f)
<1>1. DOMAIN memory \subseteq DOMAIN memory'
  BY DEF Later, Ids
<1>2. f.todo = <<"mark">> => \E j \in DOMAIN memory' : memory'[j].supersedes = f.id
  BY <1>1 DEF FrameRight, Later, Becomes, Ids
<1>3. ASSUME f.todo \in Changes
      PROVE  /\ Seen(memory', f.id, f.seen)
             /\ f.seen.version = memory'[f.id].version => memory'[f.id].status # "superseded"
  <2>1. /\ Seen(memory, f.id, f.seen)
        /\ f.seen.version = memory[f.id].version => memory[f.id].status # "superseded"
    BY <1>3 DEF FrameRight
  <2>2. Seen(memory', f.id, f.seen)
    BY <2>1, SeenStays
  <2>3. /\ f.id \in Ids /\ f.id \in Ids' /\ f.seen \in Entry /\ memory[f.id] \in Entry /\ memory'[f.id] \in Entry
        /\ Becomes(f.seen, memory[f.id]) /\ Becomes(memory[f.id], memory'[f.id])
    BY <2>1, <2>2, TableOf, TableOfNext DEF Seen, Later, MemoryTyped, Ids
  <2>4. ASSUME f.seen.version = memory'[f.id].version
        PROVE  memory'[f.id].status # "superseded"
    <3>1. memory[f.id].version = f.seen.version /\ memory'[f.id].version = memory[f.id].version
      BY <2>3, <2>4 DEF Becomes, Entry
    <3> QED
      BY <2>1, <2>3, <3>1 DEF Becomes
  <2> QED
    BY <2>2, <2>4
<1> QED
  BY <1>1, <1>2, <1>3 DEF FrameRight

\* One entry is changed into something later.
LEMMA TableChanges ==
  ASSUME MemoryTyped, NEW i \in Ids, NEW f \in Entry, Becomes(memory[i], f), memory' = [memory EXCEPT ![i] = f]
  PROVE  /\ memory' \in Seq(Entry) /\ Ids' = Ids /\ Later
         /\ memory'[i] = f /\ \A j \in Ids : j # i => memory'[j] = memory[j]
         /\ \A j \in Ids : memory'[j].supersedes = memory[j].supersedes
<1>1. memory \in Seq(Entry) /\ Ids = 1..Len(memory) /\ \A j \in Ids : memory[j] \in Entry
  BY TableOf DEF MemoryTyped
<1>2. /\ memory' \in Seq(Entry) /\ Len(memory') = Len(memory)
      /\ \A j \in 1..Len(memory) : memory'[j] = IF j = i THEN f ELSE memory[j]
  BY <1>1, ExceptSeq
<1>3. Ids' = Ids
  BY <1>1, <1>2, TableOfNext
<1>4. memory'[i] = f /\ \A j \in Ids : j # i => memory'[j] = memory[j]
  BY <1>1, <1>2
<1>5. \A j \in Ids : Becomes(memory[j], memory'[j])
  BY <1>1, <1>4, EntryIsLater
<1> QED
  BY <1>2, <1>3, <1>4, <1>5 DEF Later, Becomes

\* An entry is added.
LEMMA TableGrows ==
  ASSUME MemoryTyped, NEW f \in Entry, memory' = Append(memory, f)
  PROVE  /\ memory' \in Seq(Entry) /\ Later
         /\ Len(memory') = Len(memory) + 1 /\ Len(memory) \in Nat
         /\ Ids' = Ids \cup {Len(memory')} /\ Len(memory') \notin Ids /\ memory'[Len(memory')] = f
         /\ \A j \in Ids : memory'[j] = memory[j]
<1>1. /\ memory \in Seq(Entry) /\ Len(memory) \in Nat /\ Ids = 1..Len(memory)
      /\ \A j \in Ids : memory[j] \in Entry
  BY TableOf DEF MemoryTyped
<1>2. /\ memory' \in Seq(Entry) /\ Len(memory') = Len(memory) + 1
      /\ memory'[Len(memory) + 1] = f /\ \A j \in 1..Len(memory) : memory'[j] = memory[j]
  BY <1>1
<1>3. Ids' = 1..(Len(memory) + 1)
  BY <1>2, TableOfNext
<1>4. \A j \in Ids : memory'[j] = memory[j] /\ Becomes(memory[j], memory'[j])
  BY <1>1, <1>2, EntryIsLater
<1> QED
  BY <1>1, <1>2, <1>3, <1>4 DEF Later

-----------------------------------------------------------------------------
(* Every step of a caller keeps the invariant *)

LEMMA FramesMove ==
  ASSUME MemoryIInv, Later, memory' \in Seq(Entry), NEW w \in Writers, NEW f \in Frames, Call(w, f),
         FrameRight(memory', f)
  PROVE  FramesRight' /\ frame' \in [Writers -> Frames] /\ frame'[w] = f
         /\ \A x \in Writers : x # w => frame'[x] = frame[x]
<1>1. /\ frame' \in [Writers -> Frames] /\ frame'[w] = f
      /\ \A x \in Writers : x # w => frame'[x] = frame[x]
  BY CallRight DEF MemoryIInv
<1>2. ASSUME NEW x \in Writers PROVE FrameRight(memory', frame'[x])
  <2>1. CASE x = w
    BY <1>1, <2>1
  <2>2. CASE x # w
    <3>1. frame[x] \in Frames /\ FrameRight(memory, frame[x]) /\ frame'[x] = frame[x]
      BY <1>1, <2>2 DEF MemoryIInv, MemoryTyped, FramesRight
    <3> QED
      BY <3>1, FrameStays DEF MemoryIInv
  <2> QED
    BY <2>1, <2>2
<1> QED
  BY <1>1, <1>2 DEF FramesRight

\* The table is as it was, and one call moves; it did not have a mark to write.
LEMMA CallKeeps ==
  ASSUME MemoryIInv, UNCHANGED <<memory, retired, cut>>, NEW w \in Writers, NEW f \in Frames, Call(w, f),
         FrameRight(memory, f), frame[w].todo # <<"mark">>
  PROVE  MemoryIInv' /\ Later
<1>1. Later /\ memory' \in Seq(Entry)
  BY MemorySame DEF MemoryIInv, MemoryTyped
<1>2. FramesRight' /\ frame' \in [Writers -> Frames]
      /\ \A x \in Writers : x # w => frame'[x] = frame[x]
  BY <1>1, FramesMove
<1>3. MemoryTyped' /\ SuccessorKept'
  BY <1>2 DEF MemoryIInv, MemoryTyped, SuccessorKept, Ids
<1>4. \A t : Marks(frame, t) => Marks(frame', t)
  BY <1>2 DEF Marks
<1>5. Complete'
  BY <1>4 DEF MemoryIInv, Complete, Ids
<1> QED
  BY <1>1, <1>2, <1>3, <1>5 DEF MemoryIInv

LEMMA CreateKeeps ==
  ASSUME MemoryIInv, NEW w \in Writers, NEW p \in Projects, NEW t \in Titles, NEW fromRun \in BOOLEAN,
         Create(w, p, t, fromRun)
  PROVE  MemoryIInv' /\ Later
<1>1. PICK target \in Targets(p, t) :
        Call(w, [Off EXCEPT !.todo = Steps(target), !.id = target, !.title = t, !.project = p, !.run = fromRun,
                            !.seen = IF target = 0 THEN None ELSE memory[target]])
  BY DEF Create
<1> DEFINE f == [Off EXCEPT !.todo = Steps(target), !.id = target, !.title = t, !.project = p, !.run = fromRun,
                            !.seen = IF target = 0 THEN None ELSE memory[target]]
<1>2. target \in Ids \cup {0} /\ Ids \subseteq Nat \ {0} /\ \A i \in Ids : memory[i] \in Entry
  <2>1. Ids \subseteq Nat \ {0} /\ \A i \in Ids : memory[i] \in Entry
    BY TableOf DEF MemoryIInv, MemoryTyped
  <2> QED
    BY <2>1 DEF Targets, Candidates
<1>3. /\ f.todo = Steps(target) /\ f.id = target /\ f.title = t /\ f.project = p /\ f.run = fromRun
      /\ f.seen = IF target = 0 THEN None ELSE memory[target]
      /\ f.to = None
  BY DEF Off
<1>4. Steps(target) \in Todos
  BY DEF Steps, Todos
<1>5. f \in Frames
  BY <1>2, <1>4, OffFrame DEF Frames
<1> HIDE DEF f
<1>6. /\ target = 0 => f.todo = <<"put">>
      /\ target # 0 => f.todo = <<"put", "mark">>
  BY <1>3 DEF Steps
<1>7. FrameRight(memory, f)
  <2>1. CASE target = 0
    BY <1>3, <1>6, <2>1, TodosApart DEF FrameRight, Changes
  <2>2. CASE target # 0
    BY <1>2, <1>3, <1>6, <2>2, TodosApart DEF FrameRight, Changes, Ids
  <2> QED
    BY <2>1, <2>2
<1>8. frame[w].todo # <<"mark">> /\ UNCHANGED <<memory, retired, cut>>
  BY OffFrame, TodosApart DEF Create, Idle
<1>9. Call(w, f)
  BY <1>1 DEF f
<1> QED
  BY <1>5, <1>7, <1>8, <1>9, CallKeeps

\* An edit or a change of status begins, of an entry that its user has seen.
LEMMA ChangeBegins ==
  ASSUME MemoryIInv, NEW w \in Writers, NEW i, NEW seen, Seen(memory, i, seen),
         \/ \E t \in Titles : Update(w, i, seen, t)
         \/ \E to \in Statuses : SetStatus(w, i, seen, to)
  PROVE  MemoryIInv' /\ Later
<1>1. i \in DOMAIN memory /\ i \in Nat /\ seen \in Entry
  BY TableOf DEF Seen, MemoryIInv, MemoryTyped, Ids
<1>2. /\ UNCHANGED <<memory, retired, cut>> /\ frame[w].todo # <<"mark">>
      /\ memory[i].status # "superseded"
  <2>1. UNCHANGED <<memory, retired, cut>> /\ frame[w] = Off /\ memory[i].status # "superseded"
    BY DEF Update, SetStatus, Idle, MayUpdate, MaySet
  <2> QED
    BY <2>1, OffFrame, TodosApart
<1>3. \E f \in Frames : Call(w, f) /\ FrameRight(memory, f)
  <2>1. ASSUME NEW t \in Titles, Update(w, i, seen, t)
        PROVE  \E f \in Frames : Call(w, f) /\ FrameRight(memory, f)
    <3> DEFINE f == [Off EXCEPT !.todo = <<"update">>, !.id = i, !.title = t, !.seen = seen]
    <3>1. /\ f.todo = <<"update">> /\ f.id = i /\ f.title = t /\ f.seen = seen /\ f.to = None
      BY DEF Off
    <3>2. Call(w, f)
      BY <2>1 DEF Update
    <3>3. f \in Frames
      BY <1>1, OffFrame DEF Frames, Todos
    <3> HIDE DEF f
    <3>4. FrameRight(memory, f)
      BY <1>1, <1>2, <3>1, TodosApart DEF FrameRight, Changes
    <3> QED
      BY <3>2, <3>3, <3>4
  <2>2. ASSUME NEW to \in Statuses, SetStatus(w, i, seen, to)
        PROVE  \E f \in Frames : Call(w, f) /\ FrameRight(memory, f)
    <3> DEFINE f == [Off EXCEPT !.todo = <<"status">>, !.id = i, !.to = to, !.seen = seen]
    <3>1. /\ f.todo = <<"status">> /\ f.id = i /\ f.seen = seen /\ f.to = to
      BY DEF Off
    <3>2. Call(w, f)
      BY <2>2 DEF SetStatus
    <3>3. f \in Frames
      BY <1>1, OffFrame DEF Frames, Todos
    <3> HIDE DEF f
    <3>4. FrameRight(memory, f)
      BY <1>1, <1>2, <3>1, TodosApart DEF FrameRight, Changes
    <3> QED
      BY <3>2, <3>3, <3>4
  <2> QED
    BY <2>1, <2>2
<1> QED
  BY <1>2, <1>3, CallKeeps

LEMMA PutKeeps ==
  ASSUME MemoryIInv, NEW w \in Writers, Put(w)
  PROVE  /\ MemoryIInv' /\ Later
         /\ Ids' = Ids \cup {Len(memory')} /\ Len(memory') \notin Ids /\ memory'[Len(memory')].version = 1
         /\ \A j \in Ids : memory'[j] = memory[j]
<1> DEFINE e == [project |-> frame[w].project, title |-> frame[w].title, status |-> "active",
                 supersedes |-> frame[w].id, version |-> 1, run |-> frame[w].run]
           n == Len(memory')
           f == Done(w)
<1>1. /\ frame[w] \in Frames /\ FrameRight(memory, frame[w]) /\ MemoryTyped
      /\ frame[w].todo \in {<<"put">>, <<"put", "mark">>}
  BY StepAt DEF MemoryIInv, MemoryTyped, FramesRight, Put
<1>2. memory' = Append(memory, e) /\ Call(w, f) /\ UNCHANGED <<retired, cut>>
  BY DEF Put
<1>3. e \in Entry
  BY <1>1 DEF FrameRight, Frames, Entry, Statuses
<1>4. e.supersedes = frame[w].id /\ e.status = "active" /\ e.version = 1
  OBVIOUS
<1> HIDE DEF e
<1>5. /\ memory' \in Seq(Entry) /\ Later
      /\ n = Len(memory) + 1 /\ Len(memory) \in Nat
      /\ Ids' = Ids \cup {n} /\ n \notin Ids /\ memory'[n] = e
      /\ \A j \in Ids : memory'[j] = memory[j]
  BY <1>1, <1>2, <1>3, TableGrows
<1>6. /\ f \in Frames
      /\ frame[w].todo = <<"put">> => f = Off /\ frame[w].id = 0
      /\ frame[w].todo = <<"put", "mark">> => f.todo = <<"mark">> /\ f.id = frame[w].id
  <2>1. CASE frame[w].todo = <<"put">>
    BY <1>1, <2>1, OffFrame DEF Done, FrameRight
  <2>2. CASE frame[w].todo = <<"put", "mark">>
    <3>1. Tail(frame[w].todo) = <<"mark">> /\ Len(frame[w].todo) # 1
      BY <2>2
    <3>2. f = [frame[w] EXCEPT !.todo = <<"mark">>]
      BY <3>1 DEF Done
    <3>3. <<"mark">> \in Todos
      BY DEF Todos
    <3> HIDE DEF f
    <3> QED
      BY <1>1, <2>2, <3>2, <3>3 DEF Frames
  <2> QED
    BY <1>1, <2>1, <2>2
<1> HIDE DEF f, n
<1>7. Ids = 1..Len(memory) /\ Ids' = DOMAIN memory'
  BY <1>1, TableOf DEF MemoryTyped, Ids
<1>8. FrameRight(memory', f)
  <2>1. CASE frame[w].todo = <<"put">>
    BY <1>6, <2>1, OffFrame, TodosApart DEF FrameRight, Changes
  <2>2. CASE frame[w].todo = <<"put", "mark">>
    <3>1. f.todo = <<"mark">> /\ f.id \in DOMAIN memory' /\ memory'[n].supersedes = f.id /\ n \in DOMAIN memory'
      BY <1>1, <1>4, <1>5, <1>6, <1>7, <2>2 DEF FrameRight, Ids
    <3> QED
      BY <3>1 DEF FrameRight, Changes
  <2> QED
    BY <1>1, <2>1, <2>2
<1>9. FramesRight' /\ frame' \in [Writers -> Frames] /\ frame'[w] = f
      /\ \A x \in Writers : x # w => frame'[x] = frame[x]
  BY <1>2, <1>5, <1>6, <1>8, FramesMove
<1>10. frame[w].id \in 0..Len(memory)
  BY <1>1, <1>5, <1>7 DEF FrameRight, Ids
<1>11. MemoryTyped'
  <2>1. \A i \in Ids' : memory'[i].supersedes \in 0..(i - 1)
    BY <1>1, <1>4, <1>5, <1>10 DEF MemoryTyped
  <2> QED
    BY <1>1, <1>2, <1>5, <1>9, <2>1 DEF MemoryTyped
<1>12. Complete'
  <2>1. \A t : Marks(frame, t) => Marks(frame', t)
    BY <1>1, <1>9, TodosApart DEF Marks
  <2>2. frame[w].id # 0 => Marks(frame', frame[w].id)
    BY <1>1, <1>6, <1>9 DEF Marks
  <2>3. \A i \in Ids : memory[i].supersedes # 0 => memory[i].supersedes \in Ids
    BY <1>1, <1>7, <1>5 DEF MemoryTyped
  <2> QED
    <3>1. ASSUME NEW i \in Ids' \ cut', memory'[i].supersedes # 0
          PROVE  memory'[memory'[i].supersedes].status = "superseded" \/ Marks(frame', memory'[i].supersedes)
      <4>1. CASE i = n
        BY <1>4, <1>5, <2>2, <3>1, <4>1
      <4>2. CASE i # n
        <5> DEFINE k == memory[i].supersedes
        <5>1. i \in Ids \ cut /\ memory'[i].supersedes = k /\ k # 0 /\ k \in Ids /\ memory'[k] = memory[k]
          BY <1>2, <1>5, <2>3, <3>1, <4>2
        <5>2. memory[k].status = "superseded" \/ Marks(frame, k)
          BY <5>1 DEF MemoryIInv, Complete
        <5> HIDE DEF k
        <5> QED
          BY <2>1, <5>1, <5>2
      <4> QED
        BY <4>1, <4>2
    <3> QED
      BY <3>1 DEF Complete
<1>13. SuccessorKept'
  <2>1. ASSUME NEW i \in Ids', memory'[i].status = "superseded"
        PROVE  i \in retired' \/ \E j \in Ids' : memory'[j].supersedes = i
    <3>1. i \in Ids /\ memory[i].status = "superseded"
      BY <1>4, <1>5, <2>1
    <3> QED
      BY <1>2, <1>5, <3>1 DEF MemoryIInv, SuccessorKept
  <2> QED
    BY <2>1 DEF SuccessorKept
<1> QED
  BY <1>4, <1>5, <1>9, <1>11, <1>12, <1>13 DEF MemoryIInv, n

LEMMA OffRight == \A table : FrameRight(table, Off)
  BY OffFrame, TodosApart DEF FrameRight, Changes

\* One entry is changed, and the call that has changed it is over: what it was going to mark is marked.
LEMMA ChangedKeeps ==
  ASSUME MemoryIInv, NEW w \in Writers, Call(w, Off), NEW i \in Ids, NEW f \in Entry, Becomes(memory[i], f),
         memory' = [memory EXCEPT ![i] = f], retired \subseteq retired', retired' \subseteq retired \cup {i},
         UNCHANGED cut,
         frame[w].todo = <<"mark">> => frame[w].id = i /\ f.status = "superseded",
         f.status = "superseded" /\ memory[i].status # "superseded" =>
           i \in retired' \/ \E j \in Ids : memory[j].supersedes = i
  PROVE  MemoryIInv' /\ Later /\ Ids' = Ids
<1>1. MemoryTyped /\ FramesRight /\ Complete /\ SuccessorKept
  BY DEF MemoryIInv
<1>2. /\ memory' \in Seq(Entry) /\ Ids' = Ids /\ Later
      /\ memory'[i] = f /\ \A j \in Ids : j # i => memory'[j] = memory[j]
      /\ \A j \in Ids : memory'[j].supersedes = memory[j].supersedes
  BY <1>1, TableChanges
<1>3. /\ FramesRight' /\ frame' \in [Writers -> Frames] /\ frame'[w] = Off
      /\ \A x \in Writers : x # w => frame'[x] = frame[x]
  BY <1>2, OffFrame, OffRight, FramesMove
<1>4. MemoryTyped'
  <2>1. \A j \in Ids' : memory'[j].supersedes \in 0..(j - 1)
    BY <1>1, <1>2 DEF MemoryTyped
  <2> QED
    BY <1>1, <1>2, <1>3, <2>1 DEF MemoryTyped
<1>5. \A j \in Ids : memory[j].status = "superseded" => memory'[j].status = "superseded"
  BY <1>2 DEF Later, Becomes
<1>6. Complete'
  <2>1. ASSUME NEW j \in Ids' \ cut', memory'[j].supersedes # 0
        PROVE  memory'[memory'[j].supersedes].status = "superseded" \/ Marks(frame', memory'[j].supersedes)
    <3> DEFINE k == memory[j].supersedes
    <3>1. j \in Ids \ cut /\ memory'[j].supersedes = k /\ k # 0 /\ k \in 0..(j - 1) /\ j \in Ids
      BY <1>1, <1>2, <2>1 DEF MemoryTyped
    <3>2. k \in Ids
      BY <1>1, <3>1, TableOf DEF MemoryTyped
    <3>3. memory[k].status = "superseded" \/ Marks(frame, k)
      BY <1>1, <3>1 DEF Complete
    <3> HIDE DEF k
    <3>4. CASE memory[k].status = "superseded"
      BY <1>5, <3>1, <3>2, <3>4
    <3>5. CASE Marks(frame, k)
      <4>1. PICK x \in Writers : frame[x].todo = <<"mark">> /\ frame[x].id = k
        BY <3>5 DEF Marks
      <4>2. CASE x = w
        BY <1>2, <3>1, <4>1, <4>2
      <4>3. CASE x # w
        BY <1>3, <3>1, <4>1, <4>3 DEF Marks
      <4> QED
        BY <4>2, <4>3
    <3> QED
      BY <3>3, <3>4, <3>5
  <2> QED
    BY <2>1 DEF Complete
<1>7. SuccessorKept'
  <2>1. ASSUME NEW j \in Ids', memory'[j].status = "superseded"
        PROVE  j \in retired' \/ \E k \in Ids' : memory'[k].supersedes = j
    <3>1. CASE memory[j].status = "superseded"
      BY <1>1, <1>2, <2>1, <3>1 DEF SuccessorKept
    <3>2. CASE memory[j].status # "superseded"
      BY <1>2, <2>1, <3>2
    <3> QED
      BY <3>1, <3>2
  <2> QED
    BY <2>1 DEF SuccessorKept
<1> QED
  BY <1>2, <1>3, <1>4, <1>6, <1>7 DEF MemoryIInv

LEMMA MarkKeeps ==
  ASSUME MemoryIInv, NEW w \in Writers, Mark(w)
  PROVE  /\ MemoryIInv' /\ Later /\ Ids' = Ids /\ Len(frame[w].todo) = 1
         /\ frame[w].id \in Ids
<1> DEFINE i == frame[w].id
           f == Marked(memory[i], frame[w].seen)
<1>1. /\ frame[w] \in Frames /\ FrameRight(memory, frame[w]) /\ MemoryTyped
      /\ frame[w].todo = <<"mark">>
  BY StepAt DEF MemoryIInv, MemoryTyped, FramesRight, Mark
<1>2. i \in Ids /\ (\E j \in Ids : memory[j].supersedes = i) /\ memory[i] \in Entry
  <2>1. i \in DOMAIN memory /\ \E j \in DOMAIN memory : memory[j].supersedes = i
    BY <1>1 DEF FrameRight
  <2> QED
    BY <1>1, <2>1, TableOf DEF MemoryTyped, Ids
<1>3. Len(frame[w].todo) = 1 /\ Done(w) = Off
  <2>1. Len(frame[w].todo) = 1
    BY <1>1
  <2> QED
    BY <2>1 DEF Done
<1>4. memory' = [memory EXCEPT ![i] = f] /\ Call(w, Off) /\ UNCHANGED <<retired, cut>>
  BY <1>3 DEF Mark
<1>5. f \in Entry /\ f.status = "superseded" /\ Becomes(memory[i], f)
  <2> DEFINE e == memory[i]
  <2>1. e \in Entry /\ "superseded" \in Statuses /\ f = MovedTo(e, "superseded")
    BY <1>2 DEF Marked, Statuses, MovedTo
  <2> HIDE DEF e, f
  <2>2. /\ f \in Entry /\ f.status = "superseded" /\ f.version = e.version + 1 /\ f.title = e.title
        /\ f.project = e.project /\ f.supersedes = e.supersedes /\ f.run = e.run
    BY <2>1, EntryMoved
  <2>3. Becomes(e, f)
    BY <2>1, <2>2 DEF Becomes, Entry
  <2> QED
    BY <2>2, <2>3 DEF e
<1> HIDE DEF f, i
<1>6. frame[w].todo = <<"mark">> => frame[w].id = i
  BY DEF i
<1>7. MemoryIInv' /\ Later /\ Ids' = Ids
  BY <1>2, <1>4, <1>5, <1>6, ChangedKeeps
<1> QED
  BY <1>2, <1>3, <1>7 DEF i

LEMMA ChangeKeeps ==
  ASSUME MemoryIInv, NEW w \in Writers, Change(w)
  PROVE  /\ MemoryIInv' /\ Later /\ Ids' = Ids
         /\ frame[w].id \in Ids /\ memory[frame[w].id] = frame[w].seen
         /\ memory[frame[w].id].status # "superseded"
<1> DEFINE i == frame[w].id
           f == Changed(memory[i], frame[w])
<1>1. /\ frame[w] \in Frames /\ FrameRight(memory, frame[w]) /\ MemoryTyped
      /\ frame[w].todo \in Changes /\ frame[w].todo # <<"mark">>
  BY StepAt, TodosApart DEF MemoryIInv, MemoryTyped, FramesRight, Change, Changes
<1>2. Seen(memory, i, frame[w].seen) /\ memory[i].version = frame[w].seen.version
  BY <1>1 DEF FrameRight, Change, Same
<1>3. i \in Ids /\ memory[i] = frame[w].seen /\ memory[i] \in Entry /\ memory[i].status # "superseded"
  BY <1>1, <1>2, TableOf DEF FrameRight, Seen, Becomes, MemoryTyped, Ids
<1>4. /\ memory' = [memory EXCEPT ![i] = f] /\ Call(w, Off) /\ UNCHANGED cut
      /\ retired' = IF frame[w].to = "superseded" THEN retired \cup {i} ELSE retired
  BY DEF Change, Return
<1>5. /\ f \in Entry /\ Becomes(memory[i], f)
      /\ f.status = "superseded" => frame[w].to = "superseded"
  <2> DEFINE e == memory[i]
             g == frame[w]
  <2>1. /\ e \in Entry /\ e.status # "superseded"
        /\ f = IF g.to = None THEN [e EXCEPT !.title = g.title, !.version = e.version + 1]
               ELSE MovedTo(e, g.to)
    BY <1>3 DEF Changed, MovedTo
  <2>2. g.to = None => g.title \in Titles
    <3>1. g.todo = <<"update">> => g.title \in Titles
      BY <1>1 DEF FrameRight
    <3>2. g.todo = <<"status">> => g.to \in Statuses
      BY <1>1 DEF FrameRight
    <3> QED
      BY <1>1, <3>1, <3>2, MemoryConstants DEF Changes
  <2>3. g.to # None => g.to \in Statuses
    BY <1>1 DEF Frames
  <2> HIDE DEF e, f, g
  <2>4. /\ f \in Entry /\ f.version = e.version + 1
        /\ f.project = e.project /\ f.supersedes = e.supersedes /\ f.run = e.run
        /\ f.status = "superseded" => g.to = "superseded"
    <3>1. CASE g.to = None
      BY <2>1, <2>2, <3>1, EntryEdited
    <3>2. CASE g.to # None
      BY <2>1, <2>3, <3>2, EntryMoved
    <3> QED
      BY <3>1, <3>2
  <2>5. Becomes(e, f)
    BY <2>1, <2>4 DEF Becomes, Entry
  <2> QED
    BY <2>4, <2>5 DEF e, g
<1> HIDE DEF f, i
<1>6. MemoryIInv' /\ Later /\ Ids' = Ids
  BY <1>1, <1>3, <1>4, <1>5, ChangedKeeps
<1> QED
  BY <1>3, <1>6 DEF i

LEMMA StaleKeeps ==
  ASSUME MemoryIInv, NEW w \in Writers, Stale(w)
  PROVE  MemoryIInv' /\ Later /\ UNCHANGED memory
<1>1. frame[w].todo # <<"mark">> /\ UNCHANGED <<memory, retired, cut>> /\ Call(w, Off)
  BY StepAt, TodosApart DEF MemoryIInv, Stale, Return
<1> QED
  BY <1>1, OffFrame, OffRight, CallKeeps

\* The host ends: what was to be marked is remembered.
LEMMA EndedKeeps ==
  ASSUME MemoryIInv, Ended(Writers)
  PROVE  MemoryIInv' /\ Later /\ UNCHANGED memory
<1>1. MemoryTyped /\ FramesRight /\ Complete /\ SuccessorKept
  BY DEF MemoryIInv
<1>2. /\ UNCHANGED <<memory, retired>> /\ frame' = [w \in Writers |-> Off]
      /\ cut' = cut \cup {i \in Ids : \E w \in Writers : At(w, "mark") /\ memory[i].supersedes = frame[w].id}
  BY DEF Ended
<1>3. MemoryTyped'
  BY <1>1, <1>2, OffFrame DEF MemoryTyped, Ids
<1>4. FramesRight'
  BY <1>2, OffRight DEF FramesRight
<1>5. Complete'
  <2>1. ASSUME NEW i \in Ids \ cut', memory[i].supersedes # 0
        PROVE  memory[memory[i].supersedes].status = "superseded"
    <3>1. memory[memory[i].supersedes].status = "superseded" \/ Marks(frame, memory[i].supersedes)
      BY <1>1, <1>2, <2>1 DEF Complete
    <3>2. ~Marks(frame, memory[i].supersedes)
      <4>1. SUFFICES ASSUME NEW w \in Writers, frame[w].todo = <<"mark">>, frame[w].id = memory[i].supersedes
                     PROVE  FALSE
        BY DEF Marks
      <4>2. At(w, "mark")
        BY <1>1, <4>1, StepAt
      <4> QED
        BY <1>2, <2>1, <4>1, <4>2
    <3> QED
      BY <3>1, <3>2
  <2> QED
    BY <1>2, <2>1 DEF Complete, Ids
<1> QED
  BY <1>1, <1>2, <1>3, <1>4, <1>5, MemorySame DEF MemoryIInv, SuccessorKept, Ids

\* A step that leaves entries and calls alone.
LEMMA MemoryStays ==
  ASSUME MemoryIInv, UNCHANGED <<memory, frame, retired, cut>>
  PROVE  MemoryIInv' /\ Later
<1>1. MemoryTyped' /\ SuccessorKept' /\ Later
  BY MemorySame DEF MemoryIInv, MemoryTyped, SuccessorKept, Ids
<1>2. FramesRight'
  BY DEF MemoryIInv, FramesRight
<1>3. Complete'
  BY DEF MemoryIInv, Complete, Ids
<1> QED
  BY <1>1, <1>2, <1>3 DEF MemoryIInv

-----------------------------------------------------------------------------
(* What the browser shows *)

Rows == [id : Nat, entry : Entry]
Loaded == [stage : {"none", "asked", "answered"}, of : Projects \cup {None}, reply : SUBSET Rows]

RowsSeen(table, rows) == \A r \in rows : Seen(table, r.id, r.entry)

\* The rows have the change m, made in project p, or what came after it.
Covers(table, p, m, rows) ==
  m.id \in DOMAIN table /\ table[m.id].project = p =>
    (\E r \in rows : r.id = m.id /\ r.entry.version >= m.version) \/ table[m.id].status = "superseded"

MineRight(table, m) ==
  /\ m.id \in DOMAIN table \cup {0} /\ m.version \in Nat
  /\ m.id # 0 => m.version <= table[m.id].version

LoadRight(table, p, m, l) ==
  /\ l.stage = "none" => l = NoLoad
  /\ l # NoLoad => l.of = p
  /\ RowsSeen(table, l.reply)
  /\ l.stage = "answered" => Covers(table, p, m, l.reply)

ListRight(table, p, m, busy, shown) ==
  shown # None =>
    /\ RowsSeen(table, shown.rows)
    /\ ~busy => shown.of = p /\ Covers(table, p, m, shown.rows)

ViewTyped ==
  /\ selected \in Projects /\ fetching \in BOOLEAN /\ pending \in BOOLEAN
  /\ load \in [Loads -> Loaded]

OneLoad == \A j, k \in Loads : load[j] # NoLoad /\ load[k] # NoLoad => j = k

ViewIInv ==
  /\ ViewTyped /\ OneLoad
  /\ \A k \in Loads : LoadRight(memory, selected, mine, load[k])
  /\ fetching => \E k \in Loads : load[k] # NoLoad
  /\ MineRight(memory, mine)
  /\ ListRight(memory, selected, mine, fetching, list)

LEMMA RowsStaySeen ==
  ASSUME MemoryTyped, Later, memory' \in Seq(Entry), NEW rows, RowsSeen(memory, rows)
  PROVE  RowsSeen(memory', rows)
  BY SeenStays DEF RowsSeen

LEMMA MineStays ==
  ASSUME MemoryTyped, Later, memory' \in Seq(Entry), NEW m, MineRight(memory, m)
  PROVE  MineRight(memory', m)
<1>1. m.id \in Ids \cup {0} /\ Ids \subseteq Ids'
  BY DEF MineRight, Later, Ids
<1>2. CASE m.id = 0
  BY <1>2 DEF MineRight
<1>3. CASE m.id # 0
  <2>1. /\ m.id \in Ids /\ m.id \in Ids' /\ memory[m.id].version <= memory'[m.id].version
        /\ memory[m.id] \in Entry /\ memory'[m.id] \in Entry
    BY <1>1, <1>3, TableOf, TableOfNext DEF Later, Becomes, MemoryTyped
  <2>2. memory[m.id].version \in Nat /\ memory'[m.id].version \in Nat
    BY <2>1 DEF Entry
  <2> QED
    BY <1>3, <2>1, <2>2 DEF MineRight, Ids
<1> QED
  BY <1>2, <1>3

LEMMA CoversStays ==
  ASSUME MemoryTyped, Later, memory' \in Seq(Entry), NEW p, NEW m, NEW rows, MineRight(memory, m),
         Covers(memory, p, m, rows)
  PROVE  Covers(memory', p, m, rows)
<1>1. SUFFICES ASSUME m.id \in DOMAIN memory', memory'[m.id].project = p
               PROVE  (\E r \in rows : r.id = m.id /\ r.entry.version >= m.version)
                        \/ memory'[m.id].status = "superseded"
  BY DEF Covers
<1>2. m.id \in Ids
  BY <1>1, TableOfNext DEF MineRight, Ids
<1>3. Becomes(memory[m.id], memory'[m.id])
  BY <1>2 DEF Later
<1>4. memory[m.id].project = p /\ (memory[m.id].status = "superseded" => memory'[m.id].status = "superseded")
  BY <1>1, <1>3 DEF Becomes
<1> QED
  BY <1>2, <1>4 DEF Covers, Ids

LEMMA LoadStays ==
  ASSUME MemoryTyped, Later, memory' \in Seq(Entry), NEW p, NEW m, NEW l, MineRight(memory, m),
         LoadRight(memory, p, m, l)
  PROVE  LoadRight(memory', p, m, l)
  BY RowsStaySeen, CoversStays DEF LoadRight

LEMMA ListStays ==
  ASSUME MemoryTyped, Later, memory' \in Seq(Entry), NEW p, NEW m, NEW busy, NEW shown, MineRight(memory, m),
         ListRight(memory, p, m, busy, shown)
  PROVE  ListRight(memory', p, m, busy, shown)
  BY RowsStaySeen, CoversStays DEF ListRight

\* The browser does nothing but to begin or end a change.
LEMMA ViewStays ==
  ASSUME MemoryTyped, Later, memory' \in Seq(Entry), ViewIInv, UNCHANGED <<selected, list, fetching, load, mine>>,
         pending' \in BOOLEAN
  PROVE  ViewIInv'
<1>1. ViewTyped' /\ OneLoad' /\ (fetching' => \E k \in Loads : load'[k] # NoLoad)
  BY DEF ViewIInv, ViewTyped, OneLoad
<1>2. \A k \in Loads : LoadRight(memory', selected', mine', load'[k])
  BY LoadStays DEF ViewIInv
<1>3. MineRight(memory', mine') /\ ListRight(memory', selected', mine', fetching', list')
  BY MineStays, ListStays DEF ViewIInv
<1> QED
  BY <1>1, <1>2, <1>3 DEF ViewIInv

LEMMA NoLoadIsRight ==
  /\ NoLoad \in Loaded /\ NoLoad.stage = "none" /\ NoLoad.reply = {}
  /\ \A table, p, m : LoadRight(table, p, m, NoLoad)
<1>1. NoLoad \in Loaded /\ NoLoad.stage = "none" /\ NoLoad.reply = {}
  BY DEF NoLoad, Loaded
<1> QED
  BY <1>1 DEF LoadRight, RowsSeen

\* The list is loaded for a project, whatever was in flight and whatever was written here.
LEMMA LoadBegins ==
  ASSUME MemoryTyped, Later, memory' \in Seq(Entry), ViewIInv, NEW p \in Projects, LoadList(p),
         selected' = p, UNCHANGED list, pending' \in BOOLEAN, MineRight(memory', mine')
  PROVE  ViewIInv'
<1>1. PICK k \in Loads :
        load' = [j \in Loads |-> IF j = k THEN [stage |-> "asked", of |-> p, reply |-> {}] ELSE NoLoad]
  BY DEF LoadList, Cancelled
<1> DEFINE new == [stage |-> "asked", of |-> p, reply |-> {}]
<1>2. new \in Loaded /\ new.stage = "asked" /\ new.of = p /\ new.reply = {} /\ fetching' = TRUE
  BY DEF LoadList, Loaded
<1>3. load'[k] = new /\ \A j \in Loads : j # k => load'[j] = NoLoad
  BY <1>1
<1> HIDE DEF new
<1>4. new # NoLoad
  BY <1>2, NoLoadIsRight
<1>5. ViewTyped'
  <2>1. load' \in [Loads -> Loaded]
    BY <1>1, <1>2, NoLoadIsRight DEF new
  <2> QED
    BY <1>2, <2>1 DEF ViewTyped
<1>6. OneLoad' /\ \E j \in Loads : load'[j] # NoLoad
  BY <1>3, <1>4 DEF OneLoad
<1>7. LoadRight(memory', p, mine', new)
  BY <1>2 DEF LoadRight, RowsSeen
<1>8. \A j \in Loads : LoadRight(memory', p, mine', load'[j])
  BY <1>3, <1>7, NoLoadIsRight
<1>9. ListRight(memory', p, mine', fetching', list')
  BY <1>2, RowsStaySeen DEF ViewIInv, ListRight
<1> QED
  BY <1>5, <1>6, <1>8, <1>9 DEF ViewIInv

\* The host answers a load, and has seen every entry of the answer.
LEMMA ServeListKeeps ==
  ASSUME MemoryTyped, ViewIInv, NEW k \in Loads, ServeList(k)
  PROVE  ViewIInv'
<1> DEFINE rows == {[id |-> i, entry |-> memory[i]] : i \in Listed(load[k].of)}
           new == [load[k] EXCEPT !.stage = "answered", !.reply = rows]
<1>1. /\ load[k] \in Loaded /\ load[k].stage = "asked" /\ load[k].of = selected
      /\ load[k] # NoLoad
  BY NoLoadIsRight DEF ServeList, ViewIInv, ViewTyped, LoadRight
<1>2. Ids \subseteq Nat \ {0} /\ \A i \in Ids : memory[i] \in Entry
  BY TableOf DEF MemoryTyped
<1>3. rows \in SUBSET Rows
  BY <1>2 DEF Rows, Listed
<1>4. /\ load' = [load EXCEPT ![k] = new]
      /\ UNCHANGED <<memory, selected, list, fetching, pending, mine>>
  BY DEF ServeList, memoryVars
<1>5. RowsSeen(memory, rows)
  <2>1. ASSUME NEW r \in rows PROVE Seen(memory, r.id, r.entry)
    <3>1. PICK i \in Listed(load[k].of) : r = [id |-> i, entry |-> memory[i]]
      OBVIOUS
    <3>2. i \in Ids /\ r.id = i /\ r.entry = memory[i]
      BY <3>1 DEF Listed
    <3> QED
      BY <1>2, <3>2, EntryIsLater DEF Seen, Ids
  <2> QED
    BY <2>1 DEF RowsSeen
<1>6. Covers(memory, selected, mine, rows)
  <2>1. SUFFICES ASSUME mine.id \in Ids, memory[mine.id].project = selected, memory[mine.id].status # "superseded"
                 PROVE  \E r \in rows : r.id = mine.id /\ r.entry.version >= mine.version
    BY DEF Covers, Ids
  <2> DEFINE r == [id |-> mine.id, entry |-> memory[mine.id]]
  <2>2. r \in rows
    BY <1>1, <2>1 DEF Listed
  <2>3. mine.version <= memory[mine.id].version /\ mine.version \in Nat /\ memory[mine.id].version \in Nat
    BY <1>2, <2>1 DEF ViewIInv, MineRight, Entry
  <2>4. r.id = mine.id /\ r.entry.version >= mine.version
    BY <2>3
  <2> QED
    BY <2>2, <2>4
<1> HIDE DEF rows
<1>7. /\ new \in Loaded /\ new.stage = "answered" /\ new.of = selected /\ new.reply = rows
      /\ new # NoLoad
  <2>1. new \in Loaded /\ new.stage = "answered" /\ new.of = selected /\ new.reply = rows
    BY <1>1, <1>3 DEF Loaded
  <2> HIDE DEF new
  <2> QED
    BY <2>1, NoLoadIsRight
<1> HIDE DEF new
<1>8. load' \in [Loads -> Loaded] /\ load'[k] = new /\ \A j \in Loads : j # k => load'[j] = load[j]
  BY <1>4, <1>7 DEF ViewIInv, ViewTyped
<1>9. LoadRight(memory, selected, mine, new)
  BY <1>5, <1>6, <1>7 DEF LoadRight
<1>10. OneLoad'
  BY <1>1, <1>8 DEF ViewIInv, OneLoad
<1>11. \A j \in Loads : LoadRight(memory', selected', mine', load'[j])
  BY <1>4, <1>8, <1>9 DEF ViewIInv
<1> QED
  BY <1>4, <1>7, <1>8, <1>10, <1>11 DEF ViewIInv, ViewTyped

LEMMA ListArrivesKeeps ==
  ASSUME MemoryTyped, ViewIInv, NEW k \in Loads, ListArrives(k)
  PROVE  ViewIInv'
<1>1. /\ load[k] \in Loaded /\ load[k].stage = "answered" /\ LoadRight(memory, selected, mine, load[k])
      /\ load[k] # NoLoad
  BY NoLoadIsRight DEF ListArrives, ViewIInv, ViewTyped
<1>2. /\ load' = [load EXCEPT ![k] = NoLoad] /\ list' = [of |-> load[k].of, rows |-> load[k].reply]
      /\ fetching' = FALSE /\ UNCHANGED <<memory, selected, pending, mine>>
  BY DEF ListArrives, memoryVars
<1>3. load' \in [Loads -> Loaded] /\ load'[k] = NoLoad /\ \A j \in Loads : j # k => load'[j] = load[j]
  BY <1>2, NoLoadIsRight DEF ViewIInv, ViewTyped
<1>4. OneLoad' /\ \A j \in Loads : LoadRight(memory', selected', mine', load'[j])
  BY <1>2, <1>3, NoLoadIsRight DEF ViewIInv, OneLoad
<1>5. list'.of = selected /\ list'.rows = load[k].reply
  BY <1>1, <1>2 DEF LoadRight
<1>6. ListRight(memory, selected, mine, FALSE, list')
  BY <1>1, <1>5 DEF LoadRight, ListRight
<1> QED
  BY <1>2, <1>3, <1>4, <1>6 DEF ViewIInv, ViewTyped

-----------------------------------------------------------------------------
(* The report of the run *)

Generations == [pc : {"off", "write", "created", "failed"}, lists : SUBSET Nat, onto : Nat]

ReportsTyped ==
  /\ reports \in Seq(SUBSET Ids)
  /\ \A g \in Generators : writing[g].lists \subseteq Ids

ArtifactTyped ==
  /\ phase \in {"active"} \cup Terminal /\ session \in {"none", "open", "over"}
  /\ ending \in BOOLEAN /\ excused \in BOOLEAN /\ torn \subseteq {"restart", "reports", "silent"}
  /\ writing \in [Generators -> Generations]
  /\ \A g \in Generators : writing[g].onto \in 0..Len(reports)

\* While no two generations met, one is about to write at most, and it goes on the report that is there.
Alone ==
  "reports" \notin torn =>
    /\ Len(reports) <= 1
    /\ \A g \in Generators : writing[g].pc = "write" => writing[g].onto = Existing
    /\ \A g, h \in Generators : writing[g].pc = "write" /\ writing[h].pc = "write" => g = h

ArtifactIInv == ArtifactTyped /\ ReportsTyped /\ Alone

LEMMA NotWritingIs ==
  NotWriting \in Generations /\ NotWriting.pc = "off" /\ NotWriting.lists = {} /\ NotWriting.onto = 0
  BY DEF NotWriting, Generations

LEMMA SeqsGrow ==
  ASSUME NEW S, NEW T, S \subseteq T, NEW s \in Seq(SUBSET S)
  PROVE  s \in Seq(SUBSET T)
  OBVIOUS

LEMMA ArtifactStays ==
  ASSUME ArtifactIInv, Ids \subseteq Ids', UNCHANGED artifactVars
  PROVE  ArtifactIInv'
<1>1. ArtifactTyped' /\ Alone'
  BY DEF ArtifactIInv, artifactVars, ArtifactTyped, Alone, Existing
<1>2. reports' \in Seq(SUBSET Ids')
  BY SeqsGrow DEF ArtifactIInv, ReportsTyped, artifactVars
<1>3. \A g \in Generators : writing'[g].lists \subseteq Ids'
  BY DEF ArtifactIInv, ReportsTyped, artifactVars
<1> QED
  BY <1>1, <1>2, <1>3 DEF ArtifactIInv, ReportsTyped

LEMMA ReadsRight ==
  ASSUME MemoryTyped, ArtifactIInv
  PROVE  /\ Reads \in Generations /\ Reads.pc = "write" /\ Reads.lists \subseteq Ids /\ Reads.onto = Existing
         /\ Reads.onto \in 0..Len(reports) /\ Len(reports) \in Nat
<1>1. Ids \subseteq Nat
  BY TableOf DEF MemoryTyped
<1>2. Learned \subseteq Ids
  BY DEF Learned
<1>3. Len(reports) \in Nat /\ Existing \in 0..Len(reports)
  <2>1. reports \in Seq(SUBSET Ids)
    BY DEF ArtifactIInv, ReportsTyped
  <2>2. reports # <<>> => Len(reports) >= 1
    BY <2>1
  <2> QED
    BY <2>1, <2>2 DEF Existing
<1>4. Reads.pc = "write" /\ Reads.lists = Learned /\ Reads.onto = Existing /\ Reads \in Generations
  BY <1>1, <1>2, <1>3 DEF Reads, Generations
<1> QED
  BY <1>2, <1>3, <1>4, NotWritingIs

\* A generation begins.
LEMMA GenerationBegins ==
  ASSUME MemoryTyped, ArtifactIInv, NEW g \in Generators,
         writing' = [writing EXCEPT ![g] = Reads], UNCHANGED <<memory, phase, excused, reports>>,
         ending' \in BOOLEAN, session' \in {"none", "open", "over"}, torn' = torn \cup Meets
  PROVE  ArtifactIInv'
<1>1. /\ writing' \in [Generators -> Generations] /\ writing'[g] = Reads
      /\ \A h \in Generators : h # g => writing'[h] = writing[h]
  BY ReadsRight DEF ArtifactIInv, ArtifactTyped
<1>2. ArtifactTyped'
  BY <1>1, ReadsRight DEF ArtifactIInv, ArtifactTyped, Meets
<1>3. ReportsTyped'
  BY <1>1, ReadsRight DEF ArtifactIInv, ReportsTyped, Ids
<1>4. Alone'
  <2>1. SUFFICES ASSUME "reports" \notin torn'
                 PROVE  /\ Len(reports) <= 1
                        /\ \A h \in Generators : writing'[h].pc = "write" => writing'[h].onto = Existing
                        /\ \A h, x \in Generators :
                             writing'[h].pc = "write" /\ writing'[x].pc = "write" => h = x
    BY DEF Alone, Existing
  <2>2. Len(reports) <= 1
    BY <2>1 DEF ArtifactIInv, Alone
  <2>3. \A h \in Generators : h # g => writing'[h].pc # "write"
    BY <1>1, <2>1 DEF Meets
  <2> QED
    BY <1>1, <2>2, <2>3, ReadsRight
<1> QED
  BY <1>2, <1>3, <1>4 DEF ArtifactIInv

LEMMA EndingKeeps ==
  ASSUME MemoryTyped, ArtifactIInv, RunEnds \/ CompletedAppended \/ CompletedLost \/ SessionEnds
  PROVE  ArtifactIInv'
<1>1. CASE CompletedAppended
  <2>1. /\ UNCHANGED <<memory, phase, excused, reports>> /\ ending' = FALSE
        /\ session' \in {"none", "open", "over"}
    BY <1>1 DEF CompletedAppended, memoryVars, ArtifactIInv, ArtifactTyped
  <2>2. CASE Reported(phase)
    BY <1>1, <2>1, <2>2, ArtifactConstants, GenerationBegins DEF CompletedAppended
  <2>3. CASE ~Reported(phase)
    BY <1>1, <2>1, <2>3 DEF CompletedAppended, ArtifactIInv, ArtifactTyped, ReportsTyped, Alone, Existing, Ids
  <2> QED
    BY <2>2, <2>3
<1>2. CASE RunEnds \/ CompletedLost \/ SessionEnds
  <2>1. /\ UNCHANGED <<memory, excused, reports, writing>> /\ ending' \in BOOLEAN
        /\ phase' \in {"active"} \cup Terminal /\ session' \in {"none", "open", "over"}
        /\ torn' \subseteq {"restart", "reports", "silent"} /\ ("reports" \in torn' <=> "reports" \in torn)
    BY <1>2 DEF RunEnds, CompletedLost, SessionEnds, memoryVars, ArtifactIInv, ArtifactTyped
  <2> QED
    BY <2>1 DEF ArtifactIInv, ArtifactTyped, ReportsTyped, Alone, Existing, Ids
<1> QED
  BY <1>1, <1>2

LEMMA OnDemandKeeps ==
  ASSUME MemoryTyped, ArtifactIInv, NEW g \in Generators, OnDemand(g)
  PROVE  ArtifactIInv'
<1>1. /\ writing' = [writing EXCEPT ![g] = Reads] /\ torn' = torn \cup Meets
      /\ UNCHANGED <<memory, phase, excused, reports>> /\ ending' = ending /\ session' = session
  BY DEF OnDemand
<1> QED
  BY <1>1, GenerationBegins DEF ArtifactIInv, ArtifactTyped

LEMMA ReportingIs ==
  ASSUME ArtifactIInv, NEW g \in Generators, NEW pc \in {"off", "created", "failed"}, Reporting(g, pc)
  PROVE  /\ writing' \in [Generators -> Generations]
         /\ writing'[g].pc = pc /\ writing'[g].lists = {} /\ writing'[g].onto = 0
         /\ \A h \in Generators : h # g => writing'[h] = writing[h]
<1>1. [NotWriting EXCEPT !.pc = pc] \in Generations /\ [NotWriting EXCEPT !.pc = pc].pc = pc
      /\ [NotWriting EXCEPT !.pc = pc].lists = {} /\ [NotWriting EXCEPT !.pc = pc].onto = 0
  BY DEF NotWriting, Generations
<1> QED
  BY <1>1 DEF Reporting, ArtifactIInv, ArtifactTyped

\* A generation that writes no report goes on or returns.
LEMMA ReportRests ==
  ASSUME ArtifactIInv, NEW g \in Generators, ReportFails(g) \/ ReportReturns(g) \/ FailureLost(g)
  PROVE  ArtifactIInv'
<1>1. /\ UNCHANGED <<memory, phase, ending, session, reports>> /\ excused' \in BOOLEAN
      /\ torn' \subseteq {"restart", "reports", "silent"} /\ ("reports" \in torn' <=> "reports" \in torn)
      /\ \E pc \in {"off", "created", "failed"} : Reporting(g, pc)
  BY DEF ReportFails, ReportReturns, FailureLost, memoryVars, ArtifactIInv, ArtifactTyped
<1>2. /\ writing' \in [Generators -> Generations]
      /\ writing'[g].pc # "write" /\ writing'[g].lists = {} /\ writing'[g].onto = 0
      /\ \A h \in Generators : h # g => writing'[h] = writing[h]
  BY <1>1, ReportingIs
<1>3. Len(reports) \in Nat
  BY DEF ArtifactIInv, ReportsTyped
<1>4. ArtifactTyped'
  BY <1>1, <1>2, <1>3 DEF ArtifactIInv, ArtifactTyped
<1>5. ReportsTyped'
  BY <1>1, <1>2 DEF ArtifactIInv, ReportsTyped, Ids
<1>6. Alone'
  BY <1>1, <1>2 DEF ArtifactIInv, Alone, Existing
<1> QED
  BY <1>4, <1>5, <1>6 DEF ArtifactIInv

LEMMA WriteReportKeeps ==
  ASSUME MemoryTyped, ArtifactIInv, NEW g \in Generators, WriteReport(g)
  PROVE  ArtifactIInv'
<1> DEFINE lists == writing[g].lists
           onto == writing[g].onto
<1>1. /\ writing[g].pc = "write" /\ \E pc \in {"off", "created", "failed"} : Reporting(g, pc)
      /\ reports' = IF onto # 0 THEN [reports EXCEPT ![onto] = lists] ELSE Append(reports, lists)
      /\ UNCHANGED <<memory, phase, ending, excused, session, torn>>
  BY DEF WriteReport, memoryVars
<1>2. /\ reports \in Seq(SUBSET Ids) /\ Len(reports) \in Nat /\ lists \in SUBSET Ids /\ onto \in 0..Len(reports)
  <2>1. reports \in Seq(SUBSET Ids) /\ lists \in SUBSET Ids
    BY DEF ArtifactIInv, ReportsTyped
  <2>2. onto \in 0..Len(reports)
    BY DEF ArtifactIInv, ArtifactTyped
  <2> QED
    BY <2>1, <2>2
<1> HIDE DEF lists
<1>3. /\ reports' \in Seq(SUBSET Ids) /\ Len(reports') \in Nat /\ Len(reports) <= Len(reports')
      /\ Len(reports') = IF onto # 0 THEN Len(reports) ELSE Len(reports) + 1
  <2>1. CASE onto # 0
    <3>1. onto \in 1..Len(reports) /\ reports' = [reports EXCEPT ![onto] = lists]
      BY <1>1, <1>2, <2>1
    <3>2. reports' \in Seq(SUBSET Ids) /\ Len(reports') = Len(reports)
      BY <1>2, <3>1, ExceptSeq
    <3> QED
      BY <1>2, <2>1, <3>2
  <2>2. CASE onto = 0
    BY <1>1, <1>2, <2>2
  <2> QED
    BY <2>1, <2>2
<1>4. /\ writing' \in [Generators -> Generations]
      /\ writing'[g].pc # "write" /\ writing'[g].lists = {} /\ writing'[g].onto = 0
      /\ \A h \in Generators : h # g => writing'[h] = writing[h]
  BY <1>1, ReportingIs
<1>5. ArtifactTyped'
  <2>1. \A h \in Generators : writing'[h].onto \in 0..Len(reports')
    <3>1. ASSUME NEW h \in Generators
          PROVE  writing'[h].onto \in 0..Len(reports')
      <4>1. CASE h = g
        BY <1>3, <1>4, <4>1
      <4>2. CASE h # g
        <5>1. writing'[h] = writing[h] /\ writing[h].onto \in 0..Len(reports)
          BY <1>4, <4>2 DEF ArtifactIInv, ArtifactTyped
        <5>2. writing[h].onto \in 0..Len(reports')
          BY <1>2, <1>3, <5>1
        <5> QED
          BY <5>1, <5>2
      <4> QED
        BY <4>1, <4>2
    <3> QED
      BY <3>1
  <2> QED
    BY <1>1, <1>4, <2>1 DEF ArtifactIInv, ArtifactTyped
<1>6. ReportsTyped'
  <2>1. \A h \in Generators : writing'[h].lists \subseteq Ids
    BY <1>4 DEF ArtifactIInv, ReportsTyped
  <2> QED
    BY <1>1, <1>3, <2>1 DEF ReportsTyped, Ids
<1>7. Alone'
  <2>1. SUFFICES ASSUME "reports" \notin torn
                 PROVE  /\ Len(reports') <= 1
                        /\ \A h \in Generators : writing'[h].pc # "write"
    BY <1>1 DEF Alone
  <2>2. /\ Len(reports) <= 1 /\ onto = Existing
        /\ \A h \in Generators : h # g => writing[h].pc # "write"
    BY <1>1, <2>1 DEF ArtifactIInv, Alone
  <2>3. Len(reports') <= 1
    <3>1. CASE reports = <<>>
      <4>1. onto = 0 /\ Len(reports) = 0
        BY <2>2, <3>1 DEF Existing
      <4> QED
        BY <1>3, <4>1
    <3>2. CASE reports # <<>>
      <4>1. onto # 0
        BY <2>2, <3>2 DEF Existing
      <4> QED
        BY <1>3, <2>2, <4>1
    <3> QED
      BY <3>1, <3>2
  <2> QED
    BY <1>4, <2>2, <2>3
<1> QED
  BY <1>5, <1>6, <1>7 DEF ArtifactIInv

LEMMA CrashKeeps ==
  ASSUME MemoryIInv, ArtifactIInv, Crash
  PROVE  MemoryIInv' /\ Later /\ UNCHANGED memory /\ ArtifactIInv'
<1>1. MemoryIInv' /\ Later /\ UNCHANGED memory
  BY EndedKeeps DEF Crash
<1>2. /\ writing' = [g \in Generators |-> NotWriting] /\ torn' = torn \cup {"restart"} /\ ending' = FALSE
      /\ session' = IF session = "open" THEN "over" ELSE session
      /\ UNCHANGED <<phase, excused, reports>>
  BY DEF Crash
<1>3. Len(reports) \in Nat
  BY DEF ArtifactIInv, ReportsTyped
<1>4. ArtifactTyped'
  <2>1. /\ phase' \in {"active"} \cup Terminal /\ session' \in {"none", "open", "over"}
        /\ torn' \subseteq {"restart", "reports", "silent"}
    BY <1>2 DEF ArtifactIInv, ArtifactTyped
  <2>2. ending' \in BOOLEAN /\ excused' \in BOOLEAN
    BY <1>2 DEF ArtifactIInv, ArtifactTyped
  <2>3. writing' \in [Generators -> Generations] /\ \A g \in Generators : writing'[g].onto \in 0..Len(reports')
    BY <1>2, <1>3, NotWritingIs
  <2> QED
    BY <2>1, <2>2, <2>3 DEF ArtifactTyped
<1>5. ReportsTyped'
  BY <1>1, <1>2, NotWritingIs DEF ArtifactIInv, ReportsTyped, Ids
<1>6. Alone'
  BY <1>2, NotWritingIs DEF ArtifactIInv, Alone
<1> QED
  BY <1>1, <1>4, <1>5, <1>6 DEF ArtifactIInv

-----------------------------------------------------------------------------
(* Every step *)

RecordsIInv == MemoryIInv /\ ArtifactIInv /\ ViewIInv

LEMMA Shapes ==
  ASSUME RecordsIInv
  PROVE  MemoryIInv /\ MemoryTyped /\ ArtifactIInv /\ ViewIInv /\ ViewTyped /\ selected \in Projects
  BY DEF RecordsIInv, MemoryIInv, ViewIInv, ViewTyped

LEMMA NextTable ==
  ASSUME MemoryIInv'
  PROVE  memory' \in Seq(Entry)
  BY DEF MemoryIInv, MemoryTyped

\* The call that has ended is the one that has moved.
LEMMA EndedIsMover ==
  ASSUME MemoryTyped, NEW w \in Writers, NEW f \in Frames, Call(w, f), NEW x \in Writers,
         frame[x].todo # <<>>, frame'[x] = Off
  PROVE  x = w
<1>1. x # w => frame'[x] = frame[x]
  BY CallRight
<1> QED
  BY <1>1, OffFrame

LEMMA CallSteps ==
  ASSUME MemoryIInv, NEW w \in Writers, Put(w) \/ Mark(w) \/ Change(w) \/ Stale(w)
  PROVE  MemoryIInv' /\ Later /\ ChangeOnSeen
<1>1. MemoryIInv' /\ Later
  BY PutKeeps, MarkKeeps, ChangeKeeps, StaleKeeps
<1>2. PICK f \in Frames : Call(w, f)
  <2>1. frame[w] \in Frames /\ frame'[w] \in Frames /\ frame' = [frame EXCEPT ![w] = frame'[w]]
    <3>1. \E f : Call(w, f)
      BY DEF Put, Mark, Change, Stale, Return
    <3>2. frame' \in [Writers -> Frames] /\ frame \in [Writers -> Frames]
      BY <1>1 DEF MemoryIInv, MemoryTyped
    <3> QED
      BY <3>1, <3>2 DEF Call
  <2> QED
    BY <2>1 DEF Call
<1>3. ASSUME NEW x \in Writers, At(x, "update") \/ At(x, "status"), memory' # memory, frame'[x] = Off
      PROVE  memory[frame[x].id] = frame[x].seen
  <2>1. MemoryTyped /\ frame[x].todo \in Changes
    BY <1>3, StepAt DEF MemoryIInv, Changes
  <2>2. frame[x].todo # <<>>
    BY <2>1, TodosApart DEF Changes
  <2>3. x = w
    BY <1>2, <1>3, <2>1, <2>2, EndedIsMover
  <2>4. ~Put(w) /\ ~Mark(w)
    BY <2>1, <2>3, StepAt, TodosApart DEF Changes, Put, Mark
  <2>5. ~Stale(w)
    BY <1>3 DEF Stale
  <2> QED
    BY <2>3, <2>4, <2>5, ChangeKeeps
<1> QED
  BY <1>1, <1>3 DEF ChangeOnSeen

LEMMA SameIsSeen ==
  ASSUME UNCHANGED memory
  PROVE  ChangeOnSeen
  BY DEF ChangeOnSeen

LEMMA MemoryStepKeeps ==
  ASSUME RecordsIInv, NEW w \in Writers, MemoryStep(w)
  PROVE  RecordsIInv' /\ Later /\ ChangeOnSeen
<1>1. MemoryIInv /\ MemoryTyped /\ ArtifactIInv /\ ViewIInv /\ ViewTyped /\ selected \in Projects
  BY Shapes
<1>2. MemoryIInv' /\ Later /\ ChangeOnSeen
  BY <1>1, CallSteps DEF MemoryStep
<1>3. memory' \in Seq(Entry) /\ Ids \subseteq Ids'
  BY <1>2, NextTable DEF Later
<1>4. UNCHANGED artifactVars
  BY DEF MemoryStep, MutationReturns
<1>5. ArtifactIInv'
  BY <1>1, <1>3, <1>4, ArtifactStays
<1>6. CASE UNCHANGED <<selected, list, fetching, load, mine>> /\ pending' \in BOOLEAN
  <2>1. ViewIInv'
    BY <1>1, <1>2, <1>3, <1>6, ViewStays
  <2> QED
    BY <1>2, <1>5, <2>1 DEF RecordsIInv
<1>7. CASE \E written : MutationReturns(written) /\ MineRight(memory', written)
  <2>1. PICK written : MutationReturns(written) /\ MineRight(memory', written)
    BY <1>7
  <2>2. LoadList(selected) /\ selected' = selected /\ UNCHANGED list /\ pending' \in BOOLEAN /\ mine' = written
    BY <2>1 DEF MutationReturns, MayReload
  <2>3. ViewIInv'
    BY <1>1, <1>2, <1>3, <2>1, <2>2, LoadBegins
  <2> QED
    BY <1>2, <1>5, <2>3 DEF RecordsIInv
<1>8. \/ UNCHANGED <<selected, list, fetching, load, mine>> /\ pending' \in BOOLEAN
      \/ \E written : MutationReturns(written) /\ MineRight(memory', written)
  <2>1. UNCHANGED viewVars => UNCHANGED <<selected, list, fetching, load, mine>> /\ pending' \in BOOLEAN
    BY <1>1 DEF viewVars, ViewTyped
  <2>2. CASE Put(w) /\ MutationReturns([id |-> Len(memory'), version |-> 1])
    <3>1. Len(memory') \in DOMAIN memory' /\ memory'[Len(memory')].version = 1
      BY <1>1, <2>2, PutKeeps DEF Ids
    <3>2. MineRight(memory', [id |-> Len(memory'), version |-> 1])
      BY <3>1 DEF MineRight
    <3> QED
      BY <2>2, <3>2
  <2>3. CASE Mark(w) /\ MutationReturns(mine)
    <3>1. MineRight(memory', mine)
      BY <1>1, <1>2, <1>3, MineStays DEF ViewIInv
    <3> QED
      BY <2>3, <3>1
  <2>4. CASE Change(w) /\ MutationReturns([id |-> frame[w].id, version |-> memory'[frame[w].id].version])
    <3> DEFINE i == frame[w].id
    <3>1. i \in DOMAIN memory' /\ memory'[i] \in Entry
      BY <1>1, <1>3, <2>4, ChangeKeeps, TableOfNext DEF Ids
    <3>2. memory'[i].version \in Nat
      BY <3>1 DEF Entry
    <3>3. MineRight(memory', [id |-> i, version |-> memory'[i].version])
      BY <3>1, <3>2 DEF MineRight
    <3> QED
      BY <2>4, <3>3
  <2>5. CASE Stale(w) /\ pending' = FALSE /\ UNCHANGED <<artifactVars, selected, list, fetching, load, mine>>
    BY <2>5
  <2> QED
    BY <2>1, <2>2, <2>3, <2>4, <2>5 DEF MemoryStep
<1> QED
  BY <1>6, <1>7, <1>8

\* A creation or a change begins, here, elsewhere or in the distillation.
LEMMA CallBegins ==
  ASSUME RecordsIInv, UNCHANGED artifactVars, UNCHANGED <<selected, list, fetching, load, mine>>, pending' \in BOOLEAN,
         MemoryIInv', Later, UNCHANGED memory
  PROVE  RecordsIInv' /\ Later /\ ChangeOnSeen
<1>1. MemoryIInv /\ MemoryTyped /\ ArtifactIInv /\ ViewIInv
  BY Shapes
<1>2. memory' \in Seq(Entry) /\ Ids \subseteq Ids'
  BY NextTable DEF Later
<1>3. ArtifactIInv' /\ ViewIInv'
  BY <1>1, <1>2, ArtifactStays, ViewStays
<1> QED
  BY <1>3, SameIsSeen DEF RecordsIInv

LEMMA MutatesKeeps ==
  ASSUME RecordsIInv, Mutates
  PROVE  RecordsIInv' /\ Later /\ ChangeOnSeen
<1>1. MemoryIInv /\ ViewIInv /\ selected \in Projects /\ Tab \in Writers /\ FALSE \in BOOLEAN
  BY Shapes, TabConstants
<1>2. UNCHANGED artifactVars /\ UNCHANGED <<selected, list, fetching, load, mine>> /\ pending' \in BOOLEAN
  BY DEF Mutates
<1>3. CASE \E t \in Titles : Create(Tab, selected, t, FALSE)
  <2>1. MemoryIInv' /\ Later
    BY <1>1, <1>3, CreateKeeps
  <2>2. UNCHANGED memory
    BY <1>3 DEF Create
  <2> QED
    BY <1>2, <2>1, <2>2, CallBegins
<1>4. CASE list # None /\ \E r \in list.rows :
             \/ \E t \in Titles : Update(Tab, r.id, r.entry, t)
             \/ \E to \in Statuses : SetStatus(Tab, r.id, r.entry, to)
  <2>1. PICK r \in list.rows : \/ \E t \in Titles : Update(Tab, r.id, r.entry, t)
                              \/ \E to \in Statuses : SetStatus(Tab, r.id, r.entry, to)
    BY <1>4
  <2>2. Seen(memory, r.id, r.entry)
    BY <1>1, <1>4 DEF ViewIInv, ListRight, RowsSeen
  <2>3. MemoryIInv' /\ Later
    BY <1>1, <2>1, <2>2, ChangeBegins
  <2>4. UNCHANGED memory
    BY <2>1 DEF Update, SetStatus
  <2> QED
    BY <1>2, <2>3, <2>4, CallBegins
<1> QED
  BY <1>3, <1>4 DEF Mutates, Statuses

LEMMA ElsewhereKeeps ==
  ASSUME RecordsIInv, NEW w \in Writers, Elsewhere(w)
  PROVE  RecordsIInv' /\ Later /\ ChangeOnSeen
<1>1. MemoryIInv /\ MemoryTyped /\ ViewTyped /\ FALSE \in BOOLEAN
  BY Shapes
<1>2. UNCHANGED artifactVars /\ UNCHANGED <<selected, list, fetching, load, mine>> /\ pending' \in BOOLEAN
  BY <1>1 DEF Elsewhere, viewVars, ViewTyped
<1>3. CASE \E p \in Projects, t \in Titles : Create(w, p, t, FALSE)
  <2>1. MemoryIInv' /\ Later
    BY <1>1, <1>3, CreateKeeps
  <2>2. UNCHANGED memory
    BY <1>3 DEF Create
  <2> QED
    BY <1>2, <2>1, <2>2, CallBegins
<1>4. CASE \E i \in Ids : \/ \E t \in Titles : Update(w, i, memory[i], t)
                          \/ \E to \in Statuses : SetStatus(w, i, memory[i], to)
  <2>1. PICK i \in Ids : \/ \E t \in Titles : Update(w, i, memory[i], t)
                        \/ \E to \in Statuses : SetStatus(w, i, memory[i], to)
    BY <1>4
  <2>2. Seen(memory, i, memory[i])
    BY <1>1, TableOf, EntryIsLater DEF Seen, MemoryTyped, Ids
  <2>3. MemoryIInv' /\ Later
    BY <1>1, <2>1, <2>2, ChangeBegins
  <2>4. UNCHANGED memory
    BY <2>1 DEF Update, SetStatus
  <2> QED
    BY <1>2, <2>3, <2>4, CallBegins
<1> QED
  BY <1>3, <1>4 DEF Elsewhere, Statuses

LEMMA DistillKeeps ==
  ASSUME RecordsIInv, Distill, UNCHANGED viewVars
  PROVE  RecordsIInv' /\ Later /\ ChangeOnSeen
<1>1. MemoryIInv /\ ViewTyped /\ Lead \in Writers /\ RunProject \in Projects /\ TRUE \in BOOLEAN
  BY Shapes, MemoryConstants, ArtifactConstants
<1>2. UNCHANGED artifactVars /\ UNCHANGED <<selected, list, fetching, load, mine>> /\ pending' \in BOOLEAN
  BY <1>1 DEF Distill, viewVars, ViewTyped
<1>3. PICK t \in Titles : Create(Lead, RunProject, t, TRUE)
  BY DEF Distill
<1>4. MemoryIInv' /\ Later
  BY <1>1, <1>3, CreateKeeps
<1>5. UNCHANGED memory
  BY <1>3 DEF Create
<1> QED
  BY <1>2, <1>4, <1>5, CallBegins

\* Steps of the run and its report.
LEMMA RunStepKeeps ==
  ASSUME RecordsIInv, UNCHANGED viewVars,
         Ending \/ \E g \in Generators : Reports(g)
  PROVE  RecordsIInv' /\ Later /\ ChangeOnSeen
<1>1. MemoryIInv /\ MemoryTyped /\ ArtifactIInv /\ ViewIInv /\ ViewTyped
  BY Shapes
<1>2. UNCHANGED <<memory, frame, retired, cut>>
  BY DEF Ending, Reports, Answered, RunEnds, CompletedAppended, CompletedLost, SessionEnds, OnDemand,
         WriteReport, ReportReturns, ReportFails, FailureLost, memoryVars
<1>3. MemoryIInv' /\ Later /\ memory' \in Seq(Entry)
  BY <1>1, <1>2, MemoryStays, NextTable
<1>4. ArtifactIInv'
  BY <1>1, EndingKeeps, OnDemandKeeps, WriteReportKeeps, ReportRests DEF Ending, Reports, Answered
<1>5. ViewIInv'
  <2>1. UNCHANGED <<selected, list, fetching, load, mine>> /\ pending' \in BOOLEAN
    BY <1>1 DEF viewVars, ViewTyped
  <2> QED
    BY <1>1, <1>3, <2>1, ViewStays
<1> QED
  BY <1>2, <1>3, <1>4, <1>5, SameIsSeen DEF RecordsIInv

LEMMA HostCrashesKeeps ==
  ASSUME RecordsIInv, HostCrashes
  PROVE  RecordsIInv' /\ Later /\ ChangeOnSeen
<1>1. MemoryIInv /\ MemoryTyped /\ ArtifactIInv /\ ViewIInv /\ ViewTyped
  BY Shapes
<1>2. MemoryIInv' /\ Later /\ UNCHANGED memory /\ ArtifactIInv'
  BY <1>1, CrashKeeps DEF HostCrashes
<1>3. /\ pending' = FALSE /\ fetching' = FALSE /\ load' = [k \in Loads |-> NoLoad] /\ UNCHANGED <<selected, mine>>
      /\ list' = IF \E k \in Loads : load[k] # NoLoad THEN None ELSE list
  BY DEF HostCrashes
<1>4. ViewTyped' /\ OneLoad' /\ \A k \in Loads : LoadRight(memory', selected', mine', load'[k])
  BY <1>1, <1>3, NoLoadIsRight DEF ViewTyped, OneLoad
<1>5. ListRight(memory', selected', mine', fetching', list')
  <2>1. CASE \E k \in Loads : load[k] # NoLoad
    BY <1>3, <2>1 DEF ListRight
  <2>2. CASE ~\E k \in Loads : load[k] # NoLoad
    <3>1. fetching = FALSE /\ list' = list
      BY <1>1, <1>3, <2>2 DEF ViewIInv, ViewTyped
    <3> QED
      BY <1>1, <1>2, <1>3, <3>1 DEF ViewIInv
  <2> QED
    BY <2>1, <2>2
<1>6. MineRight(memory', mine')
  BY <1>1, <1>2, <1>3 DEF ViewIInv
<1>7. ViewIInv'
  BY <1>3, <1>4, <1>5, <1>6 DEF ViewIInv
<1> QED
  BY <1>2, <1>7, SameIsSeen DEF RecordsIInv

\* Steps of the browser alone.
LEMMA BrowserKeeps ==
  ASSUME RecordsIInv,
         (\E p \in Projects : Select(p)) \/ (\E k \in Loads : ServeList(k) \/ ListArrives(k)) \/ UNCHANGED vars
  PROVE  RecordsIInv' /\ Later /\ ChangeOnSeen
<1>1. MemoryIInv /\ MemoryTyped /\ ArtifactIInv /\ ViewIInv /\ ViewTyped
  BY Shapes
<1>2. UNCHANGED <<memory, frame, retired, cut>> /\ UNCHANGED artifactVars
  BY DEF Select, ServeList, ListArrives, vars, memoryVars
<1>3. MemoryIInv' /\ Later /\ memory' \in Seq(Entry) /\ Ids \subseteq Ids'
  BY <1>1, <1>2, MemoryStays, NextTable DEF Ids
<1>4. ArtifactIInv'
  BY <1>1, <1>2, <1>3, ArtifactStays
<1>5. ViewIInv'
  <2>1. ASSUME NEW p \in Projects, Select(p) PROVE ViewIInv'
    <3>1. LoadList(p) /\ selected' = p /\ UNCHANGED list /\ pending' \in BOOLEAN /\ mine' = mine
      BY <1>1, <2>1 DEF Select, ViewTyped
    <3>2. MineRight(memory', mine')
      BY <1>1, <1>2, <3>1 DEF ViewIInv
    <3> QED
      BY <1>1, <1>3, <3>1, <3>2, LoadBegins
  <2>2. CASE UNCHANGED vars
    <3>1. UNCHANGED <<selected, list, fetching, load, mine>> /\ pending' \in BOOLEAN
      BY <1>1, <2>2 DEF vars, viewVars, ViewTyped
    <3> QED
      BY <1>1, <1>3, <3>1, ViewStays
  <2> QED
    BY <1>1, <2>1, <2>2, ServeListKeeps, ListArrivesKeeps
<1> QED
  BY <1>2, <1>3, <1>4, <1>5, SameIsSeen DEF RecordsIInv

LEMMA RecordsStep ==
  RecordsIInv /\ [Next]_vars => RecordsIInv' /\ Later /\ ChangeOnSeen
<1> SUFFICES ASSUME RecordsIInv, [Next]_vars PROVE RecordsIInv' /\ Later /\ ChangeOnSeen
  OBVIOUS
<1>1. CASE (\E p \in Projects : Select(p)) \/ (\E k \in Loads : ServeList(k) \/ ListArrives(k)) \/ UNCHANGED vars
  BY <1>1, BrowserKeeps
<1>2. CASE Mutates
  BY <1>2, MutatesKeeps
<1>3. CASE \E w \in Writers : MemoryStep(w) \/ Elsewhere(w)
  BY <1>3, MemoryStepKeeps, ElsewhereKeeps
<1>4. CASE Distill /\ UNCHANGED viewVars
  BY <1>4, DistillKeeps
<1>5. CASE UNCHANGED viewVars /\ (Ending \/ \E g \in Generators : Reports(g))
  BY <1>5, RunStepKeeps
<1>6. CASE HostCrashes
  BY <1>6, HostCrashesKeeps
<1> QED
  BY <1>1, <1>2, <1>3, <1>4, <1>5, <1>6 DEF Next

LEMMA RecordsStart == Init => RecordsIInv
<1> SUFFICES ASSUME Init PROVE RecordsIInv
  OBVIOUS
<1>1. /\ memory = Before /\ frame = [w \in Writers |-> Off]
      /\ retired = {i \in Ids : memory[i].status = "superseded" /\ \A j \in Ids : memory[j].supersedes # i}
      /\ cut = {i \in Ids : memory[i].supersedes # 0 /\ memory[memory[i].supersedes].status # "superseded"}
  BY DEF Init, MemoryInit
<1>2. MemoryTyped
  BY <1>1, MemoryBefore, OffFrame DEF MemoryTyped, Ids
<1>3. FramesRight
  BY <1>1, OffRight DEF FramesRight
<1>4. Complete /\ SuccessorKept
  BY <1>1 DEF Complete, SuccessorKept
<1>5. ArtifactIInv
  <2>1. /\ phase = "active" /\ session = "none" /\ reports = <<>> /\ torn = {}
        /\ ending = FALSE /\ excused = FALSE
        /\ writing = [g \in Generators |-> NotWriting]
    BY DEF Init, ArtifactInit
  <2>2. Len(reports) = 0 /\ reports \in Seq(SUBSET Ids)
    BY <2>1
  <2>3. ArtifactTyped
    <3>1. ending \in BOOLEAN /\ excused \in BOOLEAN
      BY <2>1
    <3>2. /\ phase \in {"active"} \cup Terminal /\ session \in {"none", "open", "over"}
          /\ torn \subseteq {"restart", "reports", "silent"} /\ writing \in [Generators -> Generations]
          /\ \A g \in Generators : writing[g].onto \in 0..Len(reports)
      BY <2>1, <2>2, NotWritingIs
    <3> QED
      BY <3>1, <3>2 DEF ArtifactTyped
  <2>4. ReportsTyped /\ Alone
    BY <2>1, <2>2, NotWritingIs DEF ReportsTyped, Alone
  <2> QED
    BY <2>3, <2>4 DEF ArtifactIInv
<1>6. ViewIInv
  <2>1. /\ selected \in Projects /\ list = None /\ fetching = FALSE /\ pending = FALSE /\ mine = Nothing
        /\ load = [k \in Loads |-> NoLoad]
    BY DEF Init
  <2>2. ViewTyped /\ OneLoad /\ \A k \in Loads : LoadRight(memory, selected, mine, load[k])
    BY <2>1, NoLoadIsRight DEF ViewTyped, OneLoad
  <2>3. MineRight(memory, mine) /\ ListRight(memory, selected, mine, fetching, list)
    BY <2>1 DEF MineRight, ListRight, Nothing
  <2> QED
    BY <2>1, <2>2, <2>3 DEF ViewIInv
<1> QED
  BY <1>2, <1>3, <1>4, <1>5, <1>6 DEF RecordsIInv, MemoryIInv

LEMMA RecordsSettled == RecordsIInv => RecordsInv
<1> SUFFICES ASSUME RecordsIInv PROVE RecordsInv
  OBVIOUS
<1>1. MemoryIInv /\ MemoryTyped /\ ArtifactIInv /\ ViewIInv /\ ViewTyped
  BY Shapes
<1>2. MemoryTypeOK
  <2>1. \A w \in Writers : frame[w].todo \in Seq({"put", "mark", "update", "status"}) /\ frame[w].id \in Ids \cup {0}
    BY <1>1, Firsts DEF MemoryIInv, MemoryTyped, FramesRight, FrameRight, Frames, Ids
  <2> QED
    BY <1>1, <2>1 DEF MemoryTyped, MemoryTypeOK
<1>3. ArtifactTypeOK
  <2>1. \A k \in DOMAIN reports : reports[k] \subseteq Ids
    BY <1>1 DEF ArtifactIInv, ReportsTyped
  <2>2. \A g \in Generators : writing[g].pc \in {"off", "write", "created", "failed"} /\ writing[g].onto \in 0..Len(reports)
    BY <1>1 DEF ArtifactIInv, ArtifactTyped, Generations
  <2> QED
    BY <1>1, <2>1, <2>2 DEF ArtifactIInv, ArtifactTyped, ArtifactTypeOK
<1>4. Cardinality({k \in Loads : load[k] # NoLoad}) <= 1
  <2> DEFINE busy == {k \in Loads : load[k] # NoLoad}
  <2>1. \A j, k \in busy : j = k
    BY <1>1 DEF ViewIInv, OneLoad
  <2> HIDE DEF busy
  <2>2. CASE busy = {}
    <3>1. Cardinality({}) = 0
      BY FS_EmptySet
    <3> QED
      BY <2>2, <3>1 DEF busy
  <2>3. CASE busy # {}
    <3>1. PICK k : busy = {k}
      BY <2>1, <2>3
    <3>2. Cardinality({k}) = 1
      BY FS_Singleton
    <3> QED
      BY <3>1, <3>2 DEF busy
  <2> QED
    BY <2>2, <2>3
<1>5. TypeOK
  <2>1. \A k \in Loads : load[k].stage \in {"none", "asked", "answered"}
    BY <1>1 DEF ViewTyped, Loaded
  <2> QED
    BY <1>1, <1>2, <1>3, <1>4, <2>1 DEF TypeOK, ViewIInv, ViewTyped, MineRight, Ids
<1>6. SupersessionComplete
  <2>1. \A t : Marks(frame, t) => \E w \in Writers : At(w, "mark") /\ frame[w].id = t
    BY <1>1, StepAt DEF Marks
  <2> QED
    BY <1>1, <2>1 DEF MemoryIInv, Complete, SupersessionComplete
<1>7. OneReport
  <2>1. reports \in Seq(SUBSET Ids) /\ Len(reports) \in Nat
    BY <1>1 DEF ArtifactIInv, ReportsTyped
  <2> QED
    BY <1>1, <2>1 DEF ArtifactIInv, Alone, OneReport
<1>8. ListMatchesSelection /\ OwnChangeShown
  BY <1>1 DEF ViewIInv, ListRight, Covers, ListMatchesSelection, OwnChangeShown, Ids
<1> QED
  BY <1>1, <1>5, <1>6, <1>7, <1>8 DEF RecordsInv, MemoryIInv

-----------------------------------------------------------------------------
(* Places in an order *)

LEMMA CountUpTo ==
  ASSUME NEW n \in Nat
  PROVE  IsFiniteSet(1..n) /\ Cardinality(1..n) = n
<1>1. 1 \in Int /\ n \in Int  OBVIOUS
<1>2. IsFiniteSet(1..n) /\ Cardinality(1..n) = IF 1 > n THEN 0 ELSE n - 1 + 1  BY <1>1, FS_Interval
<1> QED  BY <1>2

\* R orders S: of two elements one precedes the other.
Orders(R, S) ==
  /\ \A x \in S : <<x, x>> \notin R
  /\ \A x, y \in S : x = y \/ <<x, y>> \in R \/ <<y, x>> \in R
  /\ \A x, y, z \in S : <<x, y>> \in R /\ <<y, z>> \in R => <<x, z>> \in R

PlaceIn(S, R, x) == Cardinality({f \in S : <<x, f>> \notin R})

\* The elements have the places 1 to n, and the order is that of their places.
LEMMA PlacesAre ==
  ASSUME NEW S, IsFiniteSet(S), NEW R, Orders(R, S)
  PROVE  /\ Cardinality(S) \in Nat
         /\ \A x \in S : PlaceIn(S, R, x) \in 1..Cardinality(S)
         /\ \A n \in 1..Cardinality(S) : \E x \in S : PlaceIn(S, R, x) = n
         /\ \A x, y \in S : PlaceIn(S, R, x) = PlaceIn(S, R, y) => x = y
         /\ \A x, y \in S : PlaceIn(S, R, x) < PlaceIn(S, R, y) => <<x, y>> \in R
<1> DEFINE Upto(x) == {f \in S : <<x, f>> \notin R}
           n == Cardinality(S)
           place == [x \in S |-> PlaceIn(S, R, x)]
<1>1. n \in Nat  BY FS_CardinalityType
<1>2. \A x \in S : Upto(x) \in SUBSET S /\ x \in Upto(x)  BY DEF Orders
<1>3. ASSUME NEW x \in S
      PROVE  IsFiniteSet(Upto(x)) /\ Cardinality(Upto(x)) \in 1..n
  <2>1. Upto(x) \in SUBSET S /\ Upto(x) # {}  BY <1>2
  <2> HIDE DEF Upto
  <2>2. IsFiniteSet(Upto(x)) /\ Cardinality(Upto(x)) <= n  BY <2>1, FS_Subset
  <2>3. Cardinality(Upto(x)) \in Nat /\ Cardinality(Upto(x)) # 0  BY <2>1, <2>2, FS_CardinalityType, FS_EmptySet
  <2> QED  BY <1>1, <2>2, <2>3
<1>4. ASSUME NEW x \in S, NEW y \in S, <<x, y>> \in R
      PROVE  Cardinality(Upto(x)) < Cardinality(Upto(y))
  <2>1. Upto(x) \in SUBSET Upto(y)  BY <1>4 DEF Orders
  <2>2. y \in Upto(y) /\ y \notin Upto(x)  BY <1>2, <1>4
  <2>3. IsFiniteSet(Upto(x)) /\ IsFiniteSet(Upto(y)) /\ Cardinality(Upto(x)) \in Nat /\ Cardinality(Upto(y)) \in Nat
    BY <1>1, <1>3
  <2> HIDE DEF Upto
  <2>4. Cardinality(Upto(x)) <= Cardinality(Upto(y)) /\ Cardinality(Upto(x)) # Cardinality(Upto(y))
    BY <2>1, <2>2, <2>3, FS_Subset
  <2> QED  BY <2>3, <2>4
<1>5. \A x \in S : PlaceIn(S, R, x) = Cardinality(Upto(x))  BY DEF PlaceIn
<1> HIDE DEF Upto
<1>6. place \in [S -> 1..n]  BY <1>3, <1>5
<1>7. ASSUME NEW x \in S, NEW y \in S
      PROVE  /\ PlaceIn(S, R, x) = PlaceIn(S, R, y) => x = y
             /\ PlaceIn(S, R, x) < PlaceIn(S, R, y) => <<x, y>> \in R
  <2>1. PlaceIn(S, R, x) \in Nat /\ PlaceIn(S, R, y) \in Nat  BY <1>1, <1>3, <1>5
  <2>2. x = y \/ <<x, y>> \in R \/ <<y, x>> \in R  BY DEF Orders
  <2>3. CASE x = y  BY <2>1, <2>3
  <2>4. CASE <<x, y>> \in R  BY <1>4, <1>5, <2>1, <2>4
  <2>5. CASE <<y, x>> \in R  BY <1>4, <1>5, <2>1, <2>5
  <2> QED  BY <2>2, <2>3, <2>4, <2>5
<1>8. place \in Surjection(S, 1..n)
  <2>1. \A x, y \in S : place[x] = place[y] => x = y  BY <1>7
  <2> HIDE DEF place
  <2>2. place \in Injection(S, 1..n)  BY <1>6, <2>1 DEF Injection, IsInjective
  <2>3. IsFiniteSet(1..n) /\ Cardinality(1..n) = Cardinality(S)  BY <1>1, CountUpTo DEF n
  <2> HIDE DEF n
  <2> QED  BY <2>2, <2>3, FS_Injection
<1>9. \A m \in 1..n : \E x \in S : place[x] = m
  <2> HIDE DEF place
  <2> QED  BY <1>8 DEF Surjection
<1> QED  BY <1>1, <1>3, <1>5, <1>7, <1>9

\* The first elements of S, in the order of R.
FirstOf(S, R, size) == [n \in 1..size |-> CHOOSE x \in S : PlaceIn(S, R, x) = n]

LEMMA FirstAre ==
  ASSUME NEW S, IsFiniteSet(S), NEW R, Orders(R, S), NEW size \in 0..Cardinality(S)
  PROVE  /\ FirstOf(S, R, size) \in Seq(S) /\ Len(FirstOf(S, R, size)) = size
         /\ \A n \in 1..size : PlaceIn(S, R, FirstOf(S, R, size)[n]) = n
         /\ \A x \in S : PlaceIn(S, R, x) <= size => FirstOf(S, R, size)[PlaceIn(S, R, x)] = x
<1> DEFINE c == FirstOf(S, R, size)
           Place(x) == PlaceIn(S, R, x)
<1>1. /\ Cardinality(S) \in Nat /\ \A x \in S : Place(x) \in 1..Cardinality(S)
      /\ \A n \in 1..Cardinality(S) : \E x \in S : Place(x) = n
      /\ \A x, y \in S : Place(x) = Place(y) => x = y
  BY PlacesAre
<1>2. c = [n \in 1..size |-> CHOOSE x \in S : Place(x) = n]  BY DEF FirstOf
<1>3. size \in Nat /\ size <= Cardinality(S)  BY <1>1
<1> HIDE DEF c, Place
<1>4. ASSUME NEW n \in 1..size PROVE c[n] \in S /\ Place(c[n]) = n
  <2>1. c[n] = CHOOSE x \in S : Place(x) = n  BY <1>2
  <2>2. \E x \in S : Place(x) = n  BY <1>1, <1>3
  <2> QED  BY <2>1, <2>2, Zenon
<1>5. c \in [1..size -> S]
  <2>1. c = [n \in 1..size |-> c[n]]  BY <1>2
  <2> QED  BY <1>4, <2>1
<1>6. c \in Seq(S) /\ Len(c) = size  BY <1>3, <1>5
<1>7. ASSUME NEW x \in S, Place(x) <= size PROVE c[Place(x)] = x
  <2>1. Place(x) \in 1..size  BY <1>1, <1>3, <1>7
  <2> QED  BY <1>1, <1>4, <2>1
<1> QED  BY <1>4, <1>6, <1>7 DEF c, Place

-----------------------------------------------------------------------------
(* Filters *)

Earlier(positions) == {w \in positions \X positions : w[1] < w[2]}

LEMMA EarlierOrders ==
  ASSUME NEW positions, positions \subseteq Nat
  PROVE  /\ Orders(Earlier(positions), positions)
         /\ \A k \in positions : PlaceIn(positions, Earlier(positions), k) = Cardinality({m \in positions : m <= k})
<1>1. \A x, y \in positions : x \in Nat /\ y \in Nat /\ (<<x, y>> \in Earlier(positions) <=> x < y)  BY DEF Earlier
<1>2. Orders(Earlier(positions), positions)  BY <1>1 DEF Orders
<1>3. ASSUME NEW k \in positions
      PROVE  PlaceIn(positions, Earlier(positions), k) = Cardinality({m \in positions : m <= k})
  <2>1. \A m \in positions : <<k, m>> \notin Earlier(positions) <=> m <= k
    <3> SUFFICES ASSUME NEW m \in positions PROVE <<k, m>> \notin Earlier(positions) <=> m <= k  OBVIOUS
    <3>1. k \in Nat /\ m \in Nat /\ (<<k, m>> \in Earlier(positions) <=> k < m)  BY <1>1
    <3> QED  BY <3>1
  <2> HIDE DEF Earlier
  <2>2. {m \in positions : <<k, m>> \notin Earlier(positions)} = {m \in positions : m <= k}  BY <2>1
  <2> QED  BY <2>2 DEF PlaceIn
<1> QED  BY <1>2, <1>3

\* The positions that a filter takes, one after the other.
Picks(s, positions, at) ==
  /\ at \in [1..Cardinality(positions) -> positions]
  /\ \A n \in 1..Cardinality(positions) : Kept(s, positions)[n] = s[at[n]]
  /\ \A m, n \in 1..Cardinality(positions) : at[m] < at[n] => m < n
  /\ \A m, n \in 1..Cardinality(positions) : at[m] = at[n] => m = n
  /\ \A k \in positions : \E n \in 1..Cardinality(positions) : at[n] = k

LEMMA KeptAre ==
  ASSUME NEW X, NEW s \in Seq(X), NEW positions, positions \subseteq DOMAIN s
  PROVE  /\ Cardinality(positions) \in 0..Len(s) /\ IsFiniteSet(positions)
         /\ Kept(s, positions) \in Seq(X) /\ Len(Kept(s, positions)) = Cardinality(positions)
         /\ \E at : Picks(s, positions, at)
<1> DEFINE size == Cardinality(positions)
           R == Earlier(positions)
           at == FirstOf(positions, R, size)
           Place(k) == PlaceIn(positions, R, k)
<1>1. Len(s) \in Nat /\ DOMAIN s = 1..Len(s) /\ positions \subseteq Nat  OBVIOUS
<1>2. IsFiniteSet(positions) /\ size \in 0..Len(s)
  <2>1. IsFiniteSet(1..Len(s)) /\ Cardinality(1..Len(s)) = Len(s)  BY <1>1, CountUpTo
  <2>2. positions \in SUBSET (1..Len(s))  BY <1>1
  <2>3. IsFiniteSet(positions) /\ Cardinality(positions) <= Len(s)  BY <2>1, <2>2, FS_Subset
  <2> QED  BY <1>1, <2>3, FS_CardinalityType
<1>3. Orders(R, positions) /\ \A k \in positions : Place(k) = Cardinality({m \in positions : m <= k})
  BY <1>1, EarlierOrders
<1>4. /\ at \in Seq(positions) /\ Len(at) = size
      /\ \A n \in 1..size : Place(at[n]) = n
      /\ \A k \in positions : Place(k) <= size => at[Place(k)] = k
  <2>1. size \in 0..Cardinality(positions)  BY <1>2
  <2> HIDE DEF size
  <2> QED  BY <1>2, <1>3, <2>1, FirstAre
<1>5. /\ \A k \in positions : Place(k) \in 1..size
      /\ \A x, y \in positions : Place(x) < Place(y) => <<x, y>> \in R
  BY <1>2, <1>3, PlacesAre
<1>6. \A x, y \in positions : <<x, y>> \in R <=> x < y  BY DEF Earlier
<1>7. Kept(s, positions) = [n \in 1..size |-> s[at[n]]]
  <2>1. ASSUME NEW n \in 1..size
        PROVE  at[n] = CHOOSE k \in positions : Cardinality({m \in positions : m <= k}) = n
    <3>1. at[n] = CHOOSE k \in positions : Place(k) = n  BY <2>1 DEF FirstOf
    <3>2. at[n] \in positions /\ Cardinality({m \in positions : m <= at[n]}) = n  BY <1>3, <1>4, <2>1
    <3> DEFINE c == CHOOSE k \in positions : Cardinality({m \in positions : m <= k}) = n
    <3>3. c \in positions /\ Cardinality({m \in positions : m <= c}) = n  BY <3>2, Zenon
    <3> HIDE DEF c
    <3>4. Place(c) = n /\ Place(at[n]) = n  BY <1>3, <1>4, <2>1, <3>3
    <3>5. c = at[n]
      <4> HIDE DEF at, Place
      <4> QED  BY <1>2, <1>4, <3>3, <3>4
    <3> QED  BY <3>5 DEF c
  <2> HIDE DEF at, size
  <2>2. Kept(s, positions)
          = [n \in 1..Cardinality(positions) |-> s[CHOOSE k \in positions : Cardinality({m \in positions : m <= k}) = n]]
    BY DEF Kept
  <2>3. size = Cardinality(positions)  BY DEF size
  <2> QED  BY <2>1, <2>2, <2>3
<1> HIDE DEF at, Place, R
<1>8. at \in [1..size -> positions] /\ size \in Nat  BY <1>2, <1>4
<1>9. \A n \in 1..size : s[at[n]] \in X  BY <1>1, <1>8
<1>10. Kept(s, positions) \in Seq(X) /\ Len(Kept(s, positions)) = size  BY <1>7, <1>8, <1>9
<1>11. \A n \in 1..size : Kept(s, positions)[n] = s[at[n]]  BY <1>7
<1>12. \A m, n \in 1..size : at[m] = at[n] => m = n  BY <1>4
<1>13. ASSUME NEW m \in 1..size, NEW n \in 1..size, at[m] < at[n] PROVE m < n
  <2>1. at[m] \in positions /\ at[n] \in positions /\ at[m] \in Nat /\ at[n] \in Nat  BY <1>1, <1>8
  <2>2. ~(n < m)
    <3>1. n < m => <<at[n], at[m]>> \in R  BY <1>4, <1>5, <2>1
    <3> QED  BY <1>6, <1>13, <2>1, <3>1
  <2>3. m # n  BY <1>13, <2>1
  <2> QED  BY <2>2, <2>3
<1>14. \A k \in positions : \E n \in 1..size : at[n] = k
  <2> SUFFICES ASSUME NEW k \in positions PROVE \E n \in 1..size : at[n] = k  OBVIOUS
  <2>1. Place(k) \in 1..size  BY <1>5
  <2>2. Place(k) <= size  BY <1>8, <2>1
  <2> QED  BY <1>4, <2>1, <2>2
<1>15. Picks(s, positions, at)  BY <1>8, <1>11, <1>12, <1>13, <1>14 DEF Picks
<1> QED  BY <1>2, <1>10, <1>15

\* A filter that takes everything changes nothing.
LEMMA KeptWhole ==
  ASSUME NEW X, NEW s \in Seq(X)
  PROVE  Kept(s, DOMAIN s) = s
<1> DEFINE n == Len(s)
<1>1. n \in Nat /\ DOMAIN s = 1..n /\ s = [k \in 1..n |-> s[k]]  OBVIOUS
<1>2. IsFiniteSet(1..n) /\ Cardinality(1..n) = n  BY <1>1, CountUpTo
<1> HIDE DEF n
<1>3. ASSUME NEW k \in 1..n PROVE Cardinality({m \in 1..n : m <= k}) = k
  <2>1. {m \in 1..n : m <= k} = 1..k  BY <1>1
  <2>2. k \in Nat  BY <1>1
  <2> QED  BY <2>1, <2>2, CountUpTo
<1>4. ASSUME NEW k \in 1..n PROVE (CHOOSE j \in 1..n : Cardinality({m \in 1..n : m <= j}) = k) = k
  <2> DEFINE c == CHOOSE j \in 1..n : Cardinality({m \in 1..n : m <= j}) = k
  <2>1. c \in 1..n /\ Cardinality({m \in 1..n : m <= c}) = k  BY <1>3, <1>4, Zenon
  <2> HIDE DEF c
  <2>2. c = k  BY <1>3, <2>1
  <2> QED  BY <2>2 DEF c
<1>5. Kept(s, DOMAIN s) = [k \in 1..n |-> s[CHOOSE j \in 1..n : Cardinality({m \in 1..n : m <= j}) = k]]
  BY <1>1, <1>2 DEF Kept
<1> QED  BY <1>1, <1>4, <1>5
-----------------------------------------------------------------------------
(* A search *)

Asks == [query : Seq(STRING), kinds : SUBSET STRING, tags : SUBSET STRING, limit : Nat]

Prior(query) == {w \in Notes \X Notes : Precedes(query, w[1], w[2])}

LEMMA ScoreType ==
  ASSUME NEW query \in Seq(STRING), NEW e \in Notes
  PROVE  Score(query, e) \in Nat
<1>1. ASSUME NEW text \in Seq(STRING) PROVE Hits(query, text) \in Nat
  <2> DEFINE hit == {k \in DOMAIN text : text[k] \in Elements(query)}
  <2>1. Len(text) \in Nat /\ DOMAIN text = 1..Len(text)  OBVIOUS
  <2>2. IsFiniteSet(1..Len(text)) /\ hit \in SUBSET (1..Len(text))  BY <2>1, CountUpTo
  <2> HIDE DEF hit
  <2>3. IsFiniteSet(hit)  BY <2>2, FS_Subset
  <2> QED  BY <2>3, FS_CardinalityType DEF Hits, hit
<1>2. e.title \in Seq(STRING) /\ e.tags \in Seq(STRING) /\ e.body \in Seq(STRING)  BY RetrievalConstants
<1>3. Hits(query, e.title) \in Nat /\ Hits(query, e.tags) \in Nat /\ Hits(query, e.body) \in Nat  BY <1>1, <1>2
<1> QED  BY <1>3 DEF Score

\* The comparison of entries is an order: it ends with the id.
LEMMA PriorOrders ==
  ASSUME NEW query \in Seq(STRING), NEW S \in SUBSET Notes
  PROVE  Orders(Prior(query), S)
<1> DEFINE score(e) == Score(query, e)
<1>1. \A e \in Notes : score(e) \in Nat  BY ScoreType
<1>2. \A a, b \in Notes : <<a, b>> \in Prior(query) <=>
        \/ a.pinned /\ ~b.pinned
        \/ /\ a.pinned = b.pinned
           /\ \/ score(a) > score(b)
              \/ score(a) = score(b) /\ a.updated > b.updated
              \/ score(a) = score(b) /\ a.updated = b.updated /\ a.id < b.id
  BY DEF Prior, Precedes
<1> HIDE DEF score
<1>3. \A e \in Notes : e.pinned \in BOOLEAN /\ e.id \in Nat /\ e.updated \in Nat  BY RetrievalConstants
<1>4. \A a, b \in Notes : a.id = b.id => a = b  BY RetrievalConstants
<1>5. \A x \in S : <<x, x>> \notin Prior(query)  BY <1>1, <1>2, <1>3
<1>6. ASSUME NEW x \in S, NEW y \in S, x # y PROVE <<x, y>> \in Prior(query) \/ <<y, x>> \in Prior(query)
  <2>1. x.id # y.id  BY <1>4, <1>6
  <2>2. x.id \in Nat /\ y.id \in Nat /\ x.updated \in Nat /\ y.updated \in Nat /\ score(x) \in Nat /\ score(y) \in Nat
        /\ x.pinned \in BOOLEAN /\ y.pinned \in BOOLEAN
    BY <1>1, <1>3
  <2> QED  BY <1>2, <2>1, <2>2
<1>7. ASSUME NEW x \in S, NEW y \in S, NEW z \in S, <<x, y>> \in Prior(query), <<y, z>> \in Prior(query)
      PROVE  <<x, z>> \in Prior(query)
  <2>1. /\ x.id \in Nat /\ y.id \in Nat /\ z.id \in Nat /\ x.updated \in Nat /\ y.updated \in Nat /\ z.updated \in Nat
        /\ score(x) \in Nat /\ score(y) \in Nat /\ score(z) \in Nat
        /\ x.pinned \in BOOLEAN /\ y.pinned \in BOOLEAN /\ z.pinned \in BOOLEAN
    BY <1>1, <1>3
  <2> DEFINE After(a, b) == \/ score(a) > score(b)
                            \/ score(a) = score(b) /\ a.updated > b.updated
                            \/ score(a) = score(b) /\ a.updated = b.updated /\ a.id < b.id
  <2>2. After(x, y) /\ After(y, z) => After(x, z)  BY <2>1
  <2>3. ASSUME NEW a \in S, NEW b \in S
        PROVE  <<a, b>> \in Prior(query) <=> (a.pinned /\ ~b.pinned) \/ (a.pinned = b.pinned /\ After(a, b))
    <3>1. a \in Notes /\ b \in Notes  OBVIOUS
    <3> QED  BY <1>2, <3>1
  <2> HIDE DEF After
  <2>4. (x.pinned /\ ~y.pinned) \/ (x.pinned = y.pinned /\ After(x, y))  BY <1>7, <2>3
  <2>5. (y.pinned /\ ~z.pinned) \/ (y.pinned = z.pinned /\ After(y, z))  BY <1>7, <2>3
  <2>6. (x.pinned /\ ~z.pinned) \/ (x.pinned = z.pinned /\ After(x, z))
    <3>1. CASE x.pinned /\ ~y.pinned  BY <2>5, <3>1, Zenon
    <3>2. CASE x.pinned = y.pinned /\ After(x, y)  BY <2>2, <2>5, <3>2, Zenon
    <3> QED  BY <2>4, <3>1, <3>2
  <2> QED  BY <2>3, <2>6
<1> QED  BY <1>5, <1>6, <1>7 DEF Orders

LEMMA SearchAre ==
  ASSUME NEW pool \in SUBSET Notes, NEW q \in Asks
  PROVE  LET found == Search(pool, q)
             matching == Matching(pool, q)
         IN /\ IsFiniteSet(matching) /\ Cardinality(matching) \in Nat
            /\ found \in Seq(matching) /\ Len(found) = AtMost(q.limit, Cardinality(matching))
            /\ \A m, n \in DOMAIN found : found[m] = found[n] => m = n
            /\ \A e \in matching \ Elements(found), r \in Elements(found) : Precedes(q.query, r, e)
<1> DEFINE S == Matching(pool, q)
           R == Prior(q.query)
           size == AtMost(q.limit, Cardinality(S))
           found == FirstOf(S, R, size)
           Place(e) == PlaceIn(S, R, e)
<1>1. q.query \in Seq(STRING) /\ q.limit \in Nat  BY DEF Asks
<1>2. S \in SUBSET Notes  BY DEF Matching
<1> HIDE DEF S
<1>3. IsFiniteSet(S) /\ Cardinality(S) \in Nat  BY <1>2, RetrievalConstants, FS_Subset, FS_CardinalityType
<1>4. Orders(R, S)  BY <1>1, <1>2, PriorOrders
<1>5. size \in 0..Cardinality(S) /\ size \in Nat  BY <1>1, <1>3 DEF AtMost
<1>6. \A x, y \in S : <<x, y>> \in R <=> Precedes(q.query, x, y)  BY <1>2 DEF Prior
<1>7. Search(pool, q) = found
  <2>1. \A e \in S : PlaceIn(S, R, e) = Cardinality({f \in S : ~Precedes(q.query, e, f)})
    <3> SUFFICES ASSUME NEW e \in S PROVE PlaceIn(S, R, e) = Cardinality({f \in S : ~Precedes(q.query, e, f)})
      OBVIOUS
    <3>1. {f \in S : <<e, f>> \notin R} = {f \in S : ~Precedes(q.query, e, f)}  BY <1>6
    <3> QED  BY <3>1 DEF PlaceIn
  <2> HIDE DEF R
  <2>2. ASSUME NEW n \in 1..size
        PROVE  (CHOOSE e \in S : PlaceIn(S, R, e) = n)
                 = (CHOOSE e \in S : Cardinality({f \in S : ~Precedes(q.query, e, f)}) = n)
    <3> DEFINE c == CHOOSE e \in S : Cardinality({f \in S : ~Precedes(q.query, e, f)}) = n
               d == CHOOSE e \in S : PlaceIn(S, R, e) = n
    <3>1. \E e \in S : PlaceIn(S, R, e) = n  BY <1>3, <1>4, <1>5, PlacesAre
    <3>2. d \in S /\ PlaceIn(S, R, d) = n  BY <3>1, Zenon
    <3>3. \E e \in S : Cardinality({f \in S : ~Precedes(q.query, e, f)}) = n  BY <2>1, <3>1
    <3>4. c \in S /\ Cardinality({f \in S : ~Precedes(q.query, c, f)}) = n  BY <3>3, Zenon
    <3> HIDE DEF c, d
    <3>5. PlaceIn(S, R, c) = PlaceIn(S, R, d)  BY <2>1, <3>2, <3>4
    <3>6. c = d  BY <1>3, <1>4, <3>2, <3>4, <3>5, PlacesAre
    <3> QED  BY <3>6 DEF c, d
  <2>3. Search(pool, q) = [n \in 1..size |-> CHOOSE e \in S : Cardinality({f \in S : ~Precedes(q.query, e, f)}) = n]
    BY DEF Search, S
  <2>4. found = [n \in 1..size |-> CHOOSE e \in S : PlaceIn(S, R, e) = n]  BY DEF FirstOf
  <2> HIDE DEF size, found
  <2> QED  BY <2>2, <2>3, <2>4
<1>8. /\ found \in Seq(S) /\ Len(found) = size
      /\ \A n \in 1..size : Place(found[n]) = n
      /\ \A x \in S : Place(x) <= size => found[Place(x)] = x
  <2> HIDE DEF size, R
  <2> QED  BY <1>3, <1>4, <1>5, FirstAre
<1>9. /\ \A x \in S : Place(x) \in 1..Cardinality(S)
      /\ \A x, y \in S : Place(x) < Place(y) => <<x, y>> \in R
  <2> HIDE DEF R
  <2> QED  BY <1>3, <1>4, PlacesAre
<1> HIDE DEF found, Place, size, R
<1>10. DOMAIN found = 1..size  BY <1>8
<1>11. \A m, n \in DOMAIN found : found[m] = found[n] => m = n  BY <1>8, <1>10
<1>12. ASSUME NEW e \in S \ Elements(found), NEW r \in Elements(found) PROVE Precedes(q.query, r, e)
  <2>1. PICK n \in 1..size : r = found[n]  BY <1>10 DEF Elements
  <2>2. r \in S /\ Place(r) = n  BY <1>8, <1>10, <2>1
  <2>3. Place(e) \in Nat /\ ~(Place(e) <= size)
    <3>1. Place(e) \in 1..Cardinality(S)  BY <1>9
    <3>2. Place(e) <= size => e \in Elements(found)
      <4>1. Place(e) <= size => Place(e) \in 1..size /\ e = found[Place(e)]  BY <1>3, <1>5, <1>8, <3>1
      <4> QED  BY <1>10, <4>1 DEF Elements
    <3> QED  BY <1>3, <3>1, <3>2
  <2>4. Place(r) < Place(e)  BY <1>5, <2>1, <2>2, <2>3
  <2> QED  BY <1>6, <1>9, <2>2, <2>4
<1> QED  BY <1>3, <1>7, <1>8, <1>11, <1>12 DEF S, size
-----------------------------------------------------------------------------
(* The room that lines take *)

\* A set of numbers has a smallest one.
LEMMA SmallestNumber ==
  ASSUME NEW T, T \subseteq Nat, T # {}
  PROVE  \E x \in T : \A y \in T : x <= y
<1>1. IsWellFoundedOn(OpToRel(<, Nat), Nat)  BY NatLessThanWellFounded
<1>2. \E x \in T : \A y \in T : ~(<<y, x>> \in OpToRel(<, Nat))  BY <1>1, WFMin
<1>3. PICK x \in T : \A y \in T : ~(<<y, x>> \in OpToRel(<, Nat))  BY <1>2, Zenon
<1>4. ASSUME NEW y \in T, y < x PROVE FALSE
  <2>1. <<y, x>> \in Nat \X Nat  OBVIOUS
  <2>2. <<y, x>>[1] < <<y, x>>[2]  BY <1>4
  <2>3. <<y, x>> \in OpToRel(<, Nat)  BY <2>1, <2>2, Zenon DEF OpToRel
  <2> QED  BY <1>3, <2>3, Zenon
<1> QED  BY <1>4

Lined(section) == \A n \in DOMAIN section : section[n].line \in Nat

UsedTo(section, last, used) ==
  used = [n \in 0..last |-> IF n = 0 THEN 0 ELSE used[n - 1] + section[n].line]

\* The sums are defined.
LEMMA UsedExists ==
  ASSUME NEW section, NEW n \in Nat
  PROVE  \E used : UsedTo(section, n, used)
<1> DEFINE Bad == {m \in Nat : ~\E used : UsedTo(section, m, used)}
<1>1. SUFFICES ASSUME Bad # {} PROVE FALSE  OBVIOUS
<1>2. PICK m \in Bad : \A y \in Bad : m <= y
  <2>1. Bad \subseteq Nat  OBVIOUS
  <2> HIDE DEF Bad
  <2> QED  BY <1>1, <2>1, SmallestNumber
<1>3. m \in Nat /\ ~\E used : UsedTo(section, m, used)  OBVIOUS
<1>4. m # 0
  <2> DEFINE f == [k \in 0..0 |-> 0]
  <2>1. f = [k \in 0..0 |-> IF k = 0 THEN 0 ELSE f[k - 1] + section[k].line]  OBVIOUS
  <2>2. UsedTo(section, 0, f)  BY <2>1 DEF UsedTo
  <2> HIDE DEF f
  <2> QED  BY <1>3, <2>2
<1>5. m - 1 \in Nat /\ m - 1 \notin Bad  BY <1>2, <1>3, <1>4
<1>6. PICK g : UsedTo(section, m - 1, g)  BY <1>5
<1> HIDE DEF Bad
<1> DEFINE f == [k \in 0..m |-> IF k = m THEN g[m - 1] + section[m].line ELSE g[k]]
<1>7. g = [k \in 0..(m - 1) |-> IF k = 0 THEN 0 ELSE g[k - 1] + section[k].line]
  BY <1>6 DEF UsedTo
<1>8. ASSUME NEW k \in 0..m PROVE f[k] = IF k = 0 THEN 0 ELSE f[k - 1] + section[k].line
  <2>1. CASE k = m  BY <1>3, <1>4, <2>1
  <2>2. CASE k = 0  BY <1>3, <1>4, <1>7, <2>2
  <2>3. CASE k # m /\ k # 0
    <3>1. f[k] = g[k] /\ f[k - 1] = g[k - 1]  BY <1>3, <2>3
    <3>2. k \in 0..(m - 1)  BY <1>3, <2>3
    <3>3. g[k] = g[k - 1] + section[k].line  BY <1>7, <2>3, <3>2
    <3> QED  BY <2>3, <3>1, <3>3
  <2> QED  BY <2>1, <2>2, <2>3
<1>9. f = [k \in 0..m |-> IF k = 0 THEN 0 ELSE f[k - 1] + section[k].line]
  <2>1. f = [k \in 0..m |-> f[k]]  OBVIOUS
  <2> HIDE DEF f
  <2> QED  BY <1>8, <2>1
<1>10. UsedTo(section, m, f)  BY <1>9 DEF UsedTo
<1> QED  BY <1>3, <1>10

LEMMA UsedAre ==
  ASSUME NEW X, NEW section \in Seq(X), Lined(section)
  PROVE  /\ Used(section)[0] = 0
         /\ \A n \in 1..Len(section) : Used(section)[n] = Used(section)[n - 1] + section[n].line
         /\ \A n \in 0..Len(section) : Used(section)[n] \in Nat
<1> DEFINE used == CHOOSE used : UsedTo(section, Len(section), used)
<1>1. Used(section) = used  BY DEF Used, UsedTo
<1>2. Len(section) \in Nat /\ DOMAIN section = 1..Len(section)  OBVIOUS
<1>3. \E f : UsedTo(section, Len(section), f)  BY <1>2, UsedExists
<1>4. UsedTo(section, Len(section), used)  BY <1>3, Zenon
<1> HIDE DEF used
<1>5. used[0] = 0 /\ \A n \in 1..Len(section) : used[n] = used[n - 1] + section[n].line  BY <1>2, <1>4 DEF UsedTo
<1>6. \A n \in 0..Len(section) : used[n] \in Nat
  <2> DEFINE Bad == {n \in 0..Len(section) : used[n] \notin Nat}
  <2>1. SUFFICES ASSUME Bad # {} PROVE FALSE  OBVIOUS
  <2>2. PICK n \in Bad : \A y \in Bad : n <= y
    <3>1. Bad \subseteq Nat  BY <1>2
    <3> HIDE DEF Bad
    <3> QED  BY <2>1, <3>1, SmallestNumber
  <2>3. n \in 1..Len(section) /\ n - 1 \in 0..Len(section) /\ n - 1 \notin Bad  BY <1>2, <1>5, <2>2
  <2>4. used[n - 1] \in Nat /\ section[n].line \in Nat  BY <1>2, <2>3 DEF Lined
  <2> QED  BY <1>5, <2>3, <2>4
<1> QED  BY <1>1, <1>5, <1>6

\* The lines of a prefix take what they took.
LEMMA UsedOfPrefix ==
  ASSUME NEW X, NEW section \in Seq(X), Lined(section), NEW k \in 0..Len(section)
  PROVE  /\ SubSeq(section, 1, k) \in Seq(X) /\ Len(SubSeq(section, 1, k)) = k
         /\ \A n \in 1..k : SubSeq(section, 1, k)[n] = section[n]
         /\ Used(SubSeq(section, 1, k))[k] = Used(section)[k]
<1> DEFINE prefix == SubSeq(section, 1, k)
<1>1. k \in Nat /\ Len(section) \in Nat /\ DOMAIN section = 1..Len(section)  OBVIOUS
<1>2. prefix \in Seq(X) /\ Len(prefix) = k /\ \A n \in 1..k : prefix[n] = section[n]  BY <1>1
<1> HIDE DEF prefix
<1>3. DOMAIN prefix = 1..k  BY <1>2
<1>4. Lined(prefix)  BY <1>1, <1>2, <1>3 DEF Lined
<1> DEFINE Bad == {n \in 0..k : Used(prefix)[n] # Used(section)[n]}
<1>5. Bad = {}
  <2>1. SUFFICES ASSUME Bad # {} PROVE FALSE  OBVIOUS
  <2>2. PICK n \in Bad : \A y \in Bad : n <= y
    <3>1. Bad \subseteq Nat  BY <1>1
    <3> HIDE DEF Bad
    <3> QED  BY <2>1, <3>1, SmallestNumber
  <2>3. Used(prefix)[0] = 0 /\ Used(section)[0] = 0  BY <1>2, <1>4, UsedAre
  <2>4. n \in 1..k /\ n - 1 \in 0..k /\ n - 1 \notin Bad  BY <1>1, <2>2, <2>3
  <2>5. Used(prefix)[n] = Used(prefix)[n - 1] + prefix[n].line
        /\ Used(section)[n] = Used(section)[n - 1] + section[n].line
    <3>1. n \in 1..Len(prefix) /\ n \in 1..Len(section)  BY <1>1, <1>2, <2>4
    <3> QED  BY <1>2, <1>4, <3>1, UsedAre
  <2> QED  BY <1>2, <2>4, <2>5
<1>6. Used(prefix)[k] = Used(section)[k]  BY <1>1, <1>5
<1> QED  BY <1>2, <1>6 DEF prefix

LEMMA DownTo ==
  ASSUME NEW n \in Nat, NEW F \in SUBSET (1..n), \A k \in F : \A m \in 1..k : m \in F
  PROVE  Cardinality(F) \in 0..n /\ F = 1..Cardinality(F)
<1>1. \E size \in 0..n : F = 1..size
  <2>1. CASE F = 1..n  BY <2>1
  <2>2. CASE F # 1..n
    <3> DEFINE Out == (1..n) \ F
    <3>1. Out # {} /\ Out \subseteq Nat
      <4>1. F \subseteq 1..n /\ 1..n \subseteq Nat  OBVIOUS
      <4> QED  BY <2>2, <4>1
    <3> HIDE DEF Out
    <3>2. PICK m \in Out : \A y \in Out : m <= y  BY <3>1, SmallestNumber
    <3>3. m \in 1..n /\ m \notin F  BY DEF Out
    <3>4. \A k \in 1..n : k \in F <=> k < m
      <4> SUFFICES ASSUME NEW k \in 1..n PROVE k \in F <=> k < m  OBVIOUS
      <4>1. k \in F => k < m
        <5>1. ASSUME k \in F, m <= k PROVE FALSE
          <6>1. m \in 1..k  BY <3>3, <5>1
          <6> QED  BY <3>3, <5>1, <6>1
        <5> QED  BY <3>3, <5>1
      <4>2. k < m => k \in F
        <5>1. ASSUME k < m, k \notin F PROVE FALSE
          <6>1. k \in Out  BY <5>1 DEF Out
          <6> QED  BY <3>2, <3>3, <5>1, <6>1
        <5> QED  BY <5>1
      <4> QED  BY <4>1, <4>2
    <3>5. F \subseteq 1..n /\ \A k \in 1..(m - 1) : k \in 1..n /\ k < m  BY <3>3
    <3>6. F = 1..(m - 1)
      <4>1. ASSUME NEW k \in F PROVE k \in 1..(m - 1)
        <5>1. k \in 1..n /\ k < m  BY <3>4, <3>5
        <5> QED  BY <3>3, <5>1
      <4>2. ASSUME NEW k \in 1..(m - 1) PROVE k \in F  BY <3>4, <3>5
      <4> QED  BY <4>1, <4>2
    <3>7. m - 1 \in 0..n  BY <3>3
    <3> QED  BY <3>6, <3>7
  <2> QED  BY <2>1, <2>2
<1>2. PICK size \in 0..n : F = 1..size  BY <1>1
<1>3. size \in Nat  BY <1>2
<1>4. Cardinality(F) = size  BY <1>2, <1>3, CountUpTo
<1> QED  BY <1>2, <1>4

\* What is emitted is the beginning of a section, and fits.
LEMMA EmitAre ==
  ASSUME NEW X, NEW section \in Seq(X), Lined(section), NEW room \in Nat
  PROVE  \E k \in 0..Len(section) :
           /\ Emit(section, room) \in Seq(X) /\ Len(Emit(section, room)) = k
           /\ \A n \in 1..k : Emit(section, room)[n] = section[n]
           /\ Used(Emit(section, room))[k] <= room
<1> DEFINE Fits == {n \in DOMAIN section : \A m \in 1..n : Used(section)[m] <= room}
           k == Cardinality(Fits)
<1>1. Len(section) \in Nat /\ DOMAIN section = 1..Len(section)  OBVIOUS
<1>2. Fits \in SUBSET (1..Len(section)) /\ \A n \in Fits : \A m \in 1..n : m \in Fits
  <2>1. Fits \in SUBSET (1..Len(section))  BY <1>1
  <2>2. ASSUME NEW n \in Fits, NEW m \in 1..n PROVE m \in Fits
    <3>1. n \in 1..Len(section) /\ \A i \in 1..n : Used(section)[i] <= room  BY <1>1
    <3>2. m \in 1..Len(section) /\ \A i \in 1..m : i \in 1..n  BY <1>1, <3>1
    <3> QED  BY <1>1, <3>1, <3>2
  <2> HIDE DEF Fits
  <2> QED  BY <2>1, <2>2
<1>3. k \in 0..Len(section) /\ Fits = 1..k
  <2> HIDE DEF Fits
  <2> QED  BY <1>1, <1>2, DownTo
<1>4. Emit(section, room) = SubSeq(section, 1, k)  BY DEF Emit
<1>5. Used(section)[k] <= room
  <2>1. CASE k = 0
    <3>1. Used(section)[0] = 0  BY UsedAre
    <3> QED  BY <2>1, <3>1
  <2>2. CASE k # 0
    <3>1. k \in Fits /\ k \in 1..k  BY <1>1, <1>3, <2>2
    <3> HIDE DEF k
    <3> QED  BY <3>1
  <2> QED  BY <2>1, <2>2
<1> HIDE DEF k
<1> QED  BY <1>3, <1>4, <1>5, UsedOfPrefix
-----------------------------------------------------------------------------
(* A packet *)

\* The positions of what a section shows of what was found.
Takes(found, k) ==
  IF k = 0 THEN {n \in DOMAIN found : found[n].pinned}
  ELSE {n \in DOMAIN found : ~found[n].pinned /\ found[n].kind = Kinds[k]}

\* A section and the positions of its lines, which go up; what it leaves out comes after.
Shows(found, section, k, room, at) ==
  /\ section \in Seq(Notes) /\ Used(section)[Len(section)] <= room
  /\ at \in [DOMAIN section -> Takes(found, k)]
  /\ \A n \in DOMAIN section : section[n] = found[at[n]]
  /\ \A m, n \in DOMAIN section : at[m] = at[n] => m = n
  /\ \A n \in DOMAIN section, i \in Takes(found, k) : i < at[n] => \E m \in DOMAIN section : at[m] = i

RoomOf(k, room) == IF k = 0 THEN room.pinned ELSE room.kind

LEMMA SectionShows ==
  ASSUME NEW found \in Seq(Notes), NEW k \in Nat, NEW room \in Nat
  PROVE  \E at : Shows(found, Emit(Kept(found, Takes(found, k)), room), k, room, at)
<1> DEFINE P == Takes(found, k)
           whole == Kept(found, P)
           section == Emit(whole, room)
<1>1. P \subseteq DOMAIN found  BY DEF Takes
<1> HIDE DEF P
<1>2. whole \in Seq(Notes) /\ Len(whole) = Cardinality(P) /\ \E to : Picks(found, P, to)  BY <1>1, KeptAre
<1>3. PICK to : Picks(found, P, to)  BY <1>2
<1> HIDE DEF whole
<1>4. DOMAIN whole = 1..Cardinality(P) /\ Cardinality(P) \in Nat  BY <1>2
<1>5. Lined(whole)
  <2>1. \A n \in DOMAIN whole : whole[n] \in Notes  BY <1>2
  <2> QED  BY <2>1, RetrievalConstants DEF Lined
<1>6. PICK l \in 0..Len(whole) :
        /\ section \in Seq(Notes) /\ Len(section) = l
        /\ \A n \in 1..l : section[n] = whole[n]
        /\ Used(section)[l] <= room
  BY <1>2, <1>5, EmitAre
<1> HIDE DEF section
<1>7. DOMAIN section = 1..l /\ l \in Nat /\ l <= Cardinality(P) /\ 1..l \subseteq 1..Cardinality(P)
  BY <1>2, <1>4, <1>6
<1> DEFINE at == [n \in 1..l |-> to[n]]
<1>8. /\ to \in [1..Cardinality(P) -> P]
      /\ \A n \in 1..Cardinality(P) : whole[n] = found[to[n]]
      /\ \A m, n \in 1..Cardinality(P) : to[m] < to[n] => m < n
      /\ \A m, n \in 1..Cardinality(P) : to[m] = to[n] => m = n
      /\ \A i \in P : \E n \in 1..Cardinality(P) : to[n] = i
  BY <1>3 DEF Picks, whole
<1>9. at \in [DOMAIN section -> P] /\ \A n \in DOMAIN section : section[n] = found[at[n]]
  BY <1>6, <1>7, <1>8
<1>10. \A m, n \in DOMAIN section : at[m] = at[n] => m = n  BY <1>7, <1>8
<1>11. ASSUME NEW n \in DOMAIN section, NEW i \in P, i < at[n]
       PROVE  \E m \in DOMAIN section : at[m] = i
  <2>1. PICK m \in 1..Cardinality(P) : to[m] = i  BY <1>8
  <2>2. n \in 1..l /\ n \in 1..Cardinality(P) /\ at[n] = to[n]  BY <1>7
  <2>3. m < n  BY <1>8, <1>11, <2>1, <2>2
  <2>4. m \in 1..l  BY <1>7, <2>1, <2>2, <2>3
  <2> QED  BY <1>7, <2>1, <2>4
<1> HIDE DEF at
<1>12. Shows(found, section, k, room, at)  BY <1>6, <1>9, <1>10, <1>11 DEF Shows, P
<1> QED  BY <1>12 DEF section, whole, P

\* What a packet is made of.
PacketShows(sections, found, room) ==
  /\ DOMAIN sections = 0..Len(Kinds)
  /\ \A k \in 0..Len(Kinds) : \E at : Shows(found, sections[k], k, RoomOf(k, room), at)

LEMMA PacketIs ==
  ASSUME NEW found \in Seq(Notes), NEW room \in Rooms
  PROVE  PacketShows(Packet(found, room), found, room)
<1>1. Len(Kinds) \in Nat /\ room.pinned \in Nat /\ room.kind \in Nat  BY RetrievalConstants
<1>2. DOMAIN Packet(found, room) = 0..Len(Kinds)  BY DEF Packet
<1>3. ASSUME NEW k \in 0..Len(Kinds)
      PROVE  \E at : Shows(found, Packet(found, room)[k], k, RoomOf(k, room), at)
  <2>1. RoomOf(k, room) \in Nat /\ k \in Nat  BY <1>1 DEF RoomOf
  <2>2. Packet(found, room)[k] = Emit(Kept(found, Takes(found, k)), RoomOf(k, room))
    BY DEF Packet, Pinned, OfKind, Takes, RoomOf
  <2> QED  BY <2>1, <2>2, SectionShows
<1> QED  BY <1>2, <1>3 DEF PacketShows

\* The sections have nothing in common.
LEMMA TakesApart ==
  ASSUME NEW found, NEW k \in 0..Len(Kinds), NEW l \in 0..Len(Kinds), NEW n \in Takes(found, k), n \in Takes(found, l)
  PROVE  k = l
<1>1. Kinds \in Seq(STRING) /\ \A i, j \in DOMAIN Kinds : Kinds[i] = Kinds[j] => i = j  BY RetrievalConstants
<1>2. Len(Kinds) \in Nat /\ DOMAIN Kinds = 1..Len(Kinds)  BY <1>1
<1>3. CASE k = 0 \/ l = 0  BY <1>3 DEF Takes
<1>4. CASE k # 0 /\ l # 0
  <2>1. Kinds[k] = Kinds[l]  BY <1>4 DEF Takes
  <2>2. k \in DOMAIN Kinds /\ l \in DOMAIN Kinds  BY <1>2, <1>4
  <2> QED  BY <1>1, <2>1, <2>2
<1> QED  BY <1>3, <1>4

\* What is asked for a packet.
ForPacket(q) == [q EXCEPT !.kinds = Elements(Kinds), !.tags = {}]

LEMMA PacketFound ==
  ASSUME NEW table \in SUBSET Notes, NEW q \in Requests, NEW project
  PROVE  LET found == FoundFor(table, project, q)
         IN /\ found \in Seq(Notes) /\ \A m, n \in DOMAIN found : found[m] = found[n] => m = n
            /\ \A n \in DOMAIN found : found[n].project = project /\ found[n].status = "active" /\ found[n].kind \in Elements(Kinds)
<1> DEFINE pool == PoolFor(table, project, FALSE)
           found == Search(pool, ForPacket(q))
           matching == Matching(pool, ForPacket(q))
<1>1. ForPacket(q) \in Asks /\ ForPacket(q).kinds = Elements(Kinds)
  <2>1. q \in Asks  BY RetrievalConstants DEF Asks
  <2>2. Elements(Kinds) \in SUBSET STRING
    <3>1. \A n \in DOMAIN Kinds : Kinds[n] \in STRING  BY RetrievalConstants
    <3> QED  BY <3>1 DEF Elements
  <2> QED  BY <2>1, <2>2 DEF Asks, ForPacket
<1>2. pool \in SUBSET Notes /\ \A e \in pool : e.project = project /\ e.status = "active"  BY DEF PoolFor
<1>3. matching \subseteq pool /\ \A e \in matching : e.kind \in Elements(Kinds)  BY <1>1 DEF Matching
<1> HIDE DEF pool, matching
<1>4. found \in Seq(matching) /\ \A m, n \in DOMAIN found : found[m] = found[n] => m = n
  BY <1>1, <1>2, SearchAre DEF matching
<1> HIDE DEF found
<1>5. \A n \in DOMAIN found : found[n] \in matching  BY <1>4
<1>6. found \in Seq(Notes)
  <2>1. matching \subseteq Notes  BY <1>2, <1>3
  <2>2. Len(found) \in Nat /\ found = [n \in 1..Len(found) |-> found[n]] /\ DOMAIN found = 1..Len(found)  BY <1>4
  <2>3. found \in [1..Len(found) -> Notes]  BY <1>5, <2>1, <2>2
  <2> QED  BY <2>2, <2>3
<1>7. \A n \in DOMAIN found : found[n].project = project /\ found[n].status = "active" /\ found[n].kind \in Elements(Kinds)
  BY <1>2, <1>3, <1>5
<1>8. FoundFor(table, project, q) = found  BY DEF FoundFor, ForPacket, found, pool
<1> QED  BY <1>4, <1>6, <1>7, <1>8

-----------------------------------------------------------------------------
(* What retrieval promises *)

LEMMA SearchDetermined == SearchIsDetermined
<1> SUFFICES ASSUME NEW q \in Requests, NEW a \in Notes, NEW b \in Notes, a # b
             PROVE  Precedes(q.query, a, b) <=> ~Precedes(q.query, b, a)
  BY DEF SearchIsDetermined
<1>1. q.query \in Seq(STRING)  BY RetrievalConstants
<1>2. Orders(Prior(q.query), Notes)  BY <1>1, PriorOrders
<1>3. /\ <<a, b>> \in Prior(q.query) <=> Precedes(q.query, a, b)
      /\ <<b, a>> \in Prior(q.query) <=> Precedes(q.query, b, a)
  BY DEF Prior
<1>4. <<a, b>> \in Prior(q.query) \/ <<b, a>> \in Prior(q.query)  BY <1>2 DEF Orders
<1>5. ~(<<a, b>> \in Prior(q.query) /\ <<b, a>> \in Prior(q.query))  BY <1>2 DEF Orders
<1> QED  BY <1>3, <1>4, <1>5

LEMMA SearchBest == SearchKeepsBest
<1> SUFFICES ASSUME NEW table \in SUBSET Notes, NEW q \in Requests, NEW p
             PROVE  LET pool == PoolFor(table, p, FALSE)
                        found == Elements(Search(pool, q))
                    IN \A e \in Matching(pool, q) \ found, r \in found :
                         (e.pinned => r.pinned) /\ (e.pinned = r.pinned => Score(q.query, r) >= Score(q.query, e))
  BY DEF SearchKeepsBest, Tables
<1> DEFINE pool == PoolFor(table, p, FALSE)
           found == Search(pool, q)
<1>1. pool \in SUBSET Notes /\ q \in Asks  BY RetrievalConstants DEF PoolFor, Asks
<1> HIDE DEF pool
<1>2. /\ found \in Seq(Matching(pool, q))
      /\ \A e \in Matching(pool, q) \ Elements(found), r \in Elements(found) : Precedes(q.query, r, e)
  BY <1>1, SearchAre
<1> HIDE DEF found
<1>3. Matching(pool, q) \subseteq Notes  BY <1>1 DEF Matching
<1>4. ASSUME NEW e \in Matching(pool, q) \ Elements(found), NEW r \in Elements(found)
      PROVE  (e.pinned => r.pinned) /\ (e.pinned = r.pinned => Score(q.query, r) >= Score(q.query, e))
  <2>1. Precedes(q.query, r, e)  BY <1>2
  <2>2. r \in Matching(pool, q)  BY <1>2 DEF Elements
  <2>3. e \in Notes /\ r \in Notes /\ q.query \in Seq(STRING)  BY <1>1, <1>3, <2>2 DEF Asks
  <2>4. Score(q.query, r) \in Nat /\ Score(q.query, e) \in Nat  BY <2>3, ScoreType
  <2>5. e.pinned \in BOOLEAN /\ r.pinned \in BOOLEAN  BY <2>3, RetrievalConstants
  <2> QED  BY <2>1, <2>4, <2>5 DEF Precedes
<1> QED  BY <1>4 DEF pool, found

LEMMA CountsMatch == CountsMatchList
<1> SUFFICES ASSUME NEW table \in SUBSET Notes, NEW q \in Requests, q.query = <<>>, q.tags = {},
                    NEW p, NEW kind \in Elements(Kinds)
             PROVE  Len(Search(PoolFor(table, p, FALSE), [q EXCEPT !.kinds = {kind}])) = AtMost(q.limit, Count(table, p, kind))
  BY DEF CountsMatchList, Tables
<1> DEFINE pool == PoolFor(table, p, FALSE)
<1> DEFINE one == [q EXCEPT !.kinds = {kind}]
<1>1. pool \in SUBSET Notes /\ q \in Asks  BY RetrievalConstants DEF PoolFor, Asks
<1>2. kind \in STRING
  <2>1. \A n \in DOMAIN Kinds : Kinds[n] \in STRING  BY RetrievalConstants
  <2> QED  BY <2>1 DEF Elements
<1>3. one \in Asks /\ one.query = <<>> /\ one.tags = {} /\ one.limit = q.limit /\ one.kinds = {kind}
  BY <1>1, <1>2 DEF Asks
<1> HIDE DEF pool, one
<1>4. Matching(pool, one) = {e \in pool : e.kind = kind}  BY <1>3 DEF Matching
<1>5. Len(Search(pool, one)) = AtMost(q.limit, Cardinality(Matching(pool, one)))  BY <1>1, <1>3, SearchAre
<1> QED  BY <1>4, <1>5 DEF Count, pool, one

LEMMA PacketFitting == PacketFits
<1> SUFFICES ASSUME NEW table \in SUBSET Notes, NEW q \in Requests, NEW room \in Rooms, NEW p
             PROVE  FitsIn(PacketFor(table, p, q, room), p, room)
  BY DEF PacketFits, Tables
<1> DEFINE found == FoundFor(table, p, q)
           sections == PacketFor(table, p, q, room)
<1>1. /\ found \in Seq(Notes) /\ \A m, n \in DOMAIN found : found[m] = found[n] => m = n
      /\ \A n \in DOMAIN found : found[n].project = p /\ found[n].status = "active"
  BY PacketFound
<1>2. sections = Packet(found, room)  BY DEF PacketFor
<1> HIDE DEF found, sections
<1>3. PacketShows(sections, found, room)  BY <1>1, <1>2, PacketIs
<1>4. \A k : Takes(found, k) \subseteq DOMAIN found  BY DEF Takes
<1>5. ASSUME NEW k \in DOMAIN sections
      PROVE  /\ \A i \in DOMAIN sections[k] : sections[k][i].project = p /\ sections[k][i].status = "active"
             /\ \A l \in DOMAIN sections : \A i \in DOMAIN sections[k], j \in DOMAIN sections[l] :
                  sections[k][i] = sections[l][j] => k = l /\ i = j
             /\ Used(sections[k])[Len(sections[k])] <= (IF k = 0 THEN room.pinned ELSE room.kind)
  <2>1. k \in 0..Len(Kinds)  BY <1>3 DEF PacketShows
  <2>2. PICK at : Shows(found, sections[k], k, RoomOf(k, room), at)  BY <1>3, <2>1 DEF PacketShows
  <2>3. /\ Used(sections[k])[Len(sections[k])] <= RoomOf(k, room)
        /\ \A i \in DOMAIN sections[k] : at[i] \in Takes(found, k) /\ at[i] \in DOMAIN found /\ sections[k][i] = found[at[i]]
        /\ \A i, j \in DOMAIN sections[k] : at[i] = at[j] => i = j
    BY <1>4, <2>2 DEF Shows
  <2>4. \A i \in DOMAIN sections[k] : sections[k][i].project = p /\ sections[k][i].status = "active"  BY <1>1, <2>3
  <2>5. ASSUME NEW l \in DOMAIN sections, NEW i \in DOMAIN sections[k], NEW j \in DOMAIN sections[l],
               sections[k][i] = sections[l][j]
        PROVE  k = l /\ i = j
    <3>1. l \in 0..Len(Kinds)  BY <1>3 DEF PacketShows
    <3>2. PICK to : Shows(found, sections[l], l, RoomOf(l, room), to)  BY <1>3, <3>1 DEF PacketShows
    <3>3. to[j] \in Takes(found, l) /\ to[j] \in DOMAIN found /\ sections[l][j] = found[to[j]]  BY <1>4, <3>2 DEF Shows
    <3>4. to[j] = at[i] /\ at[i] \in Takes(found, k)  BY <1>1, <2>3, <2>5, <3>3
    <3>5. k = l  BY <2>1, <3>1, <3>3, <3>4, TakesApart
    <3>6. found[at[j]] = found[at[i]]  BY <2>3, <2>5, <3>5
    <3>7. at[j] = at[i]  BY <1>1, <2>3, <3>5, <3>6
    <3> QED  BY <2>3, <3>5, <3>7
  <2> QED  BY <2>3, <2>4, <2>5 DEF RoomOf
<1> QED  BY <1>5 DEF sections, FitsIn

LEMMA PacketBest == PacketKeepsBest
<1> SUFFICES ASSUME NEW table \in SUBSET Notes, NEW q \in Requests, NEW room \in Rooms, NEW p
             PROVE  KeepsBest(FoundFor(table, p, q), PacketFor(table, p, q, room))
  BY DEF PacketKeepsBest, Tables
<1> DEFINE found == FoundFor(table, p, q)
           sections == PacketFor(table, p, q, room)
           shown == UNION {Elements(section) : section \in Elements(sections)}
<1>1. found \in Seq(Notes) /\ \A m, n \in DOMAIN found : found[m] = found[n] => m = n  BY PacketFound
<1>2. sections = Packet(found, room)  BY DEF PacketFor
<1> HIDE DEF found, sections
<1>3. PacketShows(sections, found, room)  BY <1>1, <1>2, PacketIs
<1>4. \A e : e \in shown <=> \E k \in DOMAIN sections : \E n \in DOMAIN sections[k] : e = sections[k][n]  BY DEF Elements
<1> HIDE DEF shown
<1>5. ASSUME NEW i \in DOMAIN found, NEW j \in DOMAIN found, i < j, found[i].pinned = found[j].pinned,
             found[i].pinned \/ found[i].kind = found[j].kind, found[j] \in shown
      PROVE  found[i] \in shown
  <2>1. PICK k \in DOMAIN sections : \E n \in DOMAIN sections[k] : found[j] = sections[k][n]  BY <1>4, <1>5
  <2>2. PICK n \in DOMAIN sections[k] : found[j] = sections[k][n]  BY <2>1
  <2>3. k \in 0..Len(Kinds)  BY <1>3 DEF PacketShows
  <2>4. PICK at : Shows(found, sections[k], k, RoomOf(k, room), at)  BY <1>3, <2>3 DEF PacketShows
  <2>5. at[n] \in Takes(found, k) /\ sections[k][n] = found[at[n]]  BY <2>4 DEF Shows
  <2>6. at[n] = j  BY <1>1, <2>2, <2>5 DEF Takes
  <2>7. i \in Takes(found, k)  BY <1>5, <2>5, <2>6 DEF Takes
  <2>8. PICK m \in DOMAIN sections[k] : at[m] = i  BY <1>5, <2>4, <2>6, <2>7 DEF Shows
  <2>9. sections[k][m] = found[i]  BY <2>4, <2>8 DEF Shows
  <2> QED  BY <1>4, <2>8, <2>9
<1> QED  BY <1>5 DEF KeepsBest, found, sections, shown

LEMMA DistinctAre ==
  ASSUME NEW tags \in Seq(Words)
  PROVE  /\ Distinct(tags) \in Seq(Words) /\ Len(Distinct(tags)) <= Len(tags)
         /\ \A n \in DOMAIN Distinct(tags) : \E m \in DOMAIN tags : Distinct(tags)[n] = Trim(tags[m])
         /\ \A i, j \in DOMAIN Distinct(tags) : i # j => Lower(Distinct(tags)[i].word) # Lower(Distinct(tags)[j].word)
<1> DEFINE P == {n \in DOMAIN tags : \A m \in 1..(n - 1) : Lower(tags[m].word) # Lower(tags[n].word)}
           s == Trimmed(tags)
           d == Distinct(tags)
<1>1. DOMAIN tags = 1..Len(tags) /\ Len(tags) \in Nat  OBVIOUS
<1>2. \A n \in DOMAIN tags : Trim(tags[n]) \in Words /\ Trim(tags[n]).word = tags[n].word
  <2>1. \A n \in DOMAIN tags : tags[n] \in Words  OBVIOUS
  <2> QED  BY <2>1 DEF Trim, Words
<1>3. s \in Seq(Words) /\ Len(s) = Len(tags) /\ \A n \in DOMAIN tags : s[n] = Trim(tags[n])
  BY <1>1, <1>2 DEF Trimmed
<1>4. P \subseteq DOMAIN s  BY <1>1, <1>3
<1>5. d = Kept(s, P)  BY DEF Distinct
<1> HIDE DEF s, d
<1>6. \A m, n \in P : Lower(tags[m].word) = Lower(tags[n].word) => m = n
  <2> SUFFICES ASSUME NEW m \in P, NEW n \in P, Lower(tags[m].word) = Lower(tags[n].word) PROVE m = n  OBVIOUS
  <2>1. m \in Nat /\ n \in Nat /\ m >= 1 /\ n >= 1  BY <1>1
  <2>2. ~(m < n)
    <3>1. m < n => m \in 1..(n - 1)  BY <2>1
    <3> QED  BY <3>1
  <2>3. ~(n < m)
    <3>1. n < m => n \in 1..(m - 1)  BY <2>1
    <3> QED  BY <3>1
  <2> QED  BY <2>1, <2>2, <2>3
<1>7. P \subseteq DOMAIN tags  OBVIOUS
<1> HIDE DEF P
<1>8. /\ Cardinality(P) \in 0..Len(s) /\ d \in Seq(Words) /\ Len(d) = Cardinality(P)
      /\ \E at : Picks(s, P, at)
  BY <1>3, <1>4, <1>5, KeptAre
<1>9. PICK at : Picks(s, P, at)  BY <1>8
<1>10. /\ \A n \in DOMAIN d : at[n] \in P /\ at[n] \in DOMAIN tags /\ d[n] = Trim(tags[at[n]])
       /\ \A m, n \in DOMAIN d : at[m] = at[n] => m = n
  <2>1. DOMAIN d = 1..Cardinality(P)  BY <1>8
  <2> QED  BY <1>3, <1>5, <1>7, <1>9, <2>1 DEF Picks
<1>11. Len(d) <= Len(tags)  BY <1>3, <1>8
<1>12. ASSUME NEW i \in DOMAIN d, NEW j \in DOMAIN d, Lower(d[i].word) = Lower(d[j].word) PROVE i = j
  <2>1. Lower(tags[at[i]].word) = Lower(tags[at[j]].word)  BY <1>2, <1>10, <1>12
  <2> QED  BY <1>6, <1>10, <2>1
<1> QED  BY <1>8, <1>10, <1>11, <1>12 DEF d

LEMMA DistinctStays ==
  ASSUME NEW tags \in Seq(Words), \A n \in DOMAIN tags : ~tags[n].blanks,
         \A i, j \in DOMAIN tags : i # j => Lower(tags[i].word) # Lower(tags[j].word)
  PROVE  Distinct(tags) = tags
<1>1. DOMAIN tags = 1..Len(tags) /\ Len(tags) \in Nat /\ tags = [n \in 1..Len(tags) |-> tags[n]]  OBVIOUS
<1>2. \A n \in DOMAIN tags : Trim(tags[n]) = tags[n]
  <2>1. \A n \in DOMAIN tags : tags[n] \in Words /\ tags[n].blanks = FALSE  OBVIOUS
  <2> QED  BY <2>1 DEF Trim, Words
<1>3. Trimmed(tags) = tags  BY <1>1, <1>2 DEF Trimmed
<1>4. {n \in DOMAIN tags : \A m \in 1..(n - 1) : Lower(tags[m].word) # Lower(tags[n].word)} = DOMAIN tags  BY <1>1
<1> QED  BY <1>3, <1>4, KeptWhole DEF Distinct

LEMMA AcceptedOnce == AcceptedAgain
<1> SUFFICES ASSUME NEW d \in Drafts, Accepted(d)
             PROVE  /\ Accepted(Normalized(d)) /\ Storable(Normalized(d))
                    /\ Normalized(Normalized(d)) = Normalized(d)
                    /\ \A i, j \in DOMAIN Normalized(d).tags :
                         i # j => Lower(Normalized(d).tags[i].word) # Lower(Normalized(d).tags[j].word)
  BY DEF AcceptedAgain
<1>1. d \in [kind : STRING, title : Words, body : Words, tags : Seq(Words), confidence : Nat]  BY RetrievalConstants
<1>2. PICK e : e = Normalized(d)  OBVIOUS
<1>3. /\ e = [d EXCEPT !.title = Trim(d.title), !.body = Trim(d.body), !.tags = Distinct(d.tags)]
      /\ e.kind = d.kind /\ e.title = Trim(d.title) /\ e.body = Trim(d.body) /\ e.tags = Distinct(d.tags)
      /\ e.confidence = d.confidence
  BY <1>1, <1>2 DEF Normalized
<1>4. \A w \in Words : Trim(w) \in Words /\ Trim(w).word = w.word /\ ~Trim(w).blanks /\ Trim(Trim(w)) = Trim(w)
  BY DEF Trim, Words
<1>5. /\ e.tags \in Seq(Words) /\ Len(e.tags) <= Len(d.tags)
      /\ \A n \in DOMAIN e.tags : \E m \in DOMAIN d.tags : e.tags[n] = Trim(d.tags[m])
      /\ \A i, j \in DOMAIN e.tags : i # j => Lower(e.tags[i].word) # Lower(e.tags[j].word)
  BY <1>1, <1>3, DistinctAre
<1>6. d.title \in Words /\ d.body \in Words /\ d.tags \in Seq(Words) /\ \A m \in DOMAIN d.tags : d.tags[m] \in Words
  BY <1>1
<1>7. \A n \in DOMAIN e.tags : ~e.tags[n].blanks /\ ~Empty(e.tags[n]) /\ ~Long(e.tags[n])
  <2> SUFFICES ASSUME NEW n \in DOMAIN e.tags PROVE ~e.tags[n].blanks /\ ~Empty(e.tags[n]) /\ ~Long(e.tags[n])
    OBVIOUS
  <2>1. PICK m \in DOMAIN d.tags : e.tags[n] = Trim(d.tags[m])  BY <1>5
  <2>2. d.tags[m] \in Words /\ ~Empty(d.tags[m]) /\ ~Long(d.tags[m])  BY <1>6 DEF Accepted
  <2>3. e.tags[n].word = d.tags[m].word /\ ~e.tags[n].blanks  BY <1>4, <2>1, <2>2
  <2> QED  BY <2>2, <2>3 DEF Empty, Long
<1>8. e.title.word = d.title.word /\ e.body.word = d.body.word  BY <1>3, <1>4, <1>6
<1>9. Len(e.tags) <= MostTags
  <2>1. Len(e.tags) \in Nat /\ Len(d.tags) \in Nat  BY <1>5, <1>6
  <2>2. Len(d.tags) <= MostTags /\ MostTags \in Nat  BY RetrievalConstants DEF Accepted
  <2> QED  BY <1>5, <2>1, <2>2
<1>10. Accepted(e)  BY <1>3, <1>7, <1>8, <1>9 DEF Accepted, Empty, Long
<1>11. Storable(e)  BY <1>7, <1>10 DEF Accepted, Storable, Elements
<1>12. Normalized(e) = e
  <2>1. Distinct(e.tags) = e.tags  BY <1>5, <1>7, DistinctStays
  <2>2. Trim(e.title) = e.title /\ Trim(e.body) = e.body  BY <1>3, <1>4, <1>6
  <2>3. e \in [kind : STRING, title : Words, body : Words, tags : Seq(Words), confidence : Nat]
    BY <1>1, <1>3, <1>4, <1>5, <1>6
  <2> QED  BY <2>1, <2>2, <2>3 DEF Normalized
<1> QED  BY <1>2, <1>5, <1>10, <1>11, <1>12

LEMMA RetrievalHolds == RetrievalInv
BY SearchDetermined, SearchBest, CountsMatch, PacketFitting, PacketBest, AcceptedOnce DEF RetrievalInv

-----------------------------------------------------------------------------
(* Theorems *)

(* Of two entries about one thing the newer one is active, no knowledge is lost, a run has one report, and what *)
(* is shown is the selected list as it is after the changes made here (memory-service.ts create,                 *)
(* artifact-service.ts generateFinalReport, Dashboard.tsx MemoryView).                                           *)
THEOREM RecordsInvHolds == Spec => []RecordsInv
<1>1. RecordsIInv /\ [Next]_vars => RecordsIInv'
  BY RecordsStep
<1> QED
  BY <1>1, RecordsStart, RecordsSettled, PTL DEF Spec

(* No change is made to an entry that is not any more what its user saw, and none to one that has been *)
(* superseded (memory-service.ts update, setStatus).                                                    *)
THEOREM ChangesAreInformedHolds == Spec => ChangesAreInformed
<1>1. RecordsIInv /\ [Next]_vars => RecordsIInv'
  BY RecordsStep
<1>2. Later => SupersededStays
  BY DEF Later, Becomes, SupersededStays
<1>3. RecordsIInv /\ [Next]_vars => [SupersededStays /\ ChangeOnSeen]_memoryVars
  BY <1>2, RecordsStep
<1> QED
  BY <1>1, <1>3, RecordsStart, PTL DEF Spec, ChangesAreInformed

(* The tables, the tab and what reaches an agent together: besides RecordsInv, a search and a packet keep the   *)
(* best of what is current and fit their bounds (retrieval.ts searchMemory, buildMemoryPacket), and an accepted *)
(* candidate is accepted and stored again as it is (memory-service.ts validateMemoryCandidate).                 *)
THEOREM NotesInvHolds == Spec => []NotesInv
<1>1. RecordsIInv /\ [Next]_vars => RecordsIInv'
  BY RecordsStep
<1>2. RecordsIInv => NotesInv
  BY RecordsSettled, RetrievalHolds DEF NotesInv
<1> QED
  BY <1>1, <1>2, RecordsStart, PTL DEF Spec
=============================================================================
