--------------------------- MODULE MemoryRetrieval ---------------------------
(***************************************************************************)
(* What of a project's memory reaches a reader or an agent, and what may   *)
(* become an entry of it (src/src/memory/retrieval.ts, and list, packetFor *)
(* and validateMemoryCandidate of src/src/memory/memory-service.ts).       *)
(* These are pure functions: they are checked for every table, request and *)
(* candidate of an instance.                                               *)
(*                                                                         *)
(* A text is the sequence of its terms; the line of an entry in a packet   *)
(* has a length of its own.  In a candidate a text is a word, which is     *)
(* "long", "secret", a capital or none of these, with blanks or not.       *)
(***************************************************************************)
EXTENDS Naturals, Sequences, FiniteSets

CONSTANTS
  Notes,    \* the entries there may be
  Requests, \* what is asked for: a query (<<>> is none), kinds, tags, a limit
  Rooms,    \* the budgets of a packet: pinnedMaxChars and retrievedMaxChars
  Drafts,   \* the candidates
  MostTags, \* MAX_MEMORY_TAGS
  Kinds     \* MEMORY_KINDS, in the order of the sections

Words == [word : STRING, blanks : BOOLEAN]

ASSUME RetrievalConstants ==
  /\ IsFiniteSet(Notes)
  /\ \A e \in Notes : /\ {e.title, e.tags, e.body} \subseteq Seq(STRING) /\ e.pinned \in BOOLEAN
                      /\ e.id \in Nat /\ e.line \in Nat /\ e.updated \in Nat
                      /\ e.status \in {"active", "superseded", "archived"}
  /\ \A a, b \in Notes : a.id = b.id => a = b
  /\ Requests \subseteq [query : Seq(STRING), kinds : SUBSET STRING, tags : SUBSET STRING, limit : Nat]
  /\ \A r \in Rooms : r.pinned \in Nat /\ r.kind \in Nat
  /\ Drafts \subseteq [kind : STRING, title : Words, body : Words, tags : Seq(Words), confidence : Nat]
  /\ MostTags \in Nat
  /\ Kinds \in Seq(STRING) /\ \A m, n \in DOMAIN Kinds : Kinds[m] = Kinds[n] => m = n

-----------------------------------------------------------------------------
(* Sequences *)

Elements(s) == {s[n] : n \in DOMAIN s}

\* filter: the elements at some positions, in their order.
Kept(s, positions) ==
  LET Nth(n) == CHOOSE k \in positions : Cardinality({m \in positions : m <= k}) = n
  IN [n \in 1..Cardinality(positions) |-> s[Nth(n)]]

AtMost(limit, n) == IF n < limit THEN n ELSE limit

-----------------------------------------------------------------------------
(* searchMemory *)

\* hits: the terms of a text that are asked for, each as often as the text has it.
Hits(query, text) == Cardinality({k \in DOMAIN text : text[k] \in Elements(query)})

\* The score, times 3 |query|, which is the same for all entries of a search.
Score(query, e) == 3 * Hits(query, e.title) + 2 * Hits(query, e.tags) + Hits(query, e.body)

\* Mutant of Precedes: entries of one score and one age are equal.
PrecedesOrTies(query, a, b) ==
  \/ a.pinned /\ ~b.pinned
  \/ /\ a.pinned = b.pinned
     /\ \/ Score(query, a) > Score(query, b)
        \/ Score(query, a) = Score(query, b) /\ a.updated > b.updated

\* The order of the results: pinned, score, age, id.
Precedes(query, a, b) ==
  \/ a.pinned /\ ~b.pinned
  \/ /\ a.pinned = b.pinned
     /\ \/ Score(query, a) > Score(query, b)
        \/ Score(query, a) = Score(query, b) /\ a.updated > b.updated
        \/ Score(query, a) = Score(query, b) /\ a.updated = b.updated /\ a.id < b.id

\* poolFor: the entries of the project that are not history.
PoolFor(table, project, archived) ==
  {e \in table : e.project = project /\ (e.status = "active" \/ (archived /\ e.status = "archived"))}

Matching(pool, q) ==
  {e \in pool : /\ e.kind \in q.kinds
                /\ q.tags \subseteq Elements(e.tags)
                /\ q.query = <<>> \/ Score(q.query, e) > 0}

\* filter, sort and slice: an entry stands behind all that precede it.
Search(pool, q) ==
  LET matching == Matching(pool, q)
      Place(e) == Cardinality({f \in matching : ~Precedes(q.query, e, f)})
  IN [n \in 1..AtMost(q.limit, Cardinality(matching)) |-> CHOOSE e \in matching : Place(e) = n]

\* kindCounts
Count(table, project, kind) == Cardinality({e \in PoolFor(table, project, FALSE) : e.kind = kind})

-----------------------------------------------------------------------------
(* buildMemoryPacket *)

\* The room that the lines of a section take, up to each of them.
Used(section) ==
  LET used[n \in 0..Len(section)] == IF n = 0 THEN 0 ELSE used[n - 1] + section[n].line
  IN used

\* Mutant of Emit: an entry that does not fit is passed over, and a later one may fit.
EmitSkipping(section, room) ==
  LET used[n \in 0..Len(section)] ==
        IF n = 0 THEN 0
        ELSE LET before == used[n - 1] IN IF before + section[n].line > room THEN before ELSE before + section[n].line
  IN Kept(section, {n \in DOMAIN section : used[n - 1] + section[n].line <= room})

\* emit: the lines of a section, up to the first one that does not fit into what is left of its room.
Emit(section, room) ==
  LET used == Used(section)
  IN SubSeq(section, 1, Cardinality({n \in DOMAIN section : \A m \in 1..n : used[m] <= room}))

Pinned(found) == Kept(found, {n \in DOMAIN found : found[n].pinned})
OfKind(found, kind) == Kept(found, {n \in DOMAIN found : ~found[n].pinned /\ found[n].kind = kind})

\* The sections of a packet: the pinned entries, then those of each kind.
Packet(found, room) ==
  [k \in 0..Len(Kinds) |-> IF k = 0 THEN Emit(Pinned(found), room.pinned)
                           ELSE Emit(OfKind(found, Kinds[k]), room.kind)]

\* What a search with maxEntries finds among the active entries.
FoundFor(table, project, q) ==
  Search(PoolFor(table, project, FALSE), [q EXCEPT !.kinds = Elements(Kinds), !.tags = {}])

\* packetFor
PacketFor(table, project, q, room) == Packet(FoundFor(table, project, q), room)

-----------------------------------------------------------------------------
(* validateMemoryCandidate *)

Trim(text) == [text EXCEPT !.blanks = FALSE]
Empty(text) == text.word = ""
Long(text) == text.word = "long"

Lower(word) == IF word = "X" THEN "x" ELSE word

Trimmed(tags) == [n \in DOMAIN tags |-> Trim(tags[n])]

\* Mutant of Distinct: tags that differ in case are two.
DistinctCased(tags) ==
  Kept(Trimmed(tags), {n \in DOMAIN tags : \A m \in 1..(n - 1) : tags[m].word # tags[n].word})

\* Of tags that are equal without blanks and case the first one is kept.
Distinct(tags) ==
  Kept(Trimmed(tags), {n \in DOMAIN tags : \A m \in 1..(n - 1) : Lower(tags[m].word) # Lower(tags[n].word)})

\* Mutant of Accepted: what is too long is seen after it was trimmed, what is empty before.
AcceptedBlank(d) ==
  /\ d.kind \in Elements(Kinds)
  /\ \A text \in {d.title, d.body} : (Empty(text) => text.blanks) /\ ~Long(text) /\ text.word # "secret"
  /\ Len(d.tags) <= MostTags
  /\ \A k \in DOMAIN d.tags : ~Empty(d.tags[k]) /\ ~Long(d.tags[k])
  /\ d.confidence \in 0..100

\* A candidate without a reason to refuse it.  Secrets are looked for in title and body.
Accepted(d) ==
  /\ d.kind \in Elements(Kinds)
  /\ \A text \in {d.title, d.body} : ~Empty(text) /\ ~Long(text) /\ text.word # "secret"
  /\ Len(d.tags) <= MostTags
  /\ \A k \in DOMAIN d.tags : ~Empty(d.tags[k]) /\ ~Long(d.tags[k])
  /\ d.confidence \in 0..100

Normalized(d) == [d EXCEPT !.title = Trim(@), !.body = Trim(@), !.tags = Distinct(@)]

\* projectMemoryRecordSchema: what the table takes.  It trims what it takes.
Storable(d) ==
  /\ d.kind \in Elements(Kinds)
  /\ \A text \in {d.title, d.body} \cup Elements(d.tags) : ~Empty(text) /\ ~Long(text)
  /\ Len(d.tags) <= MostTags
  /\ d.confidence \in 0..100

-----------------------------------------------------------------------------
(* Properties *)

Tables == SUBSET Notes
ProjectsOf(table) == {e.project : e \in table}

(* The result of a search does not depend on the order of the table, which is that of its writes: of two *)
(* entries one precedes the other (the comparison ends with the id).                                     *)
SearchIsDetermined ==
  \A q \in Requests : \A a, b \in Notes : a # b => (Precedes(q.query, a, b) <=> ~Precedes(q.query, b, a))

(* A limit cuts off the worst: no entry that a search leaves out is pinned when one it returns is not, or hits *)
(* the query better than one that is pinned as it is (searchMemory).                                           *)
SearchKeepsBest ==
  \A table \in Tables, q \in Requests : \A p \in ProjectsOf(table) :
    LET pool == PoolFor(table, p, FALSE)
        found == Elements(Search(pool, q))
    IN \A e \in Matching(pool, q) \ found, r \in found :
         (e.pinned => r.pinned) /\ (e.pinned = r.pinned => Score(q.query, r) >= Score(q.query, e))

FitsIn(sections, project, room) ==
  \A k \in DOMAIN sections :
    /\ \A i \in DOMAIN sections[k] : sections[k][i].project = project /\ sections[k][i].status = "active"
    /\ \A l \in DOMAIN sections : \A i \in DOMAIN sections[k], j \in DOMAIN sections[l] :
         sections[k][i] = sections[l][j] => k = l /\ i = j
    /\ Used(sections[k])[Len(sections[k])] <= (IF k = 0 THEN room.pinned ELSE room.kind)

(* A packet holds current entries of its project only, each once, and each section of it, the pinned entries *)
(* and those of one kind, keeps to its own room; the packet as a whole has none (buildMemoryPacket).         *)
PacketFits ==
  \A table \in Tables, q \in Requests, room \in Rooms : \A p \in ProjectsOf(table) :
    FitsIn(PacketFor(table, p, q, room), p, room)

KeepsBest(found, sections) ==
  LET shown == UNION {Elements(section) : section \in Elements(sections)}
  IN \A i, j \in DOMAIN found :
       /\ i < j /\ found[i].pinned = found[j].pinned /\ (found[i].pinned \/ found[i].kind = found[j].kind)
       /\ found[j] \in shown
       => found[i] \in shown

(* An entry that was found is left out of the packet only with everything of its section that comes after it: *)
(* an agent that reads an entry has been given all that is better than it of that kind.                       *)
PacketKeepsBest ==
  \A table \in Tables, q \in Requests, room \in Rooms : \A p \in ProjectsOf(table) :
    KeepsBest(FoundFor(table, p, q), PacketFor(table, p, q, room))

(* What was accepted may be edited: an entry is accepted again as it is stored, is stored unchanged, and the *)
(* table takes it, so that a later edit of one field is not refused because of another one.                  *)
AcceptedAgain ==
  \A d \in Drafts : Accepted(d) =>
    /\ Accepted(Normalized(d)) /\ Storable(Normalized(d))
    /\ Normalized(Normalized(d)) = Normalized(d)
    /\ \A i, j \in DOMAIN Normalized(d).tags : i # j => Lower(Normalized(d).tags[i].word) # Lower(Normalized(d).tags[j].word)

(* The number beside a kind is the number of entries that choosing the kind lists while the archived ones are *)
(* left out, unless the limit hides some.                                                                      *)
CountsMatchList ==
  \A table \in Tables, q \in Requests : q.query = <<>> /\ q.tags = {} =>
    \A p \in ProjectsOf(table), kind \in Elements(Kinds) :
      LET listed == Len(Search(PoolFor(table, p, FALSE), [q EXCEPT !.kinds = {kind}]))
      IN listed = AtMost(q.limit, Count(table, p, kind))

RetrievalInv ==
  /\ SearchIsDetermined /\ SearchKeepsBest /\ CountsMatchList
  /\ PacketFits /\ PacketKeepsBest /\ AcceptedAgain
=============================================================================
