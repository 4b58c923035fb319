------------------------------ MODULE Overview ------------------------------
(***************************************************************************)
(* What the browser shows of the projects: the columns an orchestrator     *)
(* makes of its issues (src/src/orchestrator/orchestrator.ts), the one     *)
(* board made of all projects (src/src/runtime/global.ts), the routes back *)
(* from it (src/src/runtime/coordinator.ts) and what needs attention       *)
(* (src/src/client/attention.ts).                                          *)
(*                                                                         *)
(* A state name is a sequence of words with a spelling, so that names that *)
(* differ in case only are told apart; a key, whose parts the code encodes *)
(* and joins with colons, is the sequence of its parts.  Left out are      *)
(* titles, colors, labels, token sums and the order of the issues within   *)
(* a column of one project.                                                *)
(***************************************************************************)
EXTENDS Integers, Sequences, FiniteSets

CONSTANTS
  Alphabet,    \* the names without their spelling, in alphabetic order
  StaleAfter,  \* three polling intervals
  MaxInt,      \* stands for the largest safe integer
  Registries,  \* the lists of projects there may be
  Now          \* the time of the browser

Undefined == -1
Or(value, default) == IF value = Undefined THEN default ELSE value

Names == [words : Seq(STRING), upper : BOOLEAN]
Listed(name) == \E i \in DOMAIN Alphabet : Alphabet[i] = name.words

Flow == [visible : Seq(Names), active : Seq(Names), terminal : Seq(Names)]
BoardIssue == [scope : STRING, ref : Nat, number : Nat, state : Names, type : STRING,
               position : Int, priority : Int]
Registered ==
  [id : STRING, flow : Flow, issues : Seq(BoardIssue), live : BOOLEAN, context : BOOLEAN,
   definition : BOOLEAN, error : BOOLEAN, remembered : STRING, refreshed : Nat \cup {Undefined},
   failed : BOOLEAN, runtime : Seq([key : STRING \X Nat, phase : STRING])]

\* The keys of issues and of runtime views tell them apart, and every state has a place in the alphabet.
Proper(project) ==
  /\ \A i, j \in DOMAIN project.issues :
       /\ project.issues[i].scope = project.issues[j].scope
       /\ project.issues[i].ref = project.issues[j].ref
       => i = j
  /\ \A i, j \in DOMAIN project.runtime : project.runtime[i].key = project.runtime[j].key => i = j
  /\ \A i \in DOMAIN project.issues : Listed(project.issues[i].state)
  /\ \A names \in {project.flow.visible, project.flow.active, project.flow.terminal} :
       \A n \in DOMAIN names : Listed(names[n])

ASSUME OverviewConstants ==
  /\ DOMAIN Alphabet \subseteq Nat /\ StaleAfter \in Nat /\ MaxInt \in Nat /\ Now \in Nat
  /\ Registries \subseteq Seq(Registered)
  /\ \A projects \in Registries :
       /\ \A p, q \in DOMAIN projects : projects[p].id = projects[q].id => p = q
       /\ \A p \in DOMAIN projects : Proper(projects[p])

-----------------------------------------------------------------------------
(* Orders and lists *)

\* The elements of S, sorted: R holds the pairs that are in order.
Sorted(S, R) ==
  LET Place(x) == Cardinality({y \in S : <<x, y>> \notin R})
  IN [n \in 1..Cardinality(S) |-> CHOOSE x \in S : Place(x) = n]

\* filter
Kept(s, positions) ==
  LET at == Sorted(positions, {w \in positions \X positions : w[1] < w[2]})
  IN [n \in DOMAIN at |-> s[at[n]]]

Elements(s) == {s[n] : n \in DOMAIN s}
Least(S) == CHOOSE x \in S : \A y \in S : x <= y
Greatest(S) == CHOOSE x \in S : \A y \in S : y <= x

\* normalizedState.
Normal(name) == name.words
NamesOf(names) == {Normal(names[n]) : n \in DOMAIN names}
Before(left, right) ==
  LET Rank(name) == CHOOSE i \in DOMAIN Alphabet : Alphabet[i] = Normal(name)
  IN Rank(left) < Rank(right)

-----------------------------------------------------------------------------
(* The board of one project *)

\* The declared states, each spelling once, the first time it occurs.
Declared(flow) ==
  LET all == flow.visible \o flow.active \o flow.terminal
  IN Kept(all, {n \in DOMAIN all : \A m \in 1..(n - 1) : all[m] # all[n]})

\* The column of the states with one normal form: the last declaration of it
\* rules, else the first issue that is in it.
ColumnOf(key, flow, issues) ==
  LET declared == Declared(flow)
      spelled == {p \in DOMAIN declared : Normal(declared[p]) = key}
      in == Kept(issues, {i \in DOMAIN issues : Normal(issues[i].state) = key})
      base == IF spelled = {} THEN MaxInt ELSE Greatest(spelled) - 1
  IN [name |-> IF spelled = {} THEN in[1].state ELSE declared[Greatest(spelled)],
      type |-> IF spelled = {} THEN in[1].type
               ELSE IF key \in NamesOf(flow.terminal) THEN "completed" ELSE "started",
      position |-> Least({base} \cup {Or(in[i].position, base) : i \in DOMAIN in}),
      hidden |-> flow.visible # << >> /\ key \notin NamesOf(flow.visible),
      issues |-> in]

\* buildColumns.
Columns(flow, issues) ==
  LET keys == NamesOf(Declared(flow)) \cup {Normal(issues[i].state) : i \in DOMAIN issues}
      column == [key \in keys |-> ColumnOf(key, flow, issues)]
      InOrder(c, d) == c.position < d.position \/ (c.position = d.position /\ Before(c.name, d.name))
      sorted == Sorted(keys, {w \in keys \X keys : InOrder(column[w[1]], column[w[2]])})
  IN [c \in DOMAIN sorted |-> column[sorted[c]]]

-----------------------------------------------------------------------------
(* Keys *)

\* issueKey of an issue without an origin.
SourceKey(issue) == <<issue.scope, issue.ref>>

\* Mutant of GlobalKey: the key of the source serves everywhere.
GlobalKeyOfSource(id, key) == key

\* globalRuntimeKey; issueKey of an issue with an origin is the same.
GlobalKey(id, key) == <<id, key[1], key[2]>>

-----------------------------------------------------------------------------
(* The board of all projects *)

\* Mutant of Finished: the tracker's kind of state decides, else its name.
FinishedByType(words, type, terminal) ==
  type = "completed" \/ (type = "" /\ words \in {<<"done">>, <<"complete">>, <<"completed">>, <<"closed">>, <<"resolved">>})

Finished(words, type, terminal) ==
  words \in terminal \/ type = "completed" \/ words \in {<<"done">>, <<"complete">>, <<"completed">>, <<"closed">>, <<"resolved">>}

\* canonicalState: the rules in their order, each named for its column.
Rules == <<"Duplicate", "Canceled", "Done", "Rework", "Merging", "Human Review", "Backlog", "Todo", "In Progress">>

Applies(rule, words, type, terminal) ==
  LET Says(fragments) == Elements(words) \cap fragments # {}
  IN \/ rule = "Duplicate" /\ Says({"duplicate"})
     \/ rule = "Canceled" /\ (Says({"cancel", "declin"}) \/ type \in {"canceled", "cancelled"})
     \/ rule = "Done" /\ Finished(words, type, terminal)
     \/ rule = "Rework" /\ Says({"rework", "changesrequested"})
     \/ rule = "Merging" /\ Says({"merg"})
     \/ rule = "Human Review" /\ Says({"review", "approval"})
     \/ rule = "Backlog" /\ (Says({"backlog"}) \/ type = "backlog")
     \/ rule = "Todo" /\ (words \in {<<"todo">>, <<"open">>} \/ Says({"unstarted"}) \/ type = "unstarted")
     \/ rule = "In Progress" /\ (Says({"progress", "development"}) \/ words = <<"doing">> \/ type = "started")

Canonical == <<"Backlog", "Todo", "In Progress", "Human Review", "Rework", "Merging", "Done",
               "Canceled", "Duplicate">>
Shown == {"Backlog", "Todo", "In Progress", "Human Review"}
CanonicalName(name) == [words |-> <<name>>, upper |-> TRUE]

\* The column of an issue: the canonical one of the first rule that applies, or one for its own state.
ColumnName(issue, column, terminal) ==
  LET type == IF issue.type = "" THEN column.type ELSE issue.type
      hits == {r \in DOMAIN Rules : Applies(Rules[r], Normal(issue.state), type, terminal)}
  IN IF hits = {} THEN issue.state ELSE CanonicalName(Rules[Least(hits)])

\* The cells of the boards: the places of the issues in their columns.
Cells(boards) ==
  UNION {UNION {{<<p, c, n>> : n \in DOMAIN boards[p][c].issues} : c \in DOMAIN boards[p]} : p \in DOMAIN boards}

\* v is visited before w.
Visited(v, w) ==
  v[1] < w[1] \/ (v[1] = w[1] /\ (v[2] < w[2] \/ (v[2] = w[2] /\ v[3] < w[3])))

\* Every issue of every board, with the column it goes to.
PlacedFrom(projections, boards) ==
  [w \in Cells(boards) |->
     LET column == boards[w[1]][w[2]]
         issue == column.issues[w[3]]
     IN [issue |-> issue, origin |-> projections[w[1]].id, from |-> column,
         name |-> ColumnName(issue, column, NamesOf(projections[w[1]].flow.terminal))]]

Placed(projections) ==
  PlacedFrom(projections, [p \in DOMAIN projections |-> Columns(projections[p].flow, projections[p].issues)])

\* Mutant of StaysHidden: the first project that has the state decides.
StaysHiddenByFirst(placed, slots) ==
  LET first == CHOOSE w \in slots : \A v \in slots : ~Visited(v, w) IN placed[first].from.hidden

\* A custom state stays visible when any owning project exposes it.
StaysHidden(placed, slots) == \A w \in slots : placed[w].from.hidden

\* Issues of one priority and one number stay in the order of the visits.
IssueOrder(placed, v, w) ==
  LET Priority(x) == Or(placed[x].issue.priority, MaxInt)
      Number(x) == placed[x].issue.number
  IN \/ Priority(v) < Priority(w)
     \/ /\ Priority(v) = Priority(w)
        /\ Number(v) < Number(w) \/ (Number(v) = Number(w) /\ Visited(v, w))

Column(name, hidden, position, placed, slots) ==
  LET sorted == Sorted(slots, {u \in slots \X slots : IssueOrder(placed, u[1], u[2])})
  IN [name |-> name, hidden |-> hidden, position |-> position,
      issues |-> [n \in DOMAIN sorted |-> placed[sorted[n]]]]

\* Mutant of CustomKey: a spelling is a state of its own.
CustomKeySpelled(name) == name

\* additionalKey.
CustomKey(name) == Normal(name)

IsCanonical(name) == \E c \in DOMAIN Canonical : name = CanonicalName(Canonical[c])

CanonicalColumn(c, placed) ==
  Column(CanonicalName(Canonical[c]), Canonical[c] \notin Shown, c - 1,
         placed, {w \in DOMAIN placed : placed[w].name = CanonicalName(Canonical[c])})

\* The issues whose state has a column of its own, and those that are the first of theirs.
Custom(placed) == {w \in DOMAIN placed : ~IsCanonical(placed[w].name)}
SameState(placed, w) == {v \in Custom(placed) : CustomKey(placed[v].name) = CustomKey(placed[w].name)}
Firsts(placed) == {w \in Custom(placed) : \A v \in SameState(placed, w) : ~Visited(v, w)}

CustomColumn(k, first, placed) ==
  Column(placed[first].name, StaysHidden(placed, SameState(placed, first)), Len(Canonical) + k - 1,
         placed, SameState(placed, first))

\* The columns of aggregateProjectSnapshots.
ColumnsWith(placed) ==
  LET firsts == Sorted(Firsts(placed), {u \in Firsts(placed) \X Firsts(placed) : Visited(u[1], u[2])})
  IN [c \in 1..(Len(Canonical) + Len(firsts)) |->
        IF c <= Len(Canonical) THEN CanonicalColumn(c, placed)
        ELSE CustomColumn(c - Len(Canonical), firsts[c - Len(Canonical)], placed)]

GlobalColumns(projections) == ColumnsWith(Placed(projections))

\* The runtime views of all projects under their global keys.
GlobalRuntime(projections) ==
  UNION {{[key |-> GlobalKey(projections[p].id, projections[p].runtime[n].key),
           phase |-> projections[p].runtime[n].phase, origin |-> projections[p].id] :
             n \in DOMAIN projections[p].runtime} : p \in DOMAIN projections}

Live(projects) == Kept(projects, {p \in DOMAIN projects : projects[p].live})

\* latestTimestamp, over all projects.
LastRefresh(projections) == Greatest({projections[p].refreshed : p \in DOMAIN projections} \cup {Undefined})

\* enrichProject: a project with a context is as its workflow is, another as
\* the catalog remembers it.
ConfigurationState(p) ==
  IF ~p.context THEN p.remembered
  ELSE IF p.definition /\ ~p.error THEN "ready" ELSE "invalid"

-----------------------------------------------------------------------------
(* The routes of globalSnapshot, and what needs attention *)

Routes(projects) ==
  LET live == Live(projects)
  IN UNION {{[key |-> GlobalKey(live[p].id, SourceKey(live[p].issues[i])),
              project |-> live[p].id, source |-> SourceKey(live[p].issues[i])] :
                i \in DOMAIN live[p].issues} : p \in DOMAIN live}

\* stopIssue and issueTimeline: the orchestrator and the key they reach.
Reached(projects, key) == {<<r.project, r.source>> : r \in {s \in Routes(projects) : s.key = key}}

\* buildAttentionSummary in the view of all projects.
IssueKeys(projects) ==
  {r.key : r \in {v \in GlobalRuntime(Live(projects)) : v.phase \in {"retrying", "blocked"}}}

\* Mutant of Invalid: only the projects that run are looked at.
InvalidLive(projects) ==
  {p \in DOMAIN projects : projects[p].live /\ ConfigurationState(projects[p]) = "invalid"}

Invalid(projects) == {p \in DOMAIN projects : ConfigurationState(projects[p]) = "invalid"}

Stale(projects, now) ==
  LET refreshed == LastRefresh(Live(projects))
  IN refreshed # Undefined /\ now - refreshed > StaleAfter

Failing(projects) == \E p \in DOMAIN projects : projects[p].live /\ projects[p].failed

AttentionCount(projects, now) ==
  Cardinality(IssueKeys(projects)) + Cardinality(Invalid(projects))
  + (IF Failing(projects) THEN 1 ELSE 0) + (IF Stale(projects, now) THEN 1 ELSE 0)
-----------------------------------------------------------------------------
(* Properties, of the projects that are registered *)

Stands(card, project, issue) == card.origin = project.id /\ card.issue = issue

\* Every issue of every project stands in exactly one column of the board of
\* all projects, as an issue of its project, and nothing else does.
StandsOnce(live, columns) ==
  LET Cards == UNION {{<<c, n>> : n \in DOMAIN columns[c].issues} : c \in DOMAIN columns}
      Card(w) == columns[w[1]].issues[w[2]]
  IN /\ \A p \in DOMAIN live : \A i \in DOMAIN live[p].issues :
          \E w \in Cards : \A v \in Cards : Stands(Card(v), live[p], live[p].issues[i]) <=> v = w
     /\ \A w \in Cards : \E p \in DOMAIN live : \E i \in DOMAIN live[p].issues :
          Stands(Card(w), live[p], live[p].issues[i])

EveryIssueOnce(projects) == StandsOnce(Live(projects), GlobalColumns(Live(projects)))

\* An issue whose project counts its state as finished is shown as finished,
\* whatever the state is called and whatever kind the tracker gives it.
FinishedIsShownFinished(projects) ==
  LET placed == Placed(Live(projects))
      finished == {CanonicalName(c) : c \in {"Done", "Canceled", "Duplicate"}}
  IN \A e \in DOMAIN placed : \A p \in DOMAIN projects :
       (projects[p].id = placed[e].origin
        /\ Normal(placed[e].issue.state) \in NamesOf(projects[p].flow.terminal))
       => placed[e].name \in finished

\* A state of its own is one column, however the projects spell it, and it is
\* hidden only if every project that has an issue in it hides it.
VisibleWhereExposed(live, columns) ==
  LET HiddenAt(p, key) == live[p].flow.visible # << >> /\ key \notin NamesOf(live[p].flow.visible)
  IN \A c \in (Len(Canonical) + 1)..Len(columns) :
       /\ \A d \in (Len(Canonical) + 1)..Len(columns) :
            Normal(columns[c].name) = Normal(columns[d].name) => c = d
       /\ columns[c].hidden <=>
          \A p \in DOMAIN live :
            HiddenAt(p, Normal(columns[c].name))
            \/ \A e \in DOMAIN columns[c].issues : columns[c].issues[e].origin # live[p].id

CustomStatesStayVisible(projects) == VisibleWhereExposed(Live(projects), GlobalColumns(Live(projects)))

\* The key of a card leads back to the one project it came from, also when two
\* projects follow the same tracker, and what runs is found under that key.
KeysLeadBack(projects) ==
  LET live == Live(projects)
  IN \A p \in DOMAIN live : \A i \in DOMAIN live[p].issues :
       Reached(projects, GlobalKey(live[p].id, SourceKey(live[p].issues[i])))
       = {<<live[p].id, SourceKey(live[p].issues[i])>>}

\* Every retrying and every blocked issue counts once, and so does every project
\* whose workflow is invalid, whether or not it runs; the whole is stale only
\* when every project that was ever refreshed is.
AttentionIsComplete(projects, now) ==
  LET live == Live(projects)
      waiting == UNION {{<<p, n>> : n \in {m \in DOMAIN live[p].runtime :
                                             live[p].runtime[m].phase \in {"retrying", "blocked"}}} : p \in DOMAIN live}
      refreshed == {p \in DOMAIN live : live[p].refreshed # Undefined}
      broken == {p \in DOMAIN projects :
                   IF projects[p].context THEN projects[p].error \/ ~projects[p].definition
                   ELSE projects[p].remembered = "invalid"}
  IN AttentionCount(projects, now) =
       Cardinality(waiting) + Cardinality(broken)
       + (IF \E p \in DOMAIN live : live[p].failed THEN 1 ELSE 0)
       + (IF refreshed # {} /\ \A p \in refreshed : live[p].refreshed + StaleAfter < now THEN 1 ELSE 0)

\* The board of all projects is what the boards of the projects say, its cards
\* lead back, and nothing that needs attention is missed or counted twice.
OverviewInv ==
  \A projects \in Registries :
    /\ EveryIssueOnce(projects) /\ FinishedIsShownFinished(projects)
    /\ CustomStatesStayVisible(projects) /\ KeysLeadBack(projects)
    /\ AttentionIsComplete(projects, Now)
=============================================================================
