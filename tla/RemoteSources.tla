---------------------------- MODULE RemoteSources ----------------------------
(***************************************************************************)
(* The task sources of the remote trackers (src/src/linear, jira, asana,   *)
(* github and gitlab, src/src/providers/common.ts): how a list of issues   *)
(* is read page by page while the tracker goes on changing, how an issue   *)
(* of each tracker becomes one of the Dashboard, and what an agent may ask *)
(* of the tracker through its tool.                                        *)
(*                                                                         *)
(* One call of a source and one call of an agent's tool are under way at a *)
(* time; a step is one HTTP request.  The trackers themselves are modelled *)
(* from what the requests rely on: lists come newest first, a bookmark     *)
(* stands for the place of the last issue of its page.                     *)
(*                                                                         *)
(* Of an issue what decides its dispatch is modelled; its texts, dates,    *)
(* priority and branch name are left out.  Case and blanks are taken as    *)
(* normalized (normalizedState).                                           *)
(***************************************************************************)
EXTENDS Naturals, Sequences, FiniteSets

CONSTANTS
  Kind,        \* what each entry the tracker may ever hold is
  Present,     \* how many of them it holds at first
  PageSize,    \* PAGE_SIZE
  MaxPages,    \* MAX_PAGES
  MaxChanges   \* bound on changes of the tracker, lists, tool calls and failures

Providers == {"linear", "jira", "asana", "github", "gitlab"}

\* Trackers whose pages are numbered; the others give a bookmark with each page.
Numbered == {"github", "gitlab"}

\* Trackers that list by state themselves; from the others the whole board is
\* read and then filtered.
FiltersItself == {"linear", "jira"}

ASSUME RemoteAssumptions ==
  /\ Kind \in Seq({"issue", "pull", "broken"})
  /\ Present \in 0..Len(Kind)
  /\ PageSize \in Nat \ {0} /\ MaxPages \in Nat \ {0} /\ MaxChanges \in Nat

Entries == DOMAIN Kind

-----------------------------------------------------------------------------
(* The routing of a project, and an issue as it is read *)

\* routing.states, activeStates and terminalStates, in their order.
Columns == <<"todo", "doing", "done">>
ActiveColumns == <<"todo", "doing">>
TerminalColumns == <<"done">>
AllColumns == {"todo", "doing", "done"}

\* routing.stateLabels: the label that stands for a state.
StateLabels == [doing |-> "wip"]

\* routing.assignee; "me" is replaced by the identity of the credential, "mine".
Assignees == {"anyone", "me", "mine"}

\* The entry of a tracker: closed or completed; the workflow state of Linear and
\* Jira, and the section of Asana; labels; who it is assigned to; the state of
\* an issue that blocks it; the project it is in, if any.
RawEntries == [closed : BOOLEAN, column : AllColumns, labels : SUBSET {"doing", "done", "wip"},
               assignee : {"mine", "other", "nobody"}, blocker : {"none", "todo", "done", "unknown"},
               place : {"here", "elsewhere", "nowhere"}]

Some(seq, ok(_)) == \E k \in DOMAIN seq : ok(seq[k])
First(seq, ok(_)) == seq[CHOOSE k \in DOMAIN seq : ok(seq[k]) /\ \A j \in 1..(k - 1) : ~ok(seq[j])]
IsTerminal(column) == Some(TerminalColumns, LAMBDA t : t = column)

\* The state that the labels name: a configured label goes before a label that
\* is a state.
Named(labels) ==
  LET configured == {s \in DOMAIN StateLabels : StateLabels[s] \in labels}
  IN IF configured # {} THEN configured
     ELSE IF Some(Columns, LAMBDA s : s \in labels) THEN {First(Columns, LAMBDA s : s \in labels)}
     ELSE {}

Fallback(closed) == IF closed THEN TerminalColumns[1] ELSE ActiveColumns[1]

\* Mutant of LabelState: a closed issue keeps the state its label names.
LabelStateAsLabelled(closed, labels) ==
  IF Named(labels) = {} THEN Fallback(closed) ELSE CHOOSE s \in Named(labels) : TRUE

\* resolveLabelState: a closed issue is in a terminal state.
LabelState(closed, labels) ==
  IF Named(labels) = {} \/ (closed /\ \A s \in Named(labels) : ~IsTerminal(s)) THEN Fallback(closed)
  ELSE CHOOSE s \in Named(labels) : TRUE

Assigned(raw, expected) == expected = "anyone" \/ raw.assignee = expected

\* Linear: a todo issue waits for the issues that block it.
LinearIssue(raw, expected) ==
  LET blocked == raw.column = "todo" /\ raw.blocker \in {"todo", "unknown"}
  IN [state |-> raw.column, dispatchable |-> Assigned(raw, expected) /\ ~blocked]

JiraIssue(raw, expected) == [state |-> raw.column, dispatchable |-> Assigned(raw, expected)]

\* Asana: a task that is in no project has no section.
AsanaTask(raw, expected) ==
  [state |-> IF raw.closed \/ raw.place # "here" THEN Fallback(raw.closed) ELSE raw.column,
   dispatchable |-> Assigned(raw, expected)]

GitHubIssue(raw, expected) == [state |-> LabelState(raw.closed, raw.labels), dispatchable |-> Assigned(raw, expected)]

GitLabIssue(raw, expected) == [state |-> LabelState(raw.closed, raw.labels), dispatchable |-> Assigned(raw, expected)]

IssueOf(p, raw, expected) ==
  CASE p = "linear" -> LinearIssue(raw, expected)
    [] p = "jira"   -> JiraIssue(raw, expected)
    [] p = "asana"  -> AsanaTask(raw, expected)
    [] p = "github" -> GitHubIssue(raw, expected)
    [] p = "gitlab" -> GitLabIssue(raw, expected)

\* An entry is no issue or one.  A pull request is none, and neither is an entry
\* without a title or a task of other projects only.
Normalized(p, i, raw, expected) ==
  IF Kind[i] # "issue" \/ (p = "asana" /\ raw.place = "elsewhere") THEN {}
  ELSE {[id |-> i, issue |-> IssueOf(p, raw, expected)]}

-----------------------------------------------------------------------------
VARIABLES
  provider, assignee,   \* of the project, fixed
  entries,   \* the tracker: the entries it holds, as they are
  created,   \* how many entries were ever made
  walk,      \* the list or the lookup under way
  tool,      \* the tool call under way
  changes,
  unchanged, \* history: entries that are as they were when the walk began
  shifted,   \* history: an entry has left the list during the walk
  strayed    \* history: a tool call has changed an issue that was in another project

remoteVars == <<provider, assignee, entries, created, walk, tool, changes, unchanged, shifted, strayed>>

NoWalk == [pc |-> "off", expected |-> "anyone", wanted |-> {}, refs |-> {}, todo |-> {},
           page |-> 1, after |-> 0, got |-> {}]
NoTool == [pc |-> "off", id |-> 0, outside |-> FALSE]
Held == DOMAIN entries
InPlace == {i \in Held : entries[i].place = "here"}

RemoteTypeOK ==
  /\ Held \subseteq 1..created /\ \A i \in Held : entries[i] \in RawEntries
  /\ walk.pc \in {"off", "viewer", "pages", "refs", "done", "failed"} /\ walk.page \in 1..MaxPages
  /\ tool.pc \in {"off", "check", "call"} /\ changes \in 0..MaxChanges
  /\ unchanged \subseteq Held

\* An entry as it is made: the first is labelled, the second over, the third assigned to somebody else.
New(i) == [closed |-> i = 2, column |-> IF i = 2 THEN "done" ELSE "todo",
           labels |-> IF i = 1 THEN {"wip"} ELSE {}, assignee |-> IF i = 3 THEN "other" ELSE "mine",
           blocker |-> "none", place |-> "here"]

RemoteInit ==
  /\ provider \in Providers /\ assignee \in Assignees
  /\ entries = [i \in 1..Present |-> New(i)] /\ created = Present
  /\ walk = NoWalk /\ tool = NoTool /\ changes = 0
  /\ unchanged = {} /\ shifted = FALSE /\ strayed = FALSE

Change == changes < MaxChanges /\ changes' = changes + 1
Fixed == UNCHANGED <<provider, assignee>>

-----------------------------------------------------------------------------
(* A list or a lookup *)

\* What the requests of the walk list: GitHub mixes pull requests in, Linear and
\* Jira ask for the wanted states, and Jira for the issues that are looked up.
ListedEntries ==
  {i \in InPlace : /\ Kind[i] = "pull" => provider = "github"
                   /\ provider \in FiltersItself /\ walk.wanted # AllColumns => entries[i].column \in walk.wanted
                   /\ walk.refs # {} => i \in walk.refs}

\* The next page by its number, and by the bookmark of the last one; newest first.
NewerThan(i, set) == Cardinality({j \in set : j > i})
NumberedPage ==
  {i \in ListedEntries : NewerThan(i, ListedEntries) \in ((walk.page - 1) * PageSize)..(walk.page * PageSize - 1)}
MarkedPage ==
  LET rest == {i \in ListedEntries : walk.after = 0 \/ i < walk.after}
  IN {i \in rest : NewerThan(i, rest) < PageSize}
Page == IF provider \in Numbered THEN NumberedPage ELSE MarkedPage

\* More entries follow those of the page.
MoreFollow == \E i \in ListedEntries \ Page : \E j \in Page : i < j

Oldest(page) == CHOOSE i \in page : \A j \in page : i <= j
Decoded(page) == UNION {Normalized(provider, i, entries[i], walk.expected) : i \in page}

\* Mutant of LastPage: issues are counted, not entries of the page.
LastPageDecoded(page, more) ==
  IF provider \in Numbered THEN Cardinality(Decoded(page)) < PageSize ELSE ~more

\* A numbered page that is not full is the last one; the other trackers say so.
LastPage(page, more) ==
  IF provider \in Numbered THEN Cardinality(page) < PageSize ELSE ~more

\* resolveRouting: GitLab does not ask who "me" is.
Begins(pc, wanted, refs) ==
  /\ walk.pc \in {"off", "done", "failed"} /\ Change /\ Fixed
  /\ walk' = [NoWalk EXCEPT !.pc = IF assignee = "me" /\ provider # "gitlab" THEN "viewer" ELSE pc,
                            !.expected = assignee, !.wanted = wanted, !.refs = refs, !.todo = refs]
  /\ unchanged' = Held /\ shifted' = FALSE
  /\ UNCHANGED <<entries, created, tool, strayed>>

\* listBoardIssues, and listIssuesByStates.
ListBegins(wanted) == Begins("pages", wanted, {})

\* getIssuesByNativeRefs: Jira searches for them, page by page.
ByRefs(refs) == IF refs = {} \/ provider = "jira" THEN "pages" ELSE "refs"
LookupBegins(refs) == Begins(ByRefs(refs), AllColumns, refs)

WalkFrame == Fixed /\ UNCHANGED <<entries, created, tool, changes, unchanged, shifted, strayed>>

\* resolveRouting has found out who "me" is.
ViewerKnown ==
  /\ walk.pc = "viewer"
  /\ walk' = [walk EXCEPT !.pc = ByRefs(walk.refs), !.expected = "mine"]
  /\ WalkFrame

\* filterIssuesByStates.
InWanted(got) == {g \in got : g.issue.state \in walk.wanted}

\* One page.  A tracker that gives bookmarks may give one with its last page;
\* a walk that reaches the limit of pages fails as a whole.
PageArrives(more) ==
  LET got == walk.got \cup Decoded(Page)
  IN
  /\ walk.pc = "pages"
  /\ provider \notin Numbered /\ MoreFollow => more
  /\ Page = {} => ~more
  /\ walk' =
       IF LastPage(Page, more) THEN [walk EXCEPT !.pc = "done", !.got = InWanted(got)]
       ELSE IF walk.page = MaxPages THEN [walk EXCEPT !.pc = "failed", !.got = {}]
       ELSE [walk EXCEPT !.page = walk.page + 1, !.got = got,
                         !.after = IF Page = {} THEN walk.after ELSE Oldest(Page)]
  /\ WalkFrame

\* Linear looks all of them up in one query of the project.
QueryArrives ==
  /\ walk.pc = "refs" /\ provider = "linear"
  /\ walk' = [walk EXCEPT !.pc = "done", !.got = Decoded(walk.refs \cap InPlace)]
  /\ WalkFrame

\* GitHub, GitLab and Asana look them up one by one, and one that is gone fails
\* the whole lookup; Asana finds it in any project.
RefArrives(i) ==
  /\ walk.pc = "refs" /\ provider \in {"github", "gitlab", "asana"} /\ i \in walk.todo
  /\ walk' =
       IF i \in InPlace \/ (provider = "asana" /\ i \in Held)
       THEN [walk EXCEPT !.got = walk.got \cup Decoded({i}), !.todo = walk.todo \ {i},
                         !.pc = IF walk.todo = {i} THEN "done" ELSE "refs"]
       ELSE [walk EXCEPT !.pc = "failed", !.got = {}]
  /\ WalkFrame

\* requestJson: the network, the answer, the credential or its absence.
RequestFails ==
  /\ walk.pc \in {"viewer", "pages", "refs"} /\ Change /\ Fixed
  /\ walk' = [walk EXCEPT !.pc = "failed", !.got = {}]
  /\ UNCHANGED <<entries, created, tool, unchanged, shifted, strayed>>

-----------------------------------------------------------------------------
(* The tool of an agent *)

\* A path of GitHub, GitLab or Jira names the issue within the project; Asana's
\* names no project, so the task is looked up first; Linear's query may name any.
ToolBegins(i) ==
  /\ tool.pc = "off" /\ i \in Held /\ Change /\ Fixed
  /\ i \in InPlace \/ provider \in {"linear", "asana"}
  /\ tool' = [pc |-> IF provider = "asana" THEN "check" ELSE "call", id |-> i,
              outside |-> i \notin InPlace]
  /\ UNCHANGED <<entries, created, walk, unchanged, shifted, strayed>>

\* Mutant of InProject: the memberships of the task are not looked at.
InProjectUnread(i) == i \in Held

\* assertTaskInProject.
InProject(i) == i \in InPlace

ToolChecked ==
  /\ tool.pc = "check"
  /\ tool' = IF InProject(tool.id) THEN [tool EXCEPT !.pc = "call"] ELSE NoTool
  /\ Fixed /\ UNCHANGED <<entries, created, walk, changes, unchanged, shifted, strayed>>

\* What becomes of an issue that somebody works on.
Progress(raw) == {[raw EXCEPT !.column = "doing", !.labels = {"doing"}, !.closed = FALSE],
                  [raw EXCEPT !.column = "done", !.closed = TRUE]}

Rewrite(i, raw) ==
  /\ entries' = [entries EXCEPT ![i] = raw]
  /\ unchanged' = unchanged \ {i}

\* The call changes the issue, if the tracker still finds it by that path.
ToolCalls ==
  /\ tool.pc = "call" /\ tool' = NoTool /\ Fixed
  /\ IF tool.id \in InPlace \/ (tool.id \in Held /\ provider \in {"linear", "asana"})
     THEN /\ \E raw \in Progress(entries[tool.id]) : Rewrite(tool.id, raw)
          /\ strayed' = (strayed \/ tool.outside)
     ELSE UNCHANGED <<entries, unchanged, strayed>>
  /\ UNCHANGED <<created, walk, changes, shifted>>

-----------------------------------------------------------------------------
(* The tracker *)

TrackerFrame == Fixed /\ UNCHANGED <<walk, tool, strayed>>

Creates ==
  /\ created < Len(Kind) /\ Change /\ TrackerFrame
  /\ created' = created + 1
  /\ entries' = [i \in Held \cup {created + 1} |-> IF i \in Held THEN entries[i] ELSE New(i)]
  /\ UNCHANGED <<unchanged, shifted>>

DeletesEntry(i) ==
  /\ i \in Held /\ Change /\ TrackerFrame
  /\ entries' = [j \in Held \ {i} |-> entries[j]]
  /\ unchanged' = unchanged \ {i} /\ shifted' = TRUE
  /\ UNCHANGED created

\* An issue is moved to another project, or only taken out of this one.
LeavesProject(i, place) ==
  /\ i \in InPlace /\ Change /\ TrackerFrame
  /\ Rewrite(i, [entries[i] EXCEPT !.place = place]) /\ shifted' = TRUE
  /\ UNCHANGED created

EditsEntry(i) ==
  /\ i \in Held /\ Change /\ TrackerFrame
  /\ \E raw \in Progress(entries[i]) : Rewrite(i, raw)
  /\ UNCHANGED <<created, shifted>>

RemoteNext ==
  \/ \E wanted \in {AllColumns, {"todo"}} : ListBegins(wanted)
  \/ \E refs \in SUBSET (1..created) \ {{}} : LookupBegins(refs)
  \/ ViewerKnown
  \/ \E more \in BOOLEAN : PageArrives(more)
  \/ QueryArrives
  \/ \E i \in Entries : RefArrives(i)
  \/ RequestFails
  \/ \E i \in Entries : ToolBegins(i)
  \/ ToolChecked
  \/ ToolCalls
  \/ Creates
  \/ \E i \in Entries : DeletesEntry(i) \/ EditsEntry(i)
  \/ \E i \in Entries, place \in {"elsewhere", "nowhere"} : LeavesProject(i, place)

-----------------------------------------------------------------------------
(* Properties *)

\* A list or a lookup that returns is whole: every issue that stayed as it was
\* and is asked for is in it, behind pages of pull requests too and with issues
\* made meanwhile.  The orchestrator takes an issue that is missing for one that
\* is gone, and aborts its agent.  Only numbered pages lose an issue, when an
\* entry before it leaves the list.
ListIsWhole ==
  walk.pc = "done" /\ ~(provider \in Numbered /\ shifted) =>
    \A i \in unchanged \cap InPlace :
      /\ Kind[i] = "issue" /\ (walk.refs = {} \/ i \in walk.refs)
      /\ IssueOf(provider, entries[i], walk.expected).state \in walk.wanted
      => \E g \in walk.got : g.id = i

\* The tool of an agent of a project changes no issue that was in no or another
\* project when it was called.  Linear's query is not looked at.
ToolInProject == provider # "linear" => ~strayed

\* What is closed or completed in the tracker is in a terminal state here, in
\* whatever state it is labelled: no agent is launched for it again.
ClosedIsOver ==
  \A p \in {"asana", "github", "gitlab"} : \A raw \in RawEntries :
    raw.closed => IsTerminal(IssueOf(p, raw, "anyone").state)

\* What is read from a tracker can be relied on, and what is written stays in the
\* project.
SourcesInv == RemoteTypeOK /\ ListIsWhole /\ ToolInProject /\ ClosedIsOver
=============================================================================
