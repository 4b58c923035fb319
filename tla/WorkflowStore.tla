---------------------------- MODULE WorkflowStore ----------------------------
(***************************************************************************)
(* The WORKFLOW.md of a project (src/src/workflow/store.ts, parser.ts and  *)
(* provider.ts, and the sources that index.ts makes of it): what is taken  *)
(* for a policy, and how the one in force follows the file, which is       *)
(* watched, read after a while, and read again when the project is         *)
(* selected; a read takes time and a file that is not accepted is not      *)
(* taken.                                                                  *)
(*                                                                         *)
(* A document says whether it has the two delimiters and a prompt, and     *)
(* what each field of the provider is: absent, blank, a text or a number.  *)
(* The other settings of a policy are one by one replaced by a default,    *)
(* and left out.                                                           *)
(***************************************************************************)
EXTENDS Naturals, Sequences, FiniteSets

CONSTANTS
  Documents, \* the documents the file may hold from the beginning, and then keeps
  Texts,     \* those of them it holds from time to time
  Absent,    \* no file, or no policy
  Reads,     \* bound: reads under way at once
  MaxWrites  \* bound: changes of the file

ASSUME WorkflowConstants ==
  /\ Texts \subseteq Documents /\ Absent \notin Documents /\ MaxWrites \in Nat
  /\ \A d \in Documents : {d.active, d.terminal, d.visible} \subseteq Seq(STRING)

-----------------------------------------------------------------------------
(* parseWorkflow *)

\* The kind as it is compared here: without regard to case.
Lowered(kind) == IF kind = "GitHub" THEN "github" ELSE kind

\* Mutant of RequiredByKind: the repository is forgotten.
RequiredByKindOwner(kind) ==
  CASE kind = "github" -> {"owner"} [] kind = "gitlab" -> {"project_id"} [] OTHER -> {}

\* requiredByKind; linear, jira and asana are like github with fields of their own.
RequiredByKind(kind) ==
  CASE kind = "github" -> {"owner", "repo"} [] kind = "gitlab" -> {"project_id"} [] OTHER -> {}

\* normalizeProvider: a number that names a project is a text; the local source has a project of its own.
NormalizedProvider(kind, provider) ==
  CASE kind = "gitlab" /\ provider["project_id"] = "number" -> [provider EXCEPT !["project_id"] = "text"]
    [] kind = "local" /\ provider["project_id"] # "text" -> [provider EXCEPT !["project_id"] = "text"]
    [] OTHER -> provider

Valid(d) ==
  LET provider == NormalizedProvider(Lowered(d.kind), d.provider) IN
    /\ d.delimited /\ d.prompt /\ d.profile = "configured"
    /\ d.active # <<>> /\ d.terminal # <<>>
    /\ \A f \in RequiredByKind(Lowered(d.kind)) : provider[f] = "text"
    /\ provider["assignee"] \in {"absent", "text"}

\* The provider of the definition that is made of a document.
Provider(d) == NormalizedProvider(Lowered(d.kind), d.provider)

-----------------------------------------------------------------------------
(* What the sources make of a definition *)

\* registerProjectSources: what each source requires (requireProviderString) when it is asked.
NeededBy(kind) ==
  CASE kind = "github" -> {"owner", "repo"} [] kind = "gitlab" -> {"project_id"} [] OTHER -> {}

States(seq) == {seq[k] : k \in DOMAIN seq}

\* Mutant of StateOrder: a state that is visible twice has two columns.
StateOrderAll(active, terminal, visible) ==
  visible \o SelectSeq(active \o terminal, LAMBDA s : s \notin States(visible))

\* workflowStateOrder: the states in the order of the columns, each where it first comes.
StateOrder(active, terminal, visible) ==
  LET all == visible \o active \o terminal
      firsts == {k \in DOMAIN all : \A j \in 1..(k - 1) : all[j] # all[k]}
  IN [n \in 1..Cardinality(firsts) |->
        all[CHOOSE k \in firsts : Cardinality({j \in firsts : j < k}) = n - 1]]

-----------------------------------------------------------------------------
(* The store *)

VARIABLES
  file,     \* what the file holds
  current,  \* the definition in force, as the document it was made of
  error,    \* whether the last attempt has left an error
  reading,  \* the reloads under way: which text each has read, and after how many writes
  watcher,  \* "none", "starting" (start waits for its first load), "open", "closed"
  changed,     \* a change the watcher has not reported
  debounce, \* the timer is armed
  writes,
  newest,   \* history: after how many writes the newest text applied was read
  behind,   \* history: the last text applied was read before another one applied before it
  missed,   \* history: the file changed between the first read and the watcher
  good      \* history: the last document accepted

workflowVars == <<file, current, error, reading, watcher, changed, debounce, writes, newest, behind, missed, good>>

NoRead == [stage |-> "none", text |-> Absent, after |-> 0]

WorkflowInit ==
  /\ \/ file \in Texts \cup {Absent} /\ writes = 0
     \/ file \in Documents /\ writes = MaxWrites
  /\ current = Absent /\ good = Absent /\ error = FALSE
  /\ reading = [k \in Reads |-> NoRead] /\ watcher = "none" /\ changed = FALSE /\ debounce = FALSE
  /\ newest = 0 /\ behind = FALSE /\ missed = FALSE

\* reload, up to its read.
Reload ==
  \E k \in Reads : /\ reading[k] = NoRead
                   /\ reading' = [reading EXCEPT ![k].stage = "asked"]

\* start: the watcher is opened when the first reload has returned.
StartStore ==
  /\ watcher = "none" /\ watcher' = "starting" /\ Reload
  /\ UNCHANGED <<file, current, error, changed, debounce, writes, newest, behind, missed, good>>

\* The text is read; the rest of the reload comes when its turn comes.
ReadFile(k) ==
  /\ reading[k].stage = "asked"
  /\ reading' = [reading EXCEPT ![k] = [stage |-> "read", text |-> file, after |-> writes]]
  /\ UNCHANGED <<file, current, error, watcher, changed, debounce, writes, newest, behind, missed, good>>

\* Mutant of Retained: a document that is not accepted leaves no definition.
RetainedNone(text) == IF text # Absent /\ Valid(text) THEN text ELSE Absent

\* The definition after a reload: the last good one if this one is not.
Retained(text) == IF text # Absent /\ Valid(text) THEN text ELSE current

\* The text is parsed; the first reload then opens the watcher.
Applied(k) ==
  LET r == reading[k] IN
    /\ r.stage = "read"
    /\ current' = Retained(r.text)
    /\ error' = ~(r.text # Absent /\ Valid(r.text))
    /\ good' = IF error' THEN good ELSE r.text
    /\ reading' = [reading EXCEPT ![k] = NoRead]
    /\ newest' = IF r.after > newest THEN r.after ELSE newest
    /\ behind' = (r.after < newest)
    /\ watcher' = IF watcher = "starting" THEN "open" ELSE watcher
    /\ missed' = (missed \/ (watcher = "starting" /\ r.after < writes))
    /\ UNCHANGED <<file, changed, debounce, writes>>

\* The file is replaced, or removed.
Write ==
  /\ writes < MaxWrites /\ writes' = writes + 1
  /\ file' \in (Texts \cup {Absent}) \ {file}
  /\ changed' = (changed \/ watcher = "open")
  /\ UNCHANGED <<current, error, reading, watcher, debounce, newest, behind, missed, good>>

\* Mutant of Rearmed: a change is ignored while the timer runs or a reload is under way.
RearmedWhenIdle == \A k \in Reads : reading[k] = NoRead

\* A change starts the timer anew, whatever goes on.
Rearmed == TRUE

WatcherReports ==
  /\ watcher = "open" /\ changed /\ changed' = FALSE
  /\ debounce' = Rearmed
  /\ UNCHANGED <<file, current, error, reading, watcher, writes, newest, behind, missed, good>>

DebounceFires ==
  /\ debounce /\ debounce' = FALSE /\ Reload
  /\ UNCHANGED <<file, current, error, watcher, changed, writes, newest, behind, missed, good>>

\* The project is selected: the coordinator reloads its workflow.
Selected ==
  /\ watcher = "open" /\ Reload
  /\ UNCHANGED <<file, current, error, watcher, changed, debounce, writes, newest, behind, missed, good>>

\* stop: a reload that is under way is not stopped.
StopStore ==
  /\ watcher = "open" /\ watcher' = "closed"
  /\ debounce' = FALSE /\ changed' = FALSE
  /\ UNCHANGED <<file, current, error, reading, writes, newest, behind, missed, good>>

WorkflowNext ==
  \/ StartStore \/ Write \/ WatcherReports \/ DebounceFires \/ Selected \/ StopStore
  \/ \E k \in Reads : ReadFile(k) \/ Applied(k)

-----------------------------------------------------------------------------
(* Properties *)

(* The source that the definition in force names can work with it: it never fails on a field the parser has let *)
(* pass (normalizeProvider against what registerProjectSources requires).                                         *)
DefinitionIsUsable ==
  current # Absent => \A f \in NeededBy(current.kind) : Provider(current)[f] = "text"

(* Every state the scheduler knows has one column of the board, and the visible ones come first. *)
EveryStateHasItsColumn ==
  current # Absent =>
    LET visible == States(current.visible)
        columns == StateOrder(current.active, current.terminal, current.visible)
    IN /\ States(columns) = States(current.active) \cup States(current.terminal) \cup visible
       /\ \A j, k \in DOMAIN columns : j # k => columns[j] # columns[k]
       /\ \A j, k \in DOMAIN columns : columns[j] \notin visible /\ columns[k] \in visible => k < j

(* The definition in force is the last one that was good, whatever the file holds now. *)
LastGoodKept == current = good /\ (current # Absent => Valid(current))

(* When the file is watched and nothing is left to be reported or read, the definition in force is that of the *)
(* file, or the last good one with an error beside it; unless a read was overtaken by one that began after it, *)
(* or the file changed while the watcher was being opened.                                                     *)
FollowsTheFile ==
  /\ watcher = "open" /\ ~changed /\ ~debounce /\ (\A k \in Reads : reading[k] = NoRead)
  /\ ~behind /\ (~missed \/ newest = writes)
  => IF file # Absent /\ Valid(file) THEN current = file /\ ~error ELSE error

WorkflowInv == LastGoodKept /\ FollowsTheFile /\ DefinitionIsUsable /\ EveryStateHasItsColumn
=============================================================================
