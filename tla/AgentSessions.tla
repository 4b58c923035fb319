---------------------------- MODULE AgentSessions ----------------------------
(***************************************************************************)
(* One agent session, from the call that asks for it to the answer of that *)
(* call: the workers of a task (src/src/tasks/local-adapter.ts and         *)
(* team-adapter.ts), the session that plans a run (src/src/coordinator/    *)
(* session-driver.ts), the one that distills its memory (src/src/memory/   *)
(* distillation.ts) and the agent of an issue (src/src/agent/              *)
(* harness-runner.ts).                                                     *)
(*                                                                         *)
(* All of them create a session, prompt it, wait until it is idle, read    *)
(* how the turn ended, and flush and dispose of it whatever happened;      *)
(* meanwhile the caller may abort, and the agent calls tools and uses      *)
(* tokens.  The Harness that runs sessions is an environment: a creation   *)
(* that hears an abort is refused, a disposed session does nothing.        *)
(***************************************************************************)
EXTENDS Naturals, Sequences

CONSTANTS
  SessionKinds,   \* of "task", "team", "plan", "memory", "issue"
  SessionTurns,   \* max_turns of the agent of an issue
  MaxReports,     \* bound on calls of the reporting tool
  MaxUsage        \* bound on tokens used

ASSUME SessionConstants ==
  /\ SessionKinds \subseteq {"task", "team", "plan", "memory", "issue"}
  /\ SessionTurns \in Nat \ {0} /\ {MaxReports, MaxUsage} \subseteq Nat

VARIABLES
  kind,
  at,        \* the await the call stands at
  session,   \* "none", "live", "canceled" (it ends its turn) or "disposed"
  hears,     \* the listeners and entries the call has registered
  aborted,   \* the signal of the caller
  stopped,   \* the worker's own signal, which stop(agentId) aborts as well
  turn,      \* turns that were prompted
  reported,  \* the report the call has got from its tool
  calls,     \* the calls of that tool, in order
  used,      \* tokens: used by the agent, and counted by the call
  answer,    \* what the call will answer, once it has left its try
  strays     \* history: the awaits after which a turn was prompted in spite of an abort

sessionVars == <<kind, at, session, hears, aborted, stopped, turn, reported, calls, used, answer, strays>>

\* The awaits.  "board" and "spawn" are the team's; "watch" is its wait loop;
\* "idle", "render", "refresh" and "delay" are those of the agent of an issue.
SessionAwaits == {"called", "presets", "create", "board", "spawn", "watch", "idle", "render",
                  "turn", "flush", "refresh", "delay", "final", "end", "done"}

NoAnswer == [kind |-> "none", tokens |-> 0]
Answer(k) == [kind |-> k, tokens |-> 0]

SessionTypeOK ==
  /\ kind \in SessionKinds /\ at \in SessionAwaits
  /\ session \in {"none", "live", "canceled", "disposed"}
  /\ hears \subseteq {"entry", "abort", "stop", "events", "member"}
  /\ used.counted <= used.spent /\ turn <= SessionTurns

SessionInit ==
  /\ kind \in SessionKinds /\ at = "called" /\ session = "none" /\ hears = {}
  /\ aborted = FALSE /\ stopped = FALSE /\ turn = 0
  /\ reported = "none" /\ calls = <<>> /\ used = [spent |-> 0, counted |-> 0]
  /\ answer = NoAnswer /\ strays = {}

Up == session \in {"live", "canceled"}

\* The call leaves its try with this answer, and what `finally` does begins:
\* the listeners go, the session is flushed and disposed of if there is one.
Leave(k) ==
  /\ answer' = Answer(k)
  /\ hears' = hears \cap {"entry"}
  /\ at' = IF Up THEN "final" ELSE "end"

Stay == UNCHANGED <<hears, answer>>
Outside == UNCHANGED <<kind, aborted, stopped, calls, used, reported>>

-----------------------------------------------------------------------------
(* Creation *)

\* start or run: a call that is aborted already does nothing, except that the
\* runner of issues looks only later.  The team has no presets.
Called ==
  /\ at = "called"
  /\ IF aborted /\ kind # "issue"
     THEN at' = "done" /\ answer' = Answer("aborted") /\ UNCHANGED hears
     ELSE /\ at' = IF kind = "team" THEN "create" ELSE "presets"
          /\ hears' = IF kind = "task" THEN {"entry"} ELSE {}
          /\ UNCHANGED answer
  /\ UNCHANGED <<session, turn, strays>> /\ Outside

\* The preset is missing (an answer), its resolution throws (the call rejects),
\* or there is one and the call listens to its caller.
Presets ==
  /\ at = "presets" /\ UNCHANGED <<session, turn, strays>> /\ Outside
  /\ \/ Leave("failed")
     \/ Leave("rejected")
     \/ /\ at' = "create" /\ UNCHANGED answer
        /\ hears' = hears \cup (IF kind = "task" THEN {"abort", "stop"} ELSE {"abort"})

\* A turn is prompted.
Prompt ==
  /\ at' = "turn" /\ turn' = turn + 1 /\ strays' = strays \cup (IF aborted THEN {at} ELSE {})

\* What the runner of issues throws, its caller gets.
Thrown == IF kind = "issue" THEN "rejected" ELSE "failed"

\* Mutant of Refused: the signal is not given to the creation.
RefusedNever == FALSE

\* The Harness refuses to create a session for a signal that is aborted.
Refused == aborted

\* agents.create: it fails, or the session is there and is prompted at once,
\* except that the team posts its task first and the agent of an issue waits.
Created ==
  /\ at = "create" /\ Outside
  /\ \/ UNCHANGED session /\ Leave(Thrown) /\ UNCHANGED <<turn, strays>>
     \/ /\ ~Refused /\ session' = "live" /\ UNCHANGED answer
        /\ hears' = IF kind \in {"task", "issue"} THEN hears \cup {"events"} ELSE hears
        /\ CASE kind = "team"  -> at' = "board" /\ UNCHANGED <<turn, strays>>
             [] kind = "issue" -> at' = "idle" /\ UNCHANGED <<turn, strays>>
             [] OTHER          -> Prompt

-----------------------------------------------------------------------------
(* The turns of an agent *)

\* The turn is over: the events are flushed, then the way it ended is read.
Idles ==
  /\ at = "turn" /\ at' = "flush"
  /\ UNCHANGED <<session, turn, strays>> /\ Stay /\ Outside

\* A flush that throws, an error, a block or a cancellation ends the call.
\* A worker's report outlives them: only the session's error is passed on.
Flushed ==
  /\ at = "flush" /\ UNCHANGED <<session, turn, strays>> /\ Outside
  /\ \/ Leave(Thrown)
     \/ kind \in {"plan", "memory"} /\ Leave("blocked")
     \/ IF kind = "issue" THEN at' = "refresh" /\ Stay ELSE Leave("completed")

\* The runner of issues reads the issue again: it cannot, the issue is over or
\* not active any more, or it goes on until it has had its turns.
Refreshed ==
  /\ at = "refresh" /\ UNCHANGED <<session, turn, strays>> /\ Outside
  /\ \/ \E k \in {"rejected", "terminal", "inactive"} : Leave(k)
     \/ IF turn < SessionTurns THEN at' = "delay" /\ Stay ELSE Leave("active")

\* Mutant of MayGoOn: the loop does not look at the signal.
MayGoOnUnheard == TRUE

\* The loop looks at the signal; abortableDelay has rejected as well.
MayGoOn == ~aborted

\* The first prompt is rendered, which is awaited and may throw, and then sent
\* without another look; a continuation is sent at once.
NextTurn ==
  /\ at \in {"idle", "delay"} /\ UNCHANGED session /\ Outside
  /\ CASE ~MayGoOn                 -> Leave("rejected") /\ UNCHANGED <<turn, strays>>
       [] MayGoOn /\ at = "idle"   -> at' = "render" /\ Stay /\ UNCHANGED <<turn, strays>>
       [] MayGoOn /\ at = "delay"  -> Prompt /\ Stay

Rendered ==
  /\ at = "render" /\ UNCHANGED session /\ Outside
  /\ (Prompt /\ Stay) \/ (Leave("rejected") /\ UNCHANGED <<turn, strays>>)

-----------------------------------------------------------------------------
(* The team *)

\* createTask, then spawnTeammate, whose member stop can interrupt from now on.
TeamTask ==
  /\ at = "board" /\ UNCHANGED <<session, turn, strays>> /\ Outside
  /\ Leave("failed") \/ (at' = "spawn" /\ Stay)

Spawned ==
  /\ at = "spawn" /\ UNCHANGED <<session, turn, strays>> /\ Outside
  /\ \/ Leave("failed")
     \/ at' = "watch" /\ hears' = hears \cup {"member"} /\ UNCHANGED answer

\* One round of the loop: an abort is seen at its top, or by the wait, which
\* rejects; the task of the board is completed with a summary, with an error
\* or with nothing; the member failed; or nothing has happened yet.
Watched ==
  /\ at = "watch" /\ UNCHANGED <<session, turn, strays>> /\ Outside
  /\ \/ aborted /\ Leave("aborted")
     \/ \E k \in {"succeeded", "failed"} : Leave(k)

-----------------------------------------------------------------------------
(* The end *)

\* Mutant of FinalFails: a session whose flush throws is left.
FinalFailsAtOnce == at' = "done"

\* The flush in `finally` throws: the session is disposed of all the same.
FinalFails == at' = "end"

\* The flush in `finally`; if it throws, the call rejects whatever it had to answer.
Final ==
  /\ at = "final" /\ UNCHANGED <<session, turn, strays, hears>> /\ Outside
  /\ \/ at' = "end" /\ UNCHANGED answer
     \/ FinalFails /\ answer' = Answer("rejected")

\* Mutant of OfWorker: the report is answered without a look at the signals.
OfWorkerUnheard ==
  [kind |-> IF reported = "none" THEN "failed" ELSE reported, tokens |-> used.counted]

\* LocalTaskWorker.start after its session: an abort, no report, or the report,
\* with the tokens that were counted.
OfWorker ==
  [kind |-> CASE aborted \/ stopped -> "aborted"
              [] ~(aborted \/ stopped) /\ reported = "none" -> "failed"
              [] OTHER -> reported,
   tokens |-> used.counted]

\* The session is disposed of and the call answers.
End ==
  /\ at = "end" /\ at' = "done" /\ hears' = {}
  /\ session' = IF Up THEN "disposed" ELSE session
  /\ answer' = IF kind = "task" /\ answer.kind # "rejected" THEN OfWorker ELSE answer
  /\ UNCHANGED <<turn, strays>> /\ Outside

-----------------------------------------------------------------------------
(* The caller and the agent *)

Cancel(s) == IF s = "live" THEN "canceled" ELSE s

\* The caller aborts: a session the call has got is canceled, if it listens.
Abort ==
  /\ at # "done" /\ ~aborted /\ aborted' = TRUE
  /\ session' = IF "abort" \in hears THEN Cancel(session) ELSE session
  /\ UNCHANGED <<kind, at, hears, stopped, turn, reported, calls, used, answer, strays>>

\* stop(agentId) of the local worker: a session that is being created is not
\* canceled by it.  That of the team interrupts the member it has spawned,
\* which may then complete its task or not.
Stop ==
  /\ "entry" \in hears /\ ~stopped /\ stopped' = TRUE
  /\ session' = IF "stop" \in hears THEN Cancel(session) ELSE session
  /\ UNCHANGED <<kind, at, hears, aborted, turn, reported, calls, used, answer, strays>>

\* Mutant of Accepted: a later call of the tool replaces an earlier one.
AcceptedLast(k) == IF k = "other" THEN reported ELSE k

\* The reporting tool takes its first call, also one it then throws at.
Accepted(k) == IF calls = <<>> /\ k # "other" THEN k ELSE reported

Report ==
  /\ kind = "task" /\ at = "turn" /\ Up /\ Len(calls) < MaxReports
  /\ \E k \in {"succeeded", "failed", "other"} :
       calls' = Append(calls, k) /\ reported' = Accepted(k)
  /\ UNCHANGED <<kind, at, session, hears, aborted, stopped, turn, used, answer, strays>>

\* The agent uses tokens: the listener counts them.
Uses ==
  /\ at = "turn" /\ Up /\ used.spent < MaxUsage
  /\ used' = [spent |-> used.spent + 1,
              counted |-> used.counted + (IF "events" \in hears THEN 1 ELSE 0)]
  /\ UNCHANGED <<kind, at, session, hears, aborted, stopped, turn, reported, calls, answer, strays>>

SessionNext ==
  \/ Called \/ Presets \/ Created \/ Idles \/ Flushed \/ Refreshed \/ NextTurn \/ Rendered
  \/ TeamTask \/ Spawned \/ Watched \/ Final \/ End
  \/ Abort \/ Stop \/ Report \/ Uses

SessionSpec == SessionInit /\ [][SessionNext]_sessionVars

-----------------------------------------------------------------------------
(* Properties *)

\* Whatever fails or is aborted, a call that has answered has left nothing: no
\* session, no listener, no member to interrupt.
NothingLeft == at = "done" => ~Up /\ hears = {}

\* A worker whose caller aborted it or that was stopped never answers with the
\* report of its session, so that a canceled task is not settled by it.
AbortDecides ==
  at = "done" /\ kind = "task" /\ (aborted \/ stopped) => answer.kind \in {"aborted", "rejected"}

\* No agent is prompted for a caller that has aborted, but one whose first
\* prompt was being rendered.
NoStrayTurn == strays \subseteq {"render"}

\* A task succeeds only on the word its agent gave first.
FirstReportCounts ==
  at = "done" /\ kind = "task" /\ answer.kind = "succeeded" => Head(calls) = "succeeded"

\* What a session used is in the answer of its worker, on every way out except
\* a rejection: the budget of the run counts it.
UsageAnswered ==
  at = "done" /\ kind = "task" /\ answer.kind # "rejected" => answer.tokens = used.spent

\* One agent session and the call that asked for it.
SessionsInv ==
  /\ SessionTypeOK /\ NothingLeft /\ AbortDecides /\ NoStrayTurn
  /\ FirstReportCounts /\ UsageAnswered
=============================================================================
