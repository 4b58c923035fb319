-------------------------- MODULE ProjectArtifacts --------------------------
(***************************************************************************)
(* What is kept of a run when it is over                                   *)
(* (src/src/artifacts/artifact-service.ts and distillRun of                *)
(* memory-service.ts): its final report, which is written when the run     *)
(* completes and again when it is asked for, and the entries that a        *)
(* session distills from a run that succeeded.  Each write may fail; none  *)
(* is tried again, and nothing is resumed after a restart.                 *)
(*                                                                         *)
(* One run is followed.  Of a report only the entries it lists are         *)
(* modelled; other artifacts, which are written once, are left out.        *)
(***************************************************************************)
EXTENDS ProjectMemory

CONSTANTS
  RunProject, \* the project of the run
  Generators  \* callers of generateFinalReport; "listener" is the one of run/completed

ASSUME ArtifactConstants == RunProject \in Projects /\ "listener" \in Generators

VARIABLES
  phase,   \* the phase of the run
  ending,  \* transitionRun has written it and appends run.completed
  excused, \* run.report.failed is in the history of the run
  session, \* the distillation session
  reports, \* the artifacts of kind final-report of the run: what each lists
  writing, \* the generation each generator has under way
  torn     \* history: what was cut by a restart, overlapped, or left no event

artifactVars == <<phase, ending, excused, session, reports, writing, torn>>

\* A run that was canceled is treated as one that has failed.
Terminal == {"succeeded", "failed"}
NotWriting == [pc |-> "off", lists |-> {}, onto |-> 0]

ArtifactTypeOK ==
  /\ phase \in {"active"} \cup Terminal /\ session \in {"none", "open", "over"}
  /\ ending \in BOOLEAN /\ excused \in BOOLEAN
  /\ \A k \in DOMAIN reports : reports[k] \subseteq Ids
  /\ \A g \in Generators : /\ writing[g].pc \in {"off", "write", "created", "failed"}
                           /\ writing[g].onto \in 0..Len(reports)
  /\ torn \subseteq {"restart", "reports", "silent"}

ArtifactInit ==
  /\ phase = "active" /\ ending = FALSE /\ excused = FALSE /\ session = "none" /\ reports = <<>>
  /\ writing = [g \in Generators |-> NotWriting] /\ torn = {}

Learned == {i \in Ids : memory[i].run}

\* Mutant of Existing: the report there is is not looked for.
ExistingNone == 0

\* findFinalReport
Existing == IF reports = <<>> THEN 0 ELSE 1

\* generateFinalReport, up to its write: the records are read.
Reads == [pc |-> "write", lists |-> Learned, onto |-> Existing]

\* Mutant of Reported: only success is reported.
ReportedSuccess(to) == to = "succeeded"

\* The listener of run/completed.
Reported(to) == to \in Terminal

\* Whether a generation that begins now meets another one.
Meets == IF \E h \in Generators : writing[h].pc = "write" THEN {"reports"} ELSE {}

\* transitionRun: the terminal phase is written, and the event is appended.
RunEnds ==
  /\ phase = "active" /\ phase' \in Terminal /\ ending' = TRUE
  /\ UNCHANGED <<memoryVars, excused, session, reports, writing, torn>>

\* run/completed is emitted: the report is begun at once, and after success the distillation.
CompletedAppended ==
  /\ ending /\ ending' = FALSE /\ UNCHANGED excused
  /\ IF Reported(phase)
     THEN writing' = [writing EXCEPT !["listener"] = Reads] /\ torn' = torn \cup Meets
     ELSE UNCHANGED <<writing, torn>>
  /\ session' = IF phase = "succeeded" THEN "open" ELSE session
  /\ UNCHANGED <<memoryVars, phase, reports>>

\* The append throws out of transitionRun: nothing is emitted, nobody is told.
CompletedLost ==
  /\ ending /\ ending' = FALSE /\ Ask
  /\ torn' = torn \cup {"silent"}
  /\ UNCHANGED <<memory, frame, retired, cut, phase, excused, session, reports, writing>>

\* runGenerateReport
OnDemand(g) ==
  /\ g # "listener" /\ writing[g] = NotWriting /\ phase \in Terminal /\ Ask
  /\ writing' = [writing EXCEPT ![g] = Reads] /\ torn' = torn \cup Meets
  /\ UNCHANGED <<memory, frame, retired, cut, phase, ending, excused, session, reports>>

Reporting(g, pc) == writing' = [writing EXCEPT ![g] = [NotWriting EXCEPT !.pc = pc]]

\* The report is replaced in place, or written and its event appended.
WriteReport(g) ==
  /\ writing[g].pc = "write"
  /\ IF writing[g].onto # 0
     THEN reports' = [reports EXCEPT ![writing[g].onto] = writing[g].lists] /\ Reporting(g, "off")
     ELSE reports' = Append(reports, writing[g].lists) /\ Reporting(g, "created")
  /\ UNCHANGED <<memoryVars, phase, ending, excused, session, torn>>

\* The catch of generateFinalReport, after the write or the append of its event has failed.
ReportFails(g) ==
  /\ writing[g].pc \in {"write", "created"} /\ Ask
  /\ Reporting(g, "failed")
  /\ UNCHANGED <<memory, frame, retired, cut, phase, ending, excused, session, reports, torn>>

\* Mutant of Recorded: the failure is logged only.
RecordedNever(g) == FALSE

\* run.report.failed
Recorded(g) == writing[g].pc = "failed"

\* The event of the report, or of its failure, is appended, and the call returns.
ReportReturns(g) ==
  /\ writing[g].pc \in {"created", "failed"}
  /\ excused' = (excused \/ Recorded(g)) /\ Reporting(g, "off")
  /\ UNCHANGED <<memoryVars, phase, ending, session, reports, torn>>

\* The append of run.report.failed fails as well, which is ignored.
FailureLost(g) ==
  /\ writing[g].pc = "failed" /\ Ask
  /\ Reporting(g, "off") /\ torn' = torn \cup {"silent"}
  /\ UNCHANGED <<memory, frame, retired, cut, phase, ending, excused, session, reports>>

\* persistCandidates: the session submits an entry; they are written one after the other.
Distill ==
  /\ session = "open" /\ Ask
  /\ \E t \in Titles : Create(Lead, RunProject, t, TRUE)
  /\ UNCHANGED artifactVars

\* The session ends.
SessionEnds ==
  /\ session = "open" /\ Idle(Lead) /\ session' = "over"
  /\ UNCHANGED <<memoryVars, phase, ending, excused, reports, writing, torn>>

\* The host ends: the calls under way stop where they are, the session and the generation are not taken up again.
Crash ==
  /\ "restart" \notin torn
  /\ Ended(Writers)
  /\ session' = IF session = "open" THEN "over" ELSE session
  /\ writing' = [g \in Generators |-> NotWriting] /\ ending' = FALSE
  /\ torn' = torn \cup {"restart"}
  /\ UNCHANGED <<phase, excused, reports>>

(* A run has one final report, however often it is generated, unless two generations ran at a time *)
(* (generateFinalReport: "one final-report per run, idempotent in-place replace").                  *)
OneReport == Len(reports) > 1 => "reports" \in torn

(* A run that ends, in whatever way, has its final report in the end, or its history says that the  *)
(* report failed: no run is left without a word, unless the host stops meanwhile or the event itself *)
(* cannot be appended (the listener of run/completed and the catch of generateFinalReport).         *)
RunReported ==
  phase \in Terminal ~> (reports # <<>> \/ excused \/ {"restart", "silent"} \cap torn # {})
=============================================================================
