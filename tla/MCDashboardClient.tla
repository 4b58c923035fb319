------------------------- MODULE MCDashboardClient -------------------------
(***************************************************************************)
(* A finite instance of DashboardClient and LocalTaskSource for TLC, and   *)
(* beside it the projects of which Overview makes one board.               *)
(***************************************************************************)
EXTENDS DashboardClient, TLC

Name(words, upper) == [words |-> words, upper |-> upper]
Todo == Name(<<"todo">>, TRUE)
Done == Name(<<"done">>, TRUE)
Review == Name(<<"in", "review">>, TRUE)
Shipped == Name(<<"shipped">>, FALSE)
Triage == Name(<<"triage">>, TRUE)

NamesInOrder == << <<"done">>, <<"duplicate">>, <<"in", "review">>, <<"merg", "queue">>,
                   <<"shipped">>, <<"todo">>, <<"triage">> >>

Flows ==
  {[visible |-> <<Todo, Review>>, active |-> <<Todo, Review>>, terminal |-> <<Done, Shipped>>],
   [visible |-> << >>, active |-> <<Todo>>, terminal |-> <<Shipped, Name(<<"todo">>, FALSE)>>],
   [visible |-> <<Triage>>, active |-> <<Review>>, terminal |-> <<Done>>]}

Issue(number, state, type, position, priority) ==
  [scope |-> "s", ref |-> number, number |-> number, state |-> state, type |-> type,
   position |-> position, priority |-> priority]

States == {Todo, Done, Review, Shipped, Triage, Name(<<"triage">>, FALSE),
           Name(<<"merg", "queue">>, FALSE), Name(<<"duplicate">>, FALSE)}
FirstIssues == {Issue(1, state, type, 0, Undefined) : state \in States, type \in {"", "started", "triage"}}
Boards == {<<i>> : i \in FirstIssues}
          \cup {<<i, Issue(2, Triage, "triage", Undefined, 1)>> : i \in FirstIssues}

Project(id, flow, issues) ==
  [id |-> id, flow |-> flow, issues |-> issues, live |-> TRUE, context |-> TRUE, definition |-> TRUE,
   error |-> FALSE, remembered |-> "ready", refreshed |-> 0, failed |-> FALSE, runtime |-> << >>]

\* Boards of two projects that follow one tracker.
Neighbours == {Project("b", flow, <<Issue(1, Name(<<"triage">>, FALSE), type, Undefined, Undefined)>>) :
                 flow \in Flows, type \in {"", "triage"}}
Shapes == {<<Project("a", flow, b), other>> : flow \in Flows, b \in Boards, other \in Neighbours}

\* What the projects report of themselves.
Running(phases) == [r \in DOMAIN phases |-> [key |-> <<"s", r>>, phase |-> phases[r]]]
Reports ==
  {[remembered |-> m, context |-> c, definition |-> d, error |-> e, live |-> l, refreshed |-> r,
    failed |-> f, runtime |-> Running(q)] :
     m \in {"ready", "invalid"}, c \in BOOLEAN, d \in BOOLEAN, e \in BOOLEAN, l \in BOOLEAN,
     r \in {Undefined, 0, 3}, f \in BOOLEAN,
     q \in {<< >>, <<"retrying">>, <<"running", "blocked">>}}
Possible == {s \in Reports : /\ s.live => s.context
                             /\ ~s.live => (s.refreshed = Undefined /\ ~s.failed /\ s.runtime = << >>)
                             /\ ~s.context => s.definition /\ ~s.error}
Reporting(id, report) ==
  report @@ [id |-> id, issues |-> << >>, flow |-> CHOOSE f \in Flows : TRUE]
Reported == {<<Reporting("a", s), Reporting("b", t)>> :
               s \in Possible,
               t \in {u \in Possible : /\ u.remembered = "ready" /\ ~u.failed
                                       /\ u.definition /\ ~u.error /\ u.refreshed # 3}}

BoardsAndReports == Shapes \cup Reported
=============================================================================
