------------------------------ MODULE MCRunPlans ------------------------------
(***************************************************************************)
(* A finite instance of RunPlans for TLC: one request of the operator at a *)
(* time beside two coordinations; and one of PlanContent.                  *)
(***************************************************************************)
EXTENDS Planning

CONSTANTS o1, c1, c2

Desk == {o1}
Sessions == {c1, c2}
Targets == {"paused", "executing", "canceled"}

\* Up to two names, the same one twice among them.
UpToTwo(names) == UNION {[1..n -> names] : n \in 0..2}

\* Graphs of three tasks, with cycles, self-dependencies and, where there are two tasks, unknown names.
SmallGraphs == [1..3 -> UpToTwo(1..3)] \cup [1..2 -> UpToTwo(0..3)]

PlainTask(dependencies) ==
  [title |-> "x", description |-> "x", role |-> "", criteria |-> <<>>, dependencies |-> dependencies]

PlainPlan(tasks) ==
  [rationale |-> "x", pattern |-> "supervisor", assumptions |-> <<>>, success |-> <<>>, tasks |-> tasks,
   later |-> FALSE, reason |-> ""]

SmallSubmissions ==
  {PlainPlan([k \in DOMAIN g |-> PlainTask(g[k])]) : g \in SmallGraphs}
    \cup [rationale : {"", "x"}, pattern : {"supervisor"}, assumptions : {<<>>, <<"x">>, <<"x", "">>, <<"long">>},
          success : {<<>>, <<"x">>}, tasks : {<<PlainTask(<<>>)>>}, later : BOOLEAN, reason : {"", "x"}]
    \cup [rationale : {"", "x", "long"}, pattern : {"direct", "supervisor"}, assumptions : {<<>>},
          success : {<<>>, <<"x", "">>}, later : {FALSE}, reason : {""},
          tasks : {<<>>} \cup {<<t>> : t \in [title : {"", "x", "long"}, description : {"", "x", "long"},
                                              role : {"", "x", "long"}, criteria : {<<>>, <<"x">>, <<"">>, <<"x", "x", "x">>},
                                              dependencies : {<<>>, <<0>>, <<1>>}]}]
=============================================================================
