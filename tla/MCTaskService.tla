---------------------------- MODULE MCTaskService ----------------------------
(***************************************************************************)
(* Finite instances of TaskService for TLC: one run with a small DAG.      *)
(***************************************************************************)
EXTENDS TaskService, TLC

CONSTANTS r1, t1, t2, t3, t4

OneRun == {r1}

\* Two tasks, the second depends on the first.
ChainTasks == {t1, t2}
ChainRunOf == t1 :> r1 @@ t2 :> r1
ChainDeps == t1 :> {} @@ t2 :> {t1}

\* Four tasks: the third joins the first two, the last one is free.
JoinTasks == {t1, t2, t3, t4}
JoinRunOf == t1 :> r1 @@ t2 :> r1 @@ t3 :> r1 @@ t4 :> r1
JoinDeps == t1 :> {} @@ t2 :> {} @@ t3 :> {t1, t2} @@ t4 :> {}

\* The first two are alike.
Alike == Permutations({t1, t2})
=============================================================================
