--------------------------- MODULE MCRunCompletion ---------------------------
(***************************************************************************)
(* Finite instances of RunCompletion for TLC.                              *)
(***************************************************************************)
EXTENDS RunCompletion

\* What the dashboard offers: pause, resume, cancel.
ClientMoves ==
  ({"awaiting_approval", "executing", "integrating", "validating"}
     \X {"paused", "canceled"}) \cup
  ({"finalizing"} \X {"canceled"}) \cup
  ({"paused", "blocked"}
     \X {"awaiting_approval", "executing", "integrating", "validating", "canceled"})

\* Add the merge that the operator lets through by an RPC of its own, and
\* the way back from validation to execution.
RpcMoves ==
  ClientMoves \cup
  {<<"awaiting_approval", "integrating">>, <<"awaiting_approval", "executing">>,
   <<"validating", "executing">>}
=============================================================================
