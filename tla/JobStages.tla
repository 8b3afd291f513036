----------------------------- MODULE JobStages -----------------------------
(***************************************************************************)
(* What a job is to its user: the diagram of app/jobs/models.py without    *)
(* coroutines, copies, slots or restarts.  A plan is made once and is      *)
(* implemented at most once; review and correction alternate; a failed job *)
(* stays failed.  Several jobs may move in one step (a shutdown moves all  *)
(* of them).                                                               *)
(***************************************************************************)
CONSTANT Jobs

VARIABLE stage

Stages ==
  {"none", "planning", "planned", "implementing", "review", "correcting", "failed"}

Moves ==
  { <<"none", "planning">>,
    <<"planning", "planned">>,      <<"planning", "failed">>,
    <<"planned", "implementing">>,
    <<"implementing", "review">>,   <<"implementing", "failed">>,
    <<"review", "correcting">>,     <<"correcting", "review">>,
    <<"correcting", "failed">> }

Init == stage = [j \in Jobs |-> "none"]

Next ==
  /\ stage' \in [Jobs -> Stages]
  /\ \A j \in Jobs : stage'[j] = stage[j] \/ <<stage[j], stage'[j]>> \in Moves

Spec == Init /\ [][Next]_stage

=============================================================================
