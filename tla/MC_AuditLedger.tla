-------------------------- MODULE MC_AuditLedger --------------------------
(***************************************************************************)
(* Instances of AuditLedger for TLC: two API requests on one host and a    *)
(* worker task on another; the task appends more than once per transaction.*)
(***************************************************************************)
EXTENDS AuditLedger, TLC

CONSTANTS req1, req2, task, api, worker

MCTxn        == {req1, req2, task}
MCTask       == {task}
MCHost       == {api, worker}
MCHostOf     == req1 :> api @@ req2 :> api @@ task :> worker
MCMaxAppends == req1 :> 1 @@ req2 :> 1 @@ task :> 2
=============================================================================
