------------------------ MODULE MC_LedgerVerification ------------------------
(***************************************************************************)
(* Instances of LedgerVerification for TLC: a request that appends twice   *)
(* and a task, both on the host that answers verify-all.                   *)
(***************************************************************************)
EXTENDS LedgerVerification

CONSTANTS req, task, api

MCTxn        == {req, task}
MCTask       == {task}
MCHost       == {api}
MCHostOf     == req :> api @@ task :> api
MCMaxAppends == req :> 2 @@ task :> 1
RowDeleted   == {"row_deleted"}
=============================================================================
