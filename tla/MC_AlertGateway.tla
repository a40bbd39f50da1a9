-------------------------- MODULE MC_AlertGateway --------------------------
(***************************************************************************)
(* Instances of AlertGateway for TLC: two connections, of two dashboards   *)
(* or of one that reconnects under its client_id; alerts of two severities.*)
(***************************************************************************)
EXTENDS AlertGateway, TLC

CONSTANTS s1, s2, alice, bob, low, high, found

TwoDashboards == s1 :> alice @@ s2 :> bob
OneReconnects == s1 :> alice @@ s2 :> alice

Everything    == [level |-> 1, tactics |-> FALSE, behaviors |-> Alert]
MCQuery       == s1 :> Everything @@ s2 :> Everything
MCChange      == {[level |-> 2], [tactics |-> TRUE], [behaviors |-> WorkerAlert]}
NoUpdates     == s1 :> 0 @@ s2 :> 0
OneUpdate     == s1 :> 1 @@ s2 :> 0
OnlyHigh      == high :> 2
OnlyLow       == low :> 1
LowAndFound   == low :> 1 @@ found :> 2
=============================================================================
