------------------------- MODULE MC_IngestPipeline -------------------------
(***************************************************************************)
(* Instances of IngestPipeline for TLC: a batch of two flows and a single  *)
(* one, two worker slots.  Both flows of the batch are threats of the same *)
(* technique, which no row exists for yet; one of them also fires two      *)
(* heuristic models, and the single flow fires one and no hybrid alert.    *)
(***************************************************************************)
EXTENDS IngestPipeline

CONSTANTS batch, single, f1, f2, f3, w1, w2, t1, t2, seed

MCBatch      == batch :> <<f1, f2>> @@ single :> <<f3>>
MCHeuristics == f1 :> <<"entropy", "beacon">> @@ f2 :> <<>> @@ f3 :> <<"probe">>
MCHybrid     == f1 :> TRUE @@ f2 :> TRUE @@ f3 :> FALSE
MCTechnique  == f1 :> t1 @@ f2 :> t1 @@ f3 :> t1
MCOffer      == seed :> <<t2, t1>>
NoOffer      == <<>>

AllFaults       == FaultKinds
NoFaults        == {}
=============================================================================
