---------------------------- MODULE MC_Detection ----------------------------
(* Two flows: one on standard assets that the forest finds strange and the  *)
(* classifier cannot tell, and one to a core asset that only rules find.    *)
EXTENDS Detection, TLC

CONSTANTS novel, quiet, entry, sweep, flood

MCFlow    == {novel, quiet}
MCVerdict == (novel :> [unsup |-> 93, class |-> "PORT_SCAN", conf |-> 54])
          @@ (quiet :> [unsup |-> 64, class |-> "BENIGN", conf |-> 88])
MCAsset   == (novel :> 10) @@ (quiet :> 20)
MCRule    == {entry, sweep, flood}
MCLevel   == (entry :> "CRITICAL") @@ (sweep :> "MEDIUM") @@ (flood :> "HIGH")
MCHit     == (entry :> {novel, quiet}) @@ (sweep :> {quiet}) @@ (flood :> {novel})
MCRaises  == (entry :> {}) @@ (sweep :> {}) @@ (flood :> {quiet})
MCRuleset == {<<sweep, entry>>, <<flood, sweep>>, <<>>}

\* entry and sweep as names stand for the classes SIGNATURE_... they give.
MCWhole == <<[names |-> {entry}, parts |-> {"NOVEL_ANOMALY"}, technique |-> "T1048"],
             [names |-> {"NOVEL_ANOMALY", sweep}, parts |-> {}, technique |-> "T1046"]>>
MCBreaksOff == <<[names |-> {sweep}, parts |-> {"NOVEL_ANOMALY"}, technique |-> "T1571"],
                 [names |-> {entry}, parts |-> {}, technique |-> None],
                 [names |-> {"NOVEL_ANOMALY"}, parts |-> {}, technique |-> "T1036"]>>
MCMappingFile == {MCWhole, MCBreaksOff}
MCFilesAtStart == {[rules |-> <<sweep, entry>>, mapping |-> MCWhole]}

Symmetry == Permutations(Request)
=============================================================================
