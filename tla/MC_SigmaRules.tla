---------------------------- MODULE MC_SigmaRules ----------------------------
(***************************************************************************)
(* Three selections: a map of two filters, a list of maps, and one without *)
(* filters; two fields, one of which a flow may lack.                      *)
(***************************************************************************)
EXTENDS SigmaRules, TLC

CONSTANTS none, unparsed

Is(f, o, x) == [field |-> f, op |-> o, expected |-> x]

MCDetection ==
  "sel_a" :> [kind |-> "map", filters |-> {Is("port", "gte", 1), Is("port", "in", {0, 1})}]
  @@ "sel_b" :> [kind |-> "list", maps |-> <<{Is("bytes", "lt", 1)}, {Is("port", "ne", 1)}>>]
  @@ "flt"   :> [kind |-> "other"]

MCValue    == {0, 1, none, unparsed}
MCMatching == "sel_*" :> {"sel_a", "sel_b"} @@ "flt" :> {"flt"} @@ "them" :> {}
MCPattern  == DOMAIN MCMatching
=============================================================================
