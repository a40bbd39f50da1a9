----------------------------- MODULE SigmaRules -----------------------------
(***************************************************************************)
(* What a Sigma rule means to the rule engine (rules/parser.py,            *)
(* rules/evaluator.py): filters on a flow's fields, selections of filters, *)
(* and a condition over the selections, which is text: it is split at      *)
(* white space, the names in it are replaced by True and False, and Python *)
(* evaluates the result.                                                   *)
(*                                                                         *)
(* The specification writes conditions the way an author does, from the    *)
(* inside out on a stack of sub-conditions, and keeps with each the set of *)
(* cases in which it is meant to hold.                                     *)
(***************************************************************************)
EXTENDS Integers, Sequences, FiniteSets, SequencesExt

CONSTANTS
  Name,        \* names of a rule's selections
  Detection,   \* Detection[n]: the content of selection n in the YAML file
  Field,       \* fields of a flow
  Value,       \* values of fields: numbers, Missing and Text
  Missing,     \* None, or no such field
  Text,        \* a value float() refuses
  Pattern,     \* patterns of quantified conditions
  Matching,    \* Matching[p]: the names that begin with p less its star
  MaxWords     \* bound on the words of a condition

Flow == [Field -> Value]

ASSUME NameAssumption ==
  /\ Matching \in [Pattern -> SUBSET Name]
  /\ MaxWords \in Nat
  /\ Name \cap {"and", "or", "not", ""} = {}

VARIABLES
  stack,   \* sub-conditions: [text, rank, holds]
  quant    \* "" or the quantifier of a condition that is one

vars == <<stack, quant>>

-----------------------------------------------------------------------------
(* Filters and selections.                                                 *)

Number(v) == v \notin {Missing, Text}

\* Fault: a missing field differs from everything.
EvaluateFilterMissing(v, f) ==
  IF v = Missing THEN f.op = "ne" ELSE Number(v) /\ (f.op = "gte" => v >= f.expected)

\* evaluate_filter: None never matches, and neither does what float() refuses;
\* the members of a list count when they are written in digits alone.
EvaluateFilter(v, f) ==
  CASE v = Missing  -> FALSE
    [] f.op = "eq"  -> v = f.expected
    [] f.op = "ne"  -> v # f.expected
    [] f.op = "gte" -> Number(v) /\ v >= f.expected
    [] f.op = "lt"  -> Number(v) /\ v < f.expected
    [] f.op = "in"  -> Number(v) /\ v \in f.expected /\ v >= 0

\* parse_sigma_rule: a map is a set of filters and so is a list of maps, the
\* filters of all of them; any other content leaves the selection empty.
Filters(content) ==
  CASE content.kind = "map"   -> content.filters
    [] content.kind = "list"  -> UNION {content.maps[i] : i \in DOMAIN content.maps}
    [] content.kind = "other" -> {}

\* evaluate_selection, of every selection: selection_results.
Results(flow) ==
  [n \in Name |-> \A f \in Filters(Detection[n]) : EvaluateFilter(flow[f.field], f)]

-----------------------------------------------------------------------------
(* Conditions.  A condition's text is the sequence of its words between    *)
(* white space, each with the parentheses around it.                       *)

Word(w) == [open |-> 0, word |-> w, close |-> 0]
Bare(t) == t.open = 0 /\ t.close = 0

\* One token of eval_expr: the word is replaced, the parentheses stay.
Symbols(t, results) ==
  [i \in 1..t.open |-> "("]
  \o << IF t.word \in Name THEN IF results[t.word] THEN "True" ELSE "False"
        ELSE IF t.word \in {"and", "or", "not"} THEN t.word
        ELSE "False" >>
  \o [i \in 1..t.close |-> ")"]

Depth(s, i) ==
  Cardinality({j \in 1..i : s[j] = "("}) - Cardinality({j \in 1..i : s[j] = ")"})

\* The last place of operator op outside all parentheses; 0 if there is none.
LastOutside(op, s) ==
  SelectLastInSeq([i \in DOMAIN s |-> <<s[i], Depth(s, i)>>], LAMBDA x : x = <<op, 0>>)

\* Python's eval of an expression of True, False, not, and, or, in the order
\* of their precedence: "error" where Python raises SyntaxError.
RECURSIVE Eval(_)
Eval(s) ==
  LET n      == Len(s)
      or     == LastOutside("or", s)
      and    == LastOutside("and", s)
      at     == IF or # 0 THEN or ELSE and
      left   == Eval(SubSeq(s, 1, at - 1))
      right  == Eval(SubSeq(s, at + 1, n))
      inner  == Eval(SubSeq(s, 2, n))
      inside == Eval(SubSeq(s, 2, n - 1))
  IN  CASE at # 0 -> IF "error" \in {left, right} THEN "error"
                     ELSE IF or # 0 THEN (IF "True" \in {left, right} THEN "True" ELSE "False")
                     ELSE IF "False" \in {left, right} THEN "False" ELSE "True"
        [] at = 0 /\ n > 1 /\ s[1] = "not" ->
             CASE inner = "True" -> "False" [] inner = "False" -> "True" [] OTHER -> "error"
        [] at = 0 /\ n > 2 /\ s[1] = "(" /\ s[n] = ")" -> inside
        [] at = 0 /\ n = 1 /\ s[1] \in {"True", "False"} -> s[1]
        [] OTHER -> "error"

\* Fault: the operators are applied as they come, without parentheses.
EvalFlat(s) == Eval(SelectSeq(s, LAMBDA x : x \notin {"(", ")"}))

EvalExpr(s) == Eval(s)

\* What Python makes of a condition's text.
Reading(text, results) ==
  EvalExpr(FlattenSeq([i \in DOMAIN text |-> Symbols(text[i], results)]))

\* evaluate_boolean_condition.  A quantified condition takes its pattern from
\* its last word; a condition Python cannot read asks for all selections.
EvaluateCondition(q, text, results) ==
  LET last   == text[Len(text)]
      picked == IF Bare(last) /\ last.word \in Pattern THEN Matching[last.word] ELSE {}
  IN  CASE q = "1 of"   -> \E n \in picked : results[n]
        [] q = "all of" -> picked # {} /\ \A n \in picked : results[n]
        [] q = "" /\ Len(text) = 1 /\ Bare(last) /\ last.word \in Name -> results[last.word]
        [] OTHER -> IF Reading(text, results) = "error"
                      THEN \A n \in Name : results[n]
                      ELSE Reading(text, results) = "True"

\* evaluate_rule, of a rule the parser accepted.
EvaluateRule(q, text, flow) == EvaluateCondition(q, text, Results(flow))

-----------------------------------------------------------------------------
(* Writing a condition.  The rank of a sub-condition is that of its        *)
(* outermost operator: or 1, and 2, not 3, a name or parentheses 4.        *)

Case == [Name -> BOOLEAN]

Glued(text) ==
  [i \in DOMAIN text |-> [open  |-> text[i].open + (IF i = 1 THEN 1 ELSE 0),
                          word  |-> text[i].word,
                          close |-> text[i].close + (IF i = Len(text) THEN 1 ELSE 0)]]
SetOff(text) ==
  <<[open |-> 1, word |-> "", close |-> 0]>> \o text \o <<[open |-> 0, word |-> "", close |-> 1]>>

\* e as an operand of an operator of the given rank: in parentheses if it must be.
Operands(e, rank) ==
  IF e.rank >= rank THEN {e.text} ELSE {Glued(e.text), SetOff(e.text)}

Words == FoldSeq(LAMBDA e, n : n + Len(e.text), 0, stack)

Init == stack = <<>> /\ quant = ""

WriteName(n) ==
  /\ quant = "" /\ Words < MaxWords
  /\ stack' = Append(stack, [text |-> <<Word(n)>>, rank |-> 4, holds |-> {c \in Case : c[n]}])
  /\ UNCHANGED quant

\* "1 of p" or "all of p", as a condition of its own; p may match no name.
WriteQuantified(q, p) ==
  /\ quant = "" /\ stack = <<>>
  /\ quant' = q
  /\ stack' = <<[text |-> <<Word("1"), Word("of"), Word(p)>>, rank |-> 0,
                 holds |-> {c \in Case : IF q = "1 of"
                                           THEN \E n \in Matching[p] : c[n]
                                           ELSE Matching[p] # {} /\ \A n \in Matching[p] : c[n]}]>>

Negate ==
  /\ quant = "" /\ stack # <<>> /\ Words < MaxWords
  /\ \E text \in Operands(Last(stack), 3) :
       stack' = Append(Front(stack), [text |-> <<Word("not")>> \o text, rank |-> 3,
                                      holds |-> Case \ Last(stack).holds])
  /\ UNCHANGED quant

Join(op) ==
  /\ quant = "" /\ Len(stack) > 1 /\ Words < MaxWords
  /\ LET rank == IF op = "or" THEN 1 ELSE 2
         right == Last(stack)
         left  == Last(Front(stack))
     IN  \E l \in Operands(left, rank), r \in Operands(right, rank) :
           stack' = Append(Front(Front(stack)),
                           [text |-> l \o <<Word(op)>> \o r, rank |-> rank,
                            holds |-> IF op = "or" THEN left.holds \cup right.holds
                                      ELSE left.holds \cap right.holds])
  /\ UNCHANGED quant

Next ==
  \/ \E n \in Name : WriteName(n)
  \/ \E q \in {"1 of", "all of"}, p \in Pattern : WriteQuantified(q, p)
  \/ Negate
  \/ \E op \in {"and", "or"} : Join(op)

Spec == Init /\ [][Next]_vars

-----------------------------------------------------------------------------
(* Properties.                                                             *)

SetOffSomewhere(text) == \E i \in DOMAIN text : text[i].word = ""

\* Whatever condition an author writes with names, and, or, not and the
\* parentheses it needs, or as a quantified condition of its own, the text
\* holds of selection results in exactly the cases it is meant to; unless it
\* sets a parenthesis off by spaces: such a condition never means anything
\* but "all selections", since the lone parenthesis becomes "(False".
ConditionsMean ==
  Len(stack) = 1 =>
    \A c \in Case :
      EvaluateCondition(quant, stack[1].text, c) <=>
        IF SetOffSomewhere(stack[1].text) THEN \A n \in Name : c[n] ELSE c \in stack[1].holds

\* A flow that has none of the fields a rule names meets exactly the selections
\* that have no filters: a rule can only match it by a negation or through
\* such a selection.  A filter and its opposite are never both met, and
\* exactly one is by a number.
AbsenceMatchesNothing ==
  Len(stack) = 1 =>
    LET text  == stack[1].text
        blank == [f \in Field |-> Missing]
        empty == {n \in Name : Filters(Detection[n]) = {}}
        asked == {n \in Name : \E i \in DOMAIN text : text[i].word = n}
    IN  /\ EvaluateRule(quant, text, blank) <=>
             EvaluateCondition(quant, text, [n \in Name |-> n \in empty])
        /\ (\A i \in DOMAIN text : text[i].word # "not") /\ asked \cap empty = {}
             /\ quant = "" /\ ~SetOffSomewhere(text) => ~EvaluateRule(quant, text, blank)
        /\ \A v \in Value, x \in Value \ {Missing, Text} :
             LET met(op) == EvaluateFilter(v, [field |-> "any", op |-> op, expected |-> x])
             IN  /\ ~(met("gte") /\ met("lt")) /\ ~(met("eq") /\ met("ne"))
                 /\ Number(v) => (met("gte") \/ met("lt")) /\ (met("eq") \/ met("ne"))
                 /\ v = Missing => ~met("ne")
=============================================================================
