----------------------------- MODULE Detection -----------------------------
(***************************************************************************)
(* Rules, models and mappings at work in the two processes that use them.  *)
(*                                                                         *)
(* The API evaluates a flow on request (endpoints/rules.py): the rule      *)
(* engine's loop over self.rules and the ensemble are jobs of one thread   *)
(* pool, the answer is put together on the event loop.  POST /rules/reload *)
(* reads the two YAML files again, on the event loop, while jobs run.      *)
(* A worker process has an engine and a mapper of its own, reads the files *)
(* at its first task, and stores an alert per threat (tasks.py).           *)
(***************************************************************************)
EXTENDS ThreatScoring, FiniteSets, FiniteSetsExt, SequencesExt

CONSTANTS
  Flow,          \* flows that are evaluated
  Verdict,       \* Verdict[f]: what the two models say of flow f
  Asset,         \* Asset[f]: the higher criticality of its two endpoints
  Rule,          \* rules
  Level,         \* Level[r], in upper case
  Hit, Raises,   \* Hit[r]: the flows rule r matches; Raises[r]: those its
                 \* evaluation raises on (as a match of one with "tags: null")
  Ruleset,       \* what a rules file that parses may give: sequences of rules
  MappingFile,   \* contents of the mapping file: sequences of entries
                 \* [names, parts, technique]
  FilesAtStart,  \* what the two files may be at first: [rules, mapping]
  Fallback,      \* technique of an unmapped class ("T1048")
  Missing, Broken, Unloaded, None,
  Request,       \* evaluations asked of the API
  Pool,          \* max_workers of the executor
  MaxEdits, MaxReloads  \* bounds on changes of the files and on reloads

ASSUME FlowsAssumption ==
  /\ Verdict \in [Flow -> [unsup : 0..100, class : ThreatClass \cup {"BENIGN"}, conf : 0..100]]
  /\ Asset \in [Flow -> Criticality]
ASSUME RulesAssumption ==
  /\ Level \in [Rule -> Severity]
  /\ Hit \in [Rule -> SUBSET Flow] /\ Raises \in [Rule -> SUBSET Flow]
  /\ Ruleset \subseteq Seq(Rule)
ASSUME FilesAssumption ==
  /\ \A atStart \in FilesAtStart : /\ atStart.rules \in Ruleset \cup {Missing, Broken}
                                  /\ atStart.mapping \in MappingFile \cup {Missing, Broken}
  /\ \A file \in MappingFile : file \in Seq(Range(file))
  /\ Missing \notin Ruleset /\ Broken \notin Ruleset /\ Missing # Broken
ASSUME PoolAssumption == Pool \in Nat \ {0} /\ MaxEdits \in Nat /\ MaxReloads \in Nat

VARIABLES
  rulesFile,    \* config/sigma_rules.yaml: Missing, Broken (its text is no YAML)
                \* or the rules it parses to, which may be none
  mappingFile,  \* config/mitre_rules.yaml, the same
  lists,        \* the API's list objects of rules
  active,       \* index of the list that is self.rules
  mapping,      \* the API's mapper: Unloaded or the entries it holds
  queue,        \* the executor's queue of jobs, [req, job]
  req,          \* the state of each request
  workerRules, workerMapping, \* the worker's engine and mapper, or Unloaded
  analysis,     \* history: the last analysis of this worker process; None
                \* before it, or if it failed
  inForce,      \* history: the rules the API had while a request waited
  cleared,      \* history: requests during which a reload found no file
  origin,       \* history: what the API's rules come from, "nothing", an
                \* "empty" file or a "file" with rules
  edits, reloads

files    == <<rulesFile, mappingFile, edits>>
engine   == <<lists, active, mapping, origin, reloads>>
requests == <<queue, req>>
worker   == <<workerRules, workerMapping, analysis>>
history  == <<inForce, cleared>>
vars     == <<files, engine, requests, worker, history>>

-----------------------------------------------------------------------------
(* Reading the two files.                                                  *)

Rules == lists[active]

\* What a mapper holds after load_mappings, if it held old: a file that is
\* missing or does not parse changes nothing; otherwise the tables are
\* cleared and filled, up to an entry without content, which raises.
LoadMappings(old, file) ==
  IF file \in {Missing, Broken} THEN old
  ELSE LET empty == {i \in DOMAIN file : file[i].technique = None}
       IN  SubSeq(file, 1, Min(empty \cup {Len(file)}))

\* get_mitre_mapper(): the mapper is made at its first use.
Mapper(held, file) == IF held = Unloaded THEN LoadMappings(<<>>, file) ELSE held

\* load_rules of a new engine.
NewRules(file) == IF file \in {Missing, Broken} THEN <<>> ELSE file

Origin(file) ==
  IF file \in {Missing, Broken} THEN "nothing" ELSE IF file = <<>> THEN "empty" ELSE "file"

\* enrich_alert: the last entry with the class for key or alias, or else the
\* first with an alias that the class is part of, or has as a part.  (For
\* this second search an alias counts at the last entry that has it.)
Technique(entries, class) ==
  LET named   == {i \in DOMAIN entries : class \in entries[i].names}
      similar == {i \in DOMAIN entries : class \in entries[i].parts}
      found   == IF named # {} THEN Max(named) ELSE Min(similar)
  IN  IF named \cup similar = {} \/ entries[found].technique = None
        THEN Fallback
        ELSE entries[found].technique

Matches(rules, f) ==
  LET hits == SelectSeq(rules, LAMBDA r : f \in Hit[r])
  IN  [i \in DOMAIN hits |-> [rule |-> hits[i], level |-> Level[hits[i]]]]

Idle == [stage |-> "unsent"]

Init ==
  /\ \E atStart \in FilesAtStart : rulesFile = atStart.rules /\ mappingFile = atStart.mapping
  /\ lists = <<NewRules(rulesFile)>> /\ active = 1
  /\ origin = Origin(rulesFile)
  /\ mapping = Unloaded
  /\ queue = <<>> /\ req = [q \in Request |-> Idle]
  /\ workerRules = Unloaded /\ workerMapping = Unloaded
  /\ analysis = None
  /\ inForce = [q \in Request |-> {}] /\ cleared = {}
  /\ edits = 0 /\ reloads = 0

-----------------------------------------------------------------------------
(* Operators edit the files and ask for a reload.                          *)

EditRules(content) ==
  /\ edits < MaxEdits /\ content # rulesFile
  /\ edits' = edits + 1
  /\ rulesFile' = content
  /\ UNCHANGED <<mappingFile, engine, requests, worker, history>>

EditMapping(content) ==
  /\ edits < MaxEdits /\ content # mappingFile
  /\ edits' = edits + 1
  /\ mappingFile' = content
  /\ UNCHANGED <<rulesFile, engine, requests, worker, history>>

Waiting == {q \in Request : req[q].stage = "waiting"}

\* Fault: the rules are parsed into the list that is in use.
ReloadRulesInPlace ==
  \/ rulesFile = Missing /\ lists' = [lists EXCEPT ![active] = <<>>] /\ UNCHANGED active
  \/ rulesFile = Broken /\ UNCHANGED <<lists, active>>
  \/ rulesFile \in Ruleset /\ lists' = [lists EXCEPT ![active] = rulesFile] /\ UNCHANGED active

\* Fault: the list is cleared before the file is parsed.
ReloadRulesClearedFirst ==
  \/ rulesFile \in {Missing, Broken} /\ lists' = [lists EXCEPT ![active] = <<>>]
       /\ UNCHANGED active
  \/ rulesFile \in Ruleset /\ lists' = Append(lists, rulesFile) /\ active' = Len(lists) + 1

\* rule_engine.reload(): without a file the list in use is cleared; one that
\* does not parse changes nothing; otherwise self.rules is a new list, empty
\* if no rule of the file could be used.
ReloadRules ==
  \/ rulesFile = Missing /\ lists' = [lists EXCEPT ![active] = <<>>] /\ UNCHANGED active
  \/ rulesFile = Broken /\ UNCHANGED <<lists, active>>
  \/ rulesFile \in Ruleset /\ lists' = Append(lists, rulesFile) /\ active' = Len(lists) + 1

\* POST /rules/reload.
Reload ==
  /\ reloads < MaxReloads
  /\ reloads' = reloads + 1
  /\ ReloadRules
  /\ mapping' = LoadMappings(Mapper(mapping, mappingFile), mappingFile)
  /\ origin' = IF rulesFile = Broken THEN origin ELSE Origin(rulesFile)
  /\ inForce' = [q \in Request |->
                   IF q \in Waiting /\ rulesFile \in Ruleset
                     THEN inForce[q] \cup {rulesFile} ELSE inForce[q]]
  /\ cleared' = IF rulesFile = Missing THEN cleared \cup Waiting ELSE cleared
  /\ UNCHANGED <<files, requests, worker>>

-----------------------------------------------------------------------------
(* Evaluations.  A request waits for its jobs: "none" (it has no such job), *)
(* "queued", "running", "done" or "failed".                                 *)

\* POST /rules/evaluate and POST /rules/evaluate-hybrid, up to the await.
Send(q, kind, f) ==
  /\ req[q].stage = "unsent"
  /\ req' = [req EXCEPT ![q] =
       [stage |-> "waiting", kind |-> kind, flow |-> f, rules |-> "queued",
        ml |-> IF kind = "hybrid" THEN "queued" ELSE "none",
        list |-> 0, next |-> 1, matches |-> <<>>]]
  /\ queue' = queue \o <<[req |-> q, job |-> "rules"]>>
                    \o (IF kind = "hybrid" THEN <<[req |-> q, job |-> "ml"]>> ELSE <<>>)
  /\ mapping' = IF kind = "hybrid" THEN Mapper(mapping, mappingFile) ELSE mapping
  /\ inForce' = [inForce EXCEPT ![q] = {Rules}]
  /\ UNCHANGED <<files, lists, active, origin, reloads, worker, cleared>>

Sent == {q \in Request : req[q].stage # "unsent"}

\* Fault: only the rules' jobs are counted.
BusyRules == Cardinality({q \in Sent : req[q].rules = "running"})

Busy == Cardinality({q \in Sent : req[q].rules = "running"})
        + Cardinality({q \in Sent : req[q].ml = "running"})

\* A thread takes the next job; evaluate reads self.rules when it begins.
StartJob ==
  /\ queue # <<>> /\ Busy < Pool
  /\ queue' = Tail(queue)
  /\ LET q == Head(queue).req
     IN  req' = IF Head(queue).job = "rules"
                  THEN [req EXCEPT ![q].rules = "running", ![q].list = active]
                  ELSE [req EXCEPT ![q].ml = "running"]
  /\ UNCHANGED <<files, engine, worker, history>>

\* The rule at hand raises on the request's flow.
AtRaisingRule(q) ==
  LET rules == lists[req[q].list]
  IN  req[q].next <= Len(rules) /\ req[q].flow \in Raises[rules[req[q].next]]

Matched(matches, r, f) ==
  IF f \in Hit[r] THEN Append(matches, [rule |-> r, level |-> Level[r]]) ELSE matches

\* One turn of the loop over the list: evaluate_rule, or the loop's end.
EvaluateNext(q) ==
  /\ q \in Sent /\ req[q].rules = "running" /\ ~AtRaisingRule(q)
  /\ LET rules == lists[req[q].list]
     IN  req' = IF req[q].next > Len(rules)
                  THEN [req EXCEPT ![q].rules = "done"]
                  ELSE [req EXCEPT ![q].next = @ + 1,
                                   ![q].matches = Matched(@, rules[req[q].next], req[q].flow)]
  /\ UNCHANGED <<files, engine, queue, worker, history>>

\* evaluate_rule raises: the loop's matches are lost.
EvaluateRaises(q) ==
  /\ q \in Sent /\ req[q].rules = "running" /\ AtRaisingRule(q)
  /\ req' = [req EXCEPT ![q].rules = "failed", ![q].matches = <<>>]
  /\ UNCHANGED <<files, engine, queue, worker, history>>

\* The ensemble has a verdict, or raises.
EvaluateFlow(q, result) ==
  /\ q \in Sent /\ req[q].ml = "running"
  /\ req' = [req EXCEPT ![q].ml = result]
  /\ UNCHANGED <<files, engine, queue, worker, history>>

Ml(f) == Ensemble(Verdict[f], Asset[f])

\* The answer of the request whose jobs are done.
Answer(q) ==
  /\ q \in Waiting /\ req[q].rules = "done" /\ req[q].ml \in {"none", "done"}
  /\ LET report == HybridReport(Ml(req[q].flow), req[q].matches)
     IN  req' = [req EXCEPT ![q] =
           [stage |-> "answered", kind |-> @.kind, flow |-> @.flow, rules |-> "done",
            ml |-> @.ml, matches |-> @.matches,
            report |-> IF @.kind = "rules" THEN None ELSE report,
            technique |-> IF @.kind = "rules" THEN None
                          ELSE Technique(mapping, report.class)]]
  /\ UNCHANGED <<files, engine, queue, worker, history>>

\* gather passes a failure on at once; the other job goes on by itself.
AnswerFailure(q) ==
  /\ q \in Waiting /\ "failed" \in {req[q].rules, req[q].ml}
  /\ req' = [req EXCEPT ![q].stage = "failed"]
  /\ UNCHANGED <<files, engine, queue, worker, history>>

\* The API process ends and starts again.
RestartApi ==
  /\ reloads < MaxReloads
  /\ reloads' = reloads + 1
  /\ lists' = <<NewRules(rulesFile)>> /\ active' = 1
  /\ origin' = Origin(rulesFile)
  /\ mapping' = Unloaded
  /\ queue' = <<>>
  /\ req' = [q \in Request |-> IF q \in Sent /\ req[q].stage # "answered"
                                 THEN [stage |-> "failed", rules |-> "lost", ml |-> "lost"]
                                 ELSE req[q]]
  /\ UNCHANGED <<files, worker, history>>

-----------------------------------------------------------------------------
(* The worker.                                                             *)

\* detect_threats_for_flow_task, its hybrid part: no other code of the
\* process runs meanwhile.  The ensemble or a rule may raise: then there is
\* no alert.  (The heuristics that follow, with levels of their own, are not
\* part of this module.)
Analyse(f, ok) ==
  /\ workerRules' = IF workerRules = Unloaded THEN NewRules(rulesFile) ELSE workerRules
  /\ workerMapping' = Mapper(workerMapping, mappingFile)
  /\ LET matches == Matches(workerRules', f)
         alert == WorkerAlert(Ml(f), matches)
         raises == \E i \in DOMAIN workerRules' : f \in Raises[workerRules'[i]]
     IN  analysis' = IF ok /\ ~raises
                     THEN [flow |-> f, stored |-> alert.threat, alert |-> alert,
                           matches |-> matches,
                           technique |-> Technique(workerMapping', alert.class)]
                     ELSE None
  /\ UNCHANGED <<files, engine, requests, history>>

RestartWorker ==
  /\ workerRules # Unloaded
  /\ workerRules' = Unloaded /\ workerMapping' = Unloaded
  /\ analysis' = None
  /\ UNCHANGED <<files, engine, requests, history>>

Next ==
  \/ \E content \in Ruleset \cup {Missing, Broken} : EditRules(content)
  \/ \E content \in MappingFile \cup {Missing, Broken} : EditMapping(content)
  \/ Reload
  \/ \E q \in Request, kind \in {"rules", "hybrid"}, f \in Flow : Send(q, kind, f)
  \/ StartJob
  \/ \E q \in Request : EvaluateNext(q)
  \/ \E q \in Request : EvaluateRaises(q)
  \/ \E q \in Request, result \in {"done", "failed"} : EvaluateFlow(q, result)
  \/ \E q \in Request : Answer(q)
  \/ \E q \in Request : AnswerFailure(q)
  \/ RestartApi
  \/ \E f \in Flow, ok \in BOOLEAN : Analyse(f, ok)
  \/ RestartWorker

Spec == Init /\ [][Next]_vars

-----------------------------------------------------------------------------
(* Properties.                                                             *)

Stage == {"unsent", "waiting", "answered", "failed"}
JobState == {"none", "queued", "running", "done", "failed", "lost"}

\* The type invariant.  The queue holds the queued jobs, each once.
TypeOK ==
  /\ rulesFile \in Ruleset \cup {Missing, Broken}
  /\ mappingFile \in MappingFile \cup {Missing, Broken}
  /\ \A i \in DOMAIN lists : lists[i] \in Ruleset \cup {<<>>}
  /\ active \in DOMAIN lists
  /\ \A q \in Request : req[q].stage \in Stage
  /\ \A q \in Sent : req[q].rules \in JobState /\ req[q].ml \in JobState
  /\ \A q \in Sent : \A n \in {"rules", "ml"} :
       (req[q][n] = "queued") <=> (\E i \in DOMAIN queue : queue[i] = [req |-> q, job |-> n])
  /\ IsInjective(queue)
  /\ Cardinality({j \in Sent \X {"rules", "ml"} : req[j[1]][j[2]] = "running"}) <= Pool
  /\ edits \in 0..MaxEdits /\ reloads \in 0..MaxReloads

\* These are the matches of flow f among the first n rules, in their order.
AreMatches(matches, rules, n, f) ==
  \E at \in Bijection(DOMAIN matches, {i \in 1..n : f \in Hit[rules[i]]}) :
    /\ \A j \in DOMAIN matches :
         matches[j] = [rule |-> rules[at[j]], level |-> Level[rules[at[j]]]]
    /\ \A j, k \in DOMAIN matches : j < k => at[j] < at[k]

\* However reloads fall between the turns of its loop, an evaluation reports
\* the matches of one ruleset that was in force while the request waited,
\* never a mixture of two; all of them, unless a reload found no file
\* meanwhile and emptied the list under the loop: then those of the rules the
\* loop had come to.
MatchesOfOneRuleset ==
  \A q \in Sent : req[q].stage = "answered" =>
    \E rules \in inForce[q] : \E n \in 0..Len(rules) :
      /\ AreMatches(req[q].matches, rules, n, req[q].flow)
      /\ n < Len(rules) => q \in cleared

\* What reloads leave.  A running API loses its rules only to a rules file
\* that is gone or that parses to no rule (an empty file, "rules: []",
\* another shape, or every rule of it dropped), never to one that does not
\* parse, whenever the file is broken or mended; and each mapper holds the
\* beginning of one file's entries, whether that file breaks off or entries
\* of another were there before.
ReloadsKeepOneFile ==
  /\ Rules = <<>> => origin \in {"nothing", "empty"}
  /\ \A held \in {mapping, workerMapping} \ {Unloaded} :
       held # <<>> => \E file \in MappingFile : IsPrefix(held, file)

Rank == [LOW |-> 1, MEDIUM |-> 2, HIGH |-> 3, CRITICAL |-> 4]

Analysed == analysis # None
Reported == {q \in Sent : req[q].stage = "answered" /\ req[q].kind = "hybrid"}

\* The two fusions, written twice, agree: for the same flow and matches the
\* API reports a threat iff the hybrid part of the worker's task stores an
\* alert, of the same class; and of the same severity and confidence when
\* the ensemble saw a threat.  (When only rules did, the report has the first
\* one's level; the alert has the ensemble's, LOW, unless a rule is critical.
\* The task's heuristics may store alerts for a flow of which the report says
\* that it is no threat.)
FusionsAgree ==
  Analysed => \A q \in Reported :
    LET f      == analysis.flow
        report == req[q].report
        alert  == analysis.alert
    IN  req[q].flow = f /\ req[q].matches = analysis.matches =>
          /\ report.threat <=> analysis.stored
          /\ report.class = alert.class
          /\ Ml(f).threat => report.severity = alert.severity /\ report.conf = alert.conf
          /\ ~Ml(f).threat /\ report.severity # alert.severity =>
               alert.severity = IF AnyCritical(analysis.matches) THEN "CRITICAL" ELSE "LOW"

\* The severities of the two fusions (the task's heuristics have fixed ones).
\* The hybrid alert's is that of its score, by the thresholds of the matrix,
\* though rules raise the one and the other by separate statements, and
\* CRITICAL if a critical rule matched; by the code's formula nothing is
\* CRITICAL by the models alone between standard assets, whatever the class
\* and however certain they are; and rules lower no severity, in the alert or
\* the API's report.
SeverityHasReason ==
  /\ Analysed /\ analysis.stored =>
       LET alert == analysis.alert
       IN  /\ alert.severity = SeverityOf(alert.score)
           /\ AnyCritical(analysis.matches) => alert.severity = "CRITICAL"
           /\ Rank[alert.severity] >= Rank[Ml(analysis.flow).severity]
           /\ alert.severity = "CRITICAL" =>
                Asset[analysis.flow] > 10 \/ AnyCritical(analysis.matches)
  /\ \A q \in Reported :
       LET report == req[q].report
       IN  /\ Rank[report.severity] >= Rank[Ml(req[q].flow).severity]
           /\ report.severity = "CRITICAL" =>
                Asset[req[q].flow] > 10 \/ AnyCritical(req[q].matches)

\* What the docstring of compute_severity and the README say: an alert that
\* the models alone raise has the score
\* min(10.0, 10.0 * (Confidence * Impact * Asset_Criticality)), here rounded
\* to hundredths.  (It does not hold: the code divides the criticality by
\* 1.5.)
ScoreAsDocumented ==
  Analysed /\ analysis.stored /\ analysis.matches = <<>> =>
    LET ml == Ml(analysis.flow)
    IN  analysis.alert.score =
          AtMost(1000, (ml.conf * Impact(ml.class) * Asset[analysis.flow] + 50) \div 100)
=============================================================================
