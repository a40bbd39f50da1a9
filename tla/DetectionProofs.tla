--------------------------- MODULE DetectionProofs ---------------------------
(***************************************************************************)
(* For every set of rules, verdicts, assets and requests, and every number *)
(* of threads, edits and reloads: no hybrid alert and no hybrid report has *)
(* a severity without a reason, and the API's fusion and the worker's agree *)
(* (IInv: what a request's record may be in each of its stages, that the   *)
(* queue holds the queued jobs, each once, and what answers and alerts     *)
(* are); an answer's matches are those of one ruleset (LoopInv: how far the *)
(* loop over the list it began with has come); only a rules file that is   *)
(* gone or has no rule disarms the API, and a mapper holds the beginning   *)
(* of one file (FilesInv); and the types (PoolInv: no more jobs run than   *)
(* there are threads).                                                     *)
(***************************************************************************)
EXTENDS Detection, SequenceTheorems, FunctionTheorems, FiniteSetTheorems,
        WellFoundedInduction, TLAPS

-----------------------------------------------------------------------------
(* What the fusion of the two models and the severity matrix return, for   *)
(* every verdict and criticality.                                          *)

Percent  == 0..100
Verdicts == [unsup : Percent, class : ThreatClass \cup {"BENIGN"}, conf : Percent]
AnyClass == ThreatClass \cup {"BENIGN", "NOVEL_ANOMALY"}

\* What _fuse of ensemble.py may return.
LEMMA FusedVerdict ==
  ASSUME NEW v \in Verdicts
  PROVE  /\ Fuse(v).conf \in Percent
         /\ Fuse(v).class \in AnyClass
         /\ Fuse(v).threat \in BOOLEAN
         /\ ~Fuse(v).threat => Fuse(v).class = "BENIGN"
  BY DEF Fuse, Verdicts, ThreatClass, AnyClass, Percent, AtLeast

\* No impact is above 0.95, and that of BENIGN is 0.05.
LEMMA ImpactBounds ==
  ASSUME NEW class \in AnyClass
  PROVE  /\ Impact(class) \in Percent
         /\ Impact(class) <= 95
         /\ class = "BENIGN" => Impact(class) = 5
  BY DEF Impact, ClassImpact, ThreatClass, AnyClass, Percent

\* Bounds pass through the division of the score.
LEMMA Quotient ==
  ASSUME NEW n \in Nat
  PROVE  /\ n \div 150 \in Nat
         /\ n < 120000 => n \div 150 < 800
         /\ n < 60000 => n \div 150 < 400
<1>1. n \div 150 \in Nat
  OBVIOUS
<1>2. n >= 150 * (n \div 150)
  OBVIOUS
<1> QED
  BY <1>1, <1>2

\* What a score may be.
Fits(score, class, criticality) ==
  /\ score \in 10..1000
  /\ criticality = 10 => score < 800
  /\ class = "BENIGN" => score < 400

\* The score fits: below CRITICAL for a standard asset, below MEDIUM for a
\* benign verdict on any asset.
LEMMA ScoreFits ==
  ASSUME NEW class \in AnyClass, NEW conf \in Percent, NEW criticality \in Criticality
  PROVE  Fits(Score(class, conf, criticality), class, criticality)
<1> DEFINE impact == Impact(class)
           p == conf * impact
           n == p * criticality + 75
<1>1. impact \in 0..95 /\ (class = "BENIGN" => impact = 5)
  BY ImpactBounds DEF Percent
<1>2. Score(class, conf, criticality) = AtMost(1000, AtLeast(10, n \div 150))
  BY DEF Score
<1> HIDE DEF impact
<1>3. p \in 0..9500 /\ (impact = 5 => p <= 500)
  BY <1>1 DEF Percent
<1> HIDE DEF p
<1>4. /\ n \in Nat
      /\ criticality = 10 => n < 120000
      /\ class = "BENIGN" => n < 60000
  BY <1>1, <1>3 DEF Criticality
<1> HIDE DEF n
<1>5. /\ n \div 150 \in Nat
      /\ criticality = 10 => n \div 150 < 800
      /\ class = "BENIGN" => n \div 150 < 400
  BY <1>4, Quotient
<1> QED
  BY <1>2, <1>5 DEF AtMost, AtLeast, Fits

\* What evaluate_flow says of a flow.
LEMMA EnsembleVerdict ==
  ASSUME NEW v \in Verdicts, NEW criticality \in Criticality
  PROVE  LET ml == Ensemble(v, criticality)
         IN  /\ ml.threat \in BOOLEAN
             /\ ml.severity = SeverityOf(ml.score)
             /\ ~ml.threat => ml.class = "BENIGN"
             /\ Fits(ml.score, ml.class, criticality)
<1> DEFINE fused == Fuse(v)
<1>1. /\ fused.conf \in Percent /\ fused.threat \in BOOLEAN
      /\ fused.class \in AnyClass
      /\ ~fused.threat => fused.class = "BENIGN"
  BY FusedVerdict
<1>2. /\ Ensemble(v, criticality).threat = fused.threat
      /\ Ensemble(v, criticality).class = fused.class
      /\ Ensemble(v, criticality).score = Score(fused.class, fused.conf, criticality)
      /\ Ensemble(v, criticality).severity = SeverityOf(Score(fused.class, fused.conf, criticality))
  BY DEF Ensemble
<1>3. Fits(Score(fused.class, fused.conf, criticality), fused.class, criticality)
  BY <1>1, ScoreFits, Zenon
<1> HIDE DEF fused
<1> QED
  BY <1>1, <1>2, <1>3

-----------------------------------------------------------------------------
(* The inductive invariant.  A job of the queue belongs to a request that  *)
(* waits, or failed meanwhile, and has not begun that job: so the job can  *)
(* be started, and neither answer nor restart meets it.                    *)

MatchRecord == [rule : Rule, level : Severity]
Job         == [req : Request, job : {"rules", "ml"}]

OpenRequest ==
  [stage : {"waiting", "failed"}, kind : {"rules", "hybrid"}, flow : Flow,
   rules : {"queued", "running", "done", "failed"},
   ml : {"none", "queued", "running", "done", "failed"},
   list : Nat, next : Nat \ {0}, matches : Seq(MatchRecord)]

LostRequest == [stage : {"failed"}, rules : {"lost"}, ml : {"lost"}]

Answered(r) ==
  /\ r.stage = "answered" /\ r.rules = "done" /\ r.ml \in {"none", "done"}
  /\ r.flow \in Flow /\ r.matches \in Seq(MatchRecord)
  /\ r.kind = "hybrid" => r.report = HybridReport(Ml(r.flow), r.matches)

RulesInv ==
  /\ rulesFile \in Ruleset \cup {Missing, Broken}
  /\ lists \in Seq(Seq(Rule))
  /\ active \in DOMAIN lists

RequestsInv ==
  /\ DOMAIN req = Request /\ req = [q \in Request |-> req[q]]
  /\ \A q \in Request :
       \/ req[q] = Idle
       \/ req[q] \in OpenRequest
       \/ req[q] \in LostRequest
       \/ Answered(req[q])
  /\ \A q \in Request :
       req[q] \in OpenRequest /\ req[q].rules = "running" => req[q].list \in DOMAIN lists

Queued(e, requested) ==
  /\ requested[e.req] \in OpenRequest
  /\ e.job = "rules" => requested[e.req].rules = "queued"
  /\ e.job = "ml" => requested[e.req].ml = "queued"

QueueInv ==
  /\ queue \in Seq(Job)
  /\ \A i \in 1..Len(queue) : Queued(queue[i], req)
  /\ \A i, j \in 1..Len(queue) : queue[i] = queue[j] => i = j

AnalysisInv ==
  Analysed => /\ analysis.flow \in Flow
              /\ analysis.alert = WorkerAlert(Ml(analysis.flow), analysis.matches)
              /\ analysis.stored = analysis.alert.threat

IInv == RulesInv /\ RequestsInv /\ QueueInv /\ AnalysisInv

-----------------------------------------------------------------------------
(* Severities.                                                             *)

\* The lemma on the ensemble, for a flow of the specification.
LEMMA MlFacts ==
  ASSUME NEW f \in Flow
  PROVE  /\ Ml(f).threat \in BOOLEAN
         /\ Ml(f).severity = SeverityOf(Ml(f).score)
         /\ ~Ml(f).threat => Ml(f).class = "BENIGN"
         /\ Fits(Ml(f).score, Ml(f).class, Asset[f])
<1>1. Verdict[f] \in Verdicts /\ Asset[f] \in Criticality
  BY FlowsAssumption DEF Verdicts, Percent
<1> QED
  BY <1>1, EnsembleVerdict DEF Ml

\* Every score has a severity; CRITICAL is the highest and LOW the lowest.
LEMMA Ranked ==
  /\ \A score \in 10..1000 : SeverityOf(score) \in Severity
  /\ \A level \in Severity : Rank[level] \in 1..4 /\ Rank["CRITICAL"] >= Rank[level]
  /\ \A level \in Severity : Rank[level] >= Rank["LOW"]
  BY DEF SeverityOf, Severity, Rank

\* Where the highest level begins and the lowest ends.
LEMMA Thresholds ==
  ASSUME NEW score \in Int
  PROVE  /\ SeverityOf(score) = "CRITICAL" => score >= 800
         /\ score < 400 => SeverityOf(score) = "LOW"
<1>1. SeverityOf(score) = "CRITICAL" => score >= 800
  BY ONLY Zenon DEF SeverityOf
<1>2. score < 400 => ~(score >= 800) /\ ~(score >= 600) /\ ~(score >= 400)
  BY ONLY score \in Int
<1>3. score < 400 => SeverityOf(score) = "LOW"
  BY ONLY <1>2, Zenon DEF SeverityOf
<1>4. QED
  BY ONLY <1>1, <1>3

\* What the ensemble's severity may be: CRITICAL only with an asset above the
\* standard, and LOW when it sees no threat.
LEMMA MlSeverity ==
  ASSUME NEW f \in Flow
  PROVE  /\ Ml(f).severity \in Severity
         /\ Ml(f).severity = SeverityOf(Ml(f).score)
         /\ Ml(f).score \in 10..1000
         /\ Ml(f).severity = "CRITICAL" => Asset[f] > 10 /\ Ml(f).score >= 800
         /\ ~Ml(f).threat => Ml(f).severity = "LOW"
<1>1. Ml(f).severity = SeverityOf(Ml(f).score)
  BY MlFacts
<1>2. Fits(Ml(f).score, Ml(f).class, Asset[f])
  BY MlFacts
<1>3. ~Ml(f).threat => Ml(f).class = "BENIGN"
  BY MlFacts
<1>4. Asset[f] \in Criticality
  BY FlowsAssumption
<1> DEFINE score == Ml(f).score
<1>5. score \in 10..1000 /\ (Asset[f] = 10 => score < 800)
  BY <1>2 DEF Fits
<1>6. ~Ml(f).threat => score < 400
  BY <1>2, <1>3 DEF Fits
<1> HIDE DEF score
<1>7. score \in Int
  BY ONLY <1>5
<1>8. SeverityOf(score) = "CRITICAL" => score >= 800
  BY <1>7, Thresholds, Zenon
<1>9. score < 400 => SeverityOf(score) = "LOW"
  BY <1>7, Thresholds, Zenon
<1>10. SeverityOf(score) \in Severity
  BY <1>5, Ranked
<1>11. SeverityOf(score) = "CRITICAL" => Asset[f] > 10
  BY <1>4, <1>5, <1>8 DEF Criticality
<1> QED
  BY <1>1, <1>5, <1>6, <1>8, <1>9, <1>10, <1>11 DEF score

\* The alert's part of SeverityHasReason: the worker's fusion, tasks.py.
LEMMA AlertSeverity ==
  ASSUME NEW f \in Flow, NEW matches
  PROVE  LET alert == WorkerAlert(Ml(f), matches)
         IN  /\ alert.severity = SeverityOf(alert.score)
             /\ AnyCritical(matches) => alert.severity = "CRITICAL"
             /\ Rank[alert.severity] >= Rank[Ml(f).severity]
             /\ alert.severity = "CRITICAL" => Asset[f] > 10 \/ AnyCritical(matches)
<1> DEFINE sev == Ml(f).severity  score == Ml(f).score
           alert == WorkerAlert(Ml(f), matches)
<1>1. /\ sev \in Severity /\ sev = SeverityOf(score) /\ score \in 10..1000
      /\ sev = "CRITICAL" => Asset[f] > 10
  BY MlSeverity
<1>2. /\ alert.severity = IF AnyCritical(matches) THEN "CRITICAL" ELSE sev
      /\ alert.score = IF AnyCritical(matches) THEN AtLeast(850, score) ELSE score
  BY DEF WorkerAlert
<1> HIDE DEF sev, score, alert
<1>3. SeverityOf(AtLeast(850, score)) = "CRITICAL"
  BY <1>1 DEF SeverityOf, AtLeast
<1>4. Rank["CRITICAL"] >= Rank[sev] /\ Rank[sev] \in 1..4
  BY <1>1, Ranked
<1>5. CASE AnyCritical(matches)
  BY <1>2, <1>3, <1>4, <1>5 DEF alert, sev
<1>6. CASE ~AnyCritical(matches)
  BY <1>1, <1>2, <1>4, <1>6 DEF alert, sev
<1> QED
  BY <1>5, <1>6

\* The report's part of SeverityHasReason: the engine's fusion, where the
\* first rule's level replaces a LOW of the ensemble.
LEMMA ReportSeverity ==
  ASSUME NEW f \in Flow, NEW matches \in Seq(MatchRecord)
  PROVE  LET report == HybridReport(Ml(f), matches)
         IN  /\ Rank[report.severity] >= Rank[Ml(f).severity]
             /\ report.severity = "CRITICAL" => Asset[f] > 10 \/ AnyCritical(matches)
<1> DEFINE sev == Ml(f).severity  threat == Ml(f).threat
           report == HybridReport(Ml(f), matches)
<1>1. /\ sev \in Severity
      /\ sev = "CRITICAL" => Asset[f] > 10
      /\ ~threat => sev = "LOW"
  BY MlSeverity
<1>2. report.severity
        = IF matches # <<>> /\ ~threat THEN matches[1].level
          ELSE IF threat /\ AnyCritical(matches) THEN "CRITICAL" ELSE sev
  BY DEF HybridReport
<1>3. Rank[sev] \in 1..4 /\ Rank["CRITICAL"] >= Rank[sev]
  BY <1>1, Ranked
<1> HIDE DEF sev, threat, report
<1>4. CASE matches # <<>> /\ ~threat
  <2>1. 1 \in DOMAIN matches /\ matches[1] \in MatchRecord
    BY <1>4
  <2>2. matches[1].level \in Severity
    BY <2>1 DEF MatchRecord
  <2>3. matches[1].level = "CRITICAL" => AnyCritical(matches)
    BY <2>1 DEF AnyCritical
  <2>4. Rank[matches[1].level] >= Rank["LOW"]
    BY <2>2, Ranked
  <2> QED
    BY <1>1, <1>2, <1>4, <2>3, <2>4 DEF report, sev
<1>5. CASE ~(matches # <<>> /\ ~threat)
  BY <1>1, <1>2, <1>3, <1>5 DEF report, sev
<1> QED
  BY <1>4, <1>5

\* The invariant is strong enough.
LEMMA InvImplies == IInv => SeverityHasReason
<1> SUFFICES ASSUME IInv PROVE SeverityHasReason
  OBVIOUS
<1>1. ASSUME Analysed, analysis.stored
      PROVE  LET alert == analysis.alert
             IN  /\ alert.severity = SeverityOf(alert.score)
                 /\ AnyCritical(analysis.matches) => alert.severity = "CRITICAL"
                 /\ Rank[alert.severity] >= Rank[Ml(analysis.flow).severity]
                 /\ alert.severity = "CRITICAL" =>
                      Asset[analysis.flow] > 10 \/ AnyCritical(analysis.matches)
  BY <1>1, AlertSeverity DEF IInv, AnalysisInv
<1>2. ASSUME NEW q \in Reported
      PROVE  LET report == req[q].report
             IN  /\ Rank[report.severity] >= Rank[Ml(req[q].flow).severity]
                 /\ report.severity = "CRITICAL" =>
                      Asset[req[q].flow] > 10 \/ AnyCritical(req[q].matches)
  <2>1. q \in Request /\ req[q].stage = "answered" /\ req[q].kind = "hybrid"
    BY DEF Reported, Sent
  <2>2. Answered(req[q])
    BY <2>1 DEF IInv, RequestsInv, Idle, OpenRequest, LostRequest
  <2> QED
    BY <2>1, <2>2, ReportSeverity DEF Answered
<1> QED
  BY <1>1, <1>2 DEF SeverityHasReason

-----------------------------------------------------------------------------
(* The invariant holds initially and every step keeps it.                  *)

\* A rules file, usable or not, gives a new engine a sequence of rules.
LEMMA FileRules ==
  ASSUME rulesFile \in Ruleset \cup {Missing, Broken}
  PROVE  NewRules(rulesFile) \in Seq(Rule)
  BY RulesAssumption DEF NewRules

\* The invariant holds when API and worker start.
LEMMA InitInv == Init => IInv
<1> SUFFICES ASSUME Init PROVE IInv
  OBVIOUS
<1>1. rulesFile \in Ruleset \cup {Missing, Broken}
  BY FilesAssumption DEF Init
<1>2. RulesInv
  BY <1>1, FileRules DEF Init, RulesInv
<1>3. RequestsInv
  BY DEF Init, RequestsInv, Idle, OpenRequest
<1>4. QueueInv
  BY DEF Init, QueueInv
<1>5. AnalysisInv
  BY DEF Init, AnalysisInv, Analysed
<1> QED
  BY <1>2, <1>3, <1>4, <1>5 DEF IInv

\* The lists of rules are as before.
LEMMA Elsewhere ==
  ASSUME IInv, UNCHANGED <<lists, active>>
  PROVE  rulesFile' \in Ruleset \cup {Missing, Broken} => RulesInv'
  BY DEF IInv, RulesInv

\* Requests and jobs are as before, and no list in use went away.
LEMMA RequestsKept ==
  ASSUME IInv, UNCHANGED requests, DOMAIN lists \subseteq DOMAIN lists'
  PROVE  RequestsInv' /\ QueueInv'
  BY DEF IInv, RequestsInv, QueueInv, Queued, requests, Answered

\* The worker's last analysis is as before.
LEMMA AnalysisKept ==
  ASSUME IInv, UNCHANGED analysis
  PROVE  AnalysisInv'
  BY DEF IInv, AnalysisInv, Analysed

\* POST /rules/reload changes no request, and only adds or empties lists.
LEMMA ReloadInv == IInv /\ Reload => IInv'
<1> SUFFICES ASSUME IInv, Reload PROVE IInv'
  OBVIOUS
<1> USE DEF IInv
<1>1. ReloadRules /\ UNCHANGED <<files, requests, worker>>
  BY DEF Reload
<1>2. RulesInv' /\ DOMAIN lists \subseteq DOMAIN lists'
  <2>1. CASE rulesFile = Missing /\ lists' = [lists EXCEPT ![active] = <<>>] /\ UNCHANGED active
    BY <1>1, <2>1 DEF RulesInv, files
  <2>2. CASE rulesFile = Broken /\ UNCHANGED <<lists, active>>
    BY <1>1, <2>2 DEF RulesInv, files
  <2>3. CASE rulesFile \in Ruleset /\ lists' = Append(lists, rulesFile) /\ active' = Len(lists) + 1
    <3>1. rulesFile \in Seq(Rule)
      BY <2>3, RulesAssumption
    <3> QED
      BY <1>1, <2>3, <3>1 DEF RulesInv, files
  <2> QED
    BY <1>1, <2>1, <2>2, <2>3 DEF ReloadRules
<1>3. RequestsInv' /\ QueueInv' /\ AnalysisInv'
  BY <1>1, <1>2, RequestsKept, AnalysisKept DEF worker
<1> QED
  BY <1>2, <1>3

\* A queue of different jobs, all queued by the requests in r.
Queueing(s, r) ==
  /\ s \in Seq(Job) /\ \A i \in 1..Len(s) : Queued(s[i], r)
  /\ \A i, j \in 1..Len(s) : s[i] = s[j] => i = j

\* A job that is not in a queue of different jobs joins it.
LEMMA JobJoins ==
  ASSUME NEW s, NEW r, NEW job \in Job, Queueing(s, r), Queued(job, r),
         \A i \in 1..Len(s) : s[i] # job
  PROVE  /\ Queueing(Append(s, job), r)
         /\ \A i \in 1..Len(Append(s, job)) :
              Append(s, job)[i] = job \/ \E j \in 1..Len(s) : Append(s, job)[i] = s[j]
<1>1. s \in Seq(Job)
  BY Zenon DEF Queueing
<1> DEFINE t == Append(s, job)
<1>2. /\ t \in Seq(Job) /\ Len(t) = Len(s) + 1 /\ Len(s) \in Nat
      /\ \A i \in 1..Len(s) : t[i] = s[i]
      /\ t[Len(s) + 1] = job
  BY ONLY <1>1, job \in Job
<1>3. PICK n \in Nat : n = Len(s)
  BY <1>2, Zenon
<1> HIDE DEF t
<1>4. \A i \in 1..(n + 1) : i \in 1..n \/ i = n + 1
  BY ONLY n \in Nat
<1>5. /\ t \in Seq(Job) /\ Len(t) = n + 1
      /\ \A i \in 1..n : t[i] = s[i] /\ s[i] # job /\ Queued(s[i], r)
      /\ t[n + 1] = job
  BY ONLY <1>2, <1>3, Queueing(s, r), \A i \in 1..Len(s) : s[i] # job, Zenon DEF Queueing
<1>6. \A i \in 1..(n + 1) : Queued(t[i], r)
  BY ONLY <1>4, <1>5, Queued(job, r), Zenon
<1>7. \A i, j \in 1..n : s[i] = s[j] => i = j
  BY ONLY <1>3, Queueing(s, r), Zenon DEF Queueing
<1>8. ASSUME NEW i \in 1..(n + 1), NEW j \in 1..(n + 1), t[i] = t[j] PROVE i = j
  <2>1. CASE i \in 1..n /\ j \in 1..n
    BY ONLY <1>5, <1>7, <1>8, <2>1, Zenon
  <2>2. CASE i \in 1..n /\ j = n + 1
    BY ONLY <1>5, <1>8, <2>2, Zenon
  <2>3. CASE i = n + 1 /\ j \in 1..n
    BY ONLY <1>5, <1>8, <2>3, Zenon
  <2>4. QED
    BY ONLY <1>4, <2>1, <2>2, <2>3, Zenon
<1>9. Queueing(t, r)
  BY ONLY <1>5, <1>6, <1>8, Zenon DEF Queueing
<1>10. \A i \in 1..Len(t) : t[i] = job \/ \E j \in 1..Len(s) : t[i] = s[j]
  BY ONLY <1>3, <1>4, <1>5, Zenon
<1>11. QED
  BY <1>9, <1>10 DEF t

\* The two ways to write that jobs enter the queue.
LEMMA JobsAppended ==
  ASSUME NEW s \in Seq(Job), NEW a \in Job, NEW b \in Job
  PROVE  s \o <<a>> \o <<>> = Append(s, a) /\ s \o <<a>> \o <<b>> = Append(Append(s, a), b)
  OBVIOUS

\* A new request enters the queue with one or two jobs of its own.
LEMMA SendInv ==
  ASSUME NEW q \in Request, NEW kind \in {"rules", "hybrid"}, NEW f \in Flow
  PROVE  IInv /\ Send(q, kind, f) => IInv'
<1> SUFFICES ASSUME IInv, Send(q, kind, f) PROVE IInv'
  OBVIOUS
<1> USE DEF IInv
<1> DEFINE r == [stage |-> "waiting", kind |-> kind, flow |-> f, rules |-> "queued",
                 ml |-> IF kind = "hybrid" THEN "queued" ELSE "none",
                 list |-> 0, next |-> 1, matches |-> <<>>]
           a == [req |-> q, job |-> "rules"]
           b == [req |-> q, job |-> "ml"]
<1>1. req[q].stage = "unsent" /\ req' = [req EXCEPT ![q] = r]
  BY DEF Send
<1>2. queue' = IF kind = "hybrid" THEN Append(Append(queue, a), b) ELSE Append(queue, a)
  <2>1. queue' = queue \o <<a>> \o (IF kind = "hybrid" THEN <<b>> ELSE <<>>)
    BY DEF Send
  <2>2. queue \in Seq(Job) /\ a \in Job /\ b \in Job
    BY DEF QueueInv, Job
  <2> HIDE DEF a, b
  <2>3. CASE kind = "hybrid"
    BY <2>1, <2>2, <2>3, JobsAppended, Zenon
  <2>4. CASE kind # "hybrid"
    BY <2>1, <2>2, <2>4, JobsAppended, Zenon
  <2>5. QED
    BY <2>3, <2>4
<1>3. UNCHANGED <<rulesFile, lists, active, analysis>>
  BY DEF Send, files, worker
<1>4. r \in OpenRequest
  BY DEF OpenRequest
<1>5. req' = [p \in Request |-> IF p = q THEN r ELSE req[p]]
  BY <1>1 DEF RequestsInv
<1>6. r.rules = "queued" /\ (kind = "hybrid" => r.ml = "queued")
  OBVIOUS
<1> HIDE DEF r
<1>7. RequestsInv'
  BY <1>3, <1>4, <1>5, <1>6 DEF RequestsInv, Answered
<1>8. QueueInv'
  <2>1. \A i \in 1..Len(queue) : queue[i] \in Job /\ queue[i].req # q /\ Queued(queue[i], req')
    <3> SUFFICES ASSUME NEW i \in 1..Len(queue)
                 PROVE  queue[i] \in Job /\ queue[i].req # q /\ Queued(queue[i], req')
      OBVIOUS
    <3>1. queue[i] \in Job /\ Queued(queue[i], req)
      BY DEF QueueInv
    <3>2. queue[i].req \in Request
      BY <3>1 DEF Job
    <3>3. req[queue[i].req] \in OpenRequest
      BY <3>1 DEF Queued
    <3>4. queue[i].req # q
      BY <1>1, <3>3 DEF OpenRequest
    <3>5. req'[queue[i].req] = req[queue[i].req]
      BY <1>5, <3>2, <3>4
    <3> QED
      BY <3>1, <3>4, <3>5 DEF Queued
  <2>2. a \in Job /\ b \in Job /\ a # b /\ a.req = q /\ b.req = q
    BY DEF Job
  <2>3. Queued(a, req') /\ (kind = "hybrid" => Queued(b, req'))
    BY <1>4, <1>5, <1>6 DEF Queued
  <2>4. queue \in Seq(Job) /\ \A i, j \in 1..Len(queue) : queue[i] = queue[j] => i = j
    BY Zenon DEF QueueInv
  <2> HIDE DEF a, b
  <2> DEFINE one == Append(queue, a)
  <2>5. Queueing(queue, req') /\ \A i \in 1..Len(queue) : queue[i] # a
    BY ONLY <2>1, <2>2, <2>4, Zenon DEF Queueing
  <2>6. \A i \in 1..Len(queue) : queue[i] # b
    BY ONLY <2>1, <2>2, Zenon
  <2>7. /\ Queueing(one, req')
        /\ \A i \in 1..Len(one) : one[i] = a \/ \E j \in 1..Len(queue) : one[i] = queue[j]
    <3>1. a \in Job /\ Queued(a, req')
      BY ONLY <2>2, <2>3
    <3>2. QED
      BY ONLY <2>5, <3>1, JobJoins, Zenon
  <2> HIDE DEF one
  <2>8. kind = "hybrid" => Queueing(Append(one, b), req')
    <3> SUFFICES ASSUME kind = "hybrid" PROVE Queueing(Append(one, b), req')
      OBVIOUS
    <3>1. b \in Job /\ Queued(b, req')
      BY ONLY <2>2, <2>3, kind = "hybrid"
    <3>2. \A i \in 1..Len(one) : one[i] # b
      BY ONLY <2>2, <2>6, <2>7, Zenon
    <3>3. QED
      BY ONLY <2>7, <3>1, <3>2, JobJoins, Zenon
  <2>9. queue' = IF kind = "hybrid" THEN Append(one, b) ELSE one
    BY <1>2, Zenon DEF one
  <2>10. Queueing(queue', req')
    BY ONLY <2>7, <2>8, <2>9, Zenon
  <2> QED
    BY ONLY <2>10, Zenon DEF QueueInv, Queueing
<1> QED
  BY <1>3, <1>7, <1>8, Elsewhere, AnalysisKept DEF RulesInv

\* The job at the head is the request's only such job.
LEMMA StartJobInv == IInv /\ StartJob => IInv'
<1> SUFFICES ASSUME IInv, StartJob PROVE IInv'
  OBVIOUS
<1> USE DEF IInv
<1> DEFINE head == queue[1]
           q == head.req
           r == IF head.job = "rules"
                  THEN [req[q] EXCEPT !.rules = "running", !.list = active]
                  ELSE [req[q] EXCEPT !.ml = "running"]
<1>1. queue \in Seq(Job) /\ queue # <<>> /\ queue' = Tail(queue)
  BY DEF StartJob, QueueInv
<1>2. head \in Job /\ Queued(head, req) /\ q \in Request /\ head.job \in {"rules", "ml"}
  <2>1. 1 \in 1..Len(queue)
    BY <1>1
  <2>2. head \in Job /\ Queued(head, req)
    BY <1>1, <2>1 DEF QueueInv
  <2> HIDE DEF head
  <2> QED
    BY <2>2 DEF Job
<1>3. req' = [p \in Request |-> IF p = q THEN r ELSE req[p]]
  <2>1. Head(queue) = head
    BY <1>1
  <2>2. req' = IF head.job = "rules"
                 THEN [req EXCEPT ![q].rules = "running", ![q].list = active]
                 ELSE [req EXCEPT ![q].ml = "running"]
    BY <2>1 DEF StartJob
  <2> HIDE DEF head
  <2> QED
    BY <1>2, <2>2 DEF RequestsInv
<1>4. UNCHANGED <<rulesFile, lists, active, analysis>>
  BY DEF StartJob, files, engine, worker
<1>5. r \in OpenRequest /\ (r.rules = "running" => r.list \in DOMAIN lists)
  <2>1. req[q] \in OpenRequest /\ (req[q].rules = "running" => req[q].list \in DOMAIN lists)
    BY <1>2 DEF Queued, RequestsInv
  <2>2. active \in Nat /\ active \in DOMAIN lists
    BY DEF RulesInv
  <2> QED
    BY <2>1, <2>2 DEF OpenRequest
<1>6. /\ head.job = "rules" => r.ml = req[q].ml
      /\ head.job # "rules" => r.rules = req[q].rules
  BY <1>2 DEF Queued, OpenRequest
<1> HIDE DEF r
<1>7. RequestsInv'
  BY <1>3, <1>4, <1>5 DEF RequestsInv, Answered
<1>8. QueueInv'
  <2>1. Len(queue') = Len(queue) - 1 /\ queue' \in Seq(Job)
    BY <1>1
  <2>2. \A i \in 1..Len(queue') : queue'[i] = queue[i + 1] /\ i + 1 \in 1..Len(queue)
    BY <1>1, <2>1
  <2>3. \A i, j \in 1..Len(queue) : queue[i] = queue[j] => i = j
    BY DEF QueueInv
  <2>4. ASSUME NEW i \in 2..Len(queue)
        PROVE  Queued(queue[i], req')
    <3>1. queue[i] \in Job /\ Queued(queue[i], req) /\ queue[i] # head
      BY <1>1, <2>3 DEF QueueInv
    <3>2. queue[i].req = q => queue[i].job # head.job
      BY <1>2, <3>1 DEF Job
    <3>3. queue[i].req \in Request /\ queue[i].job \in {"rules", "ml"}
      BY <3>1 DEF Job
    <3> HIDE DEF head
    <3> QED
      BY <1>2, <1>3, <1>5, <1>6, <3>1, <3>2, <3>3 DEF Queued
  <2>5. \A i \in 1..Len(queue') : Queued(queue'[i], req')
    BY <1>1, <2>1, <2>2, <2>4
  <2>6. \A i, j \in 1..Len(queue') : queue'[i] = queue'[j] => i = j
    BY <2>1, <2>2, <2>3
  <2> QED
    BY <2>1, <2>5, <2>6 DEF QueueInv
<1> QED
  BY <1>4, <1>7, <1>8, Elsewhere, AnalysisKept DEF RulesInv

\* A step of one request, which neither loses nor restarts a queued job.
LEMMA OneRequest ==
  ASSUME IInv, NEW q \in Request, NEW r,
         req' = [req EXCEPT ![q] = r],
         UNCHANGED <<rulesFile, lists, active, queue, analysis>>,
         r \in OpenRequest \/ Answered(r),
         r \in OpenRequest /\ r.rules = "running" => r.list \in DOMAIN lists,
         req[q].rules = "queued" => r \in OpenRequest /\ r.rules = "queued",
         req[q].ml = "queued" => r \in OpenRequest /\ r.ml = "queued"
  PROVE  IInv'
<1> USE DEF IInv
<1>1. req' = [p \in Request |-> IF p = q THEN r ELSE req[p]]
  BY DEF RequestsInv
<1>2. RequestsInv'
  BY <1>1 DEF RequestsInv, Answered
<1>3. ASSUME NEW i \in 1..Len(queue) PROVE Queued(queue[i], req')
  <2>1. queue[i] \in Job /\ Queued(queue[i], req)
    BY DEF QueueInv
  <2>2. queue[i].req \in Request /\ queue[i].job \in {"rules", "ml"}
    BY <2>1 DEF Job
  <2> QED
    BY <1>1, <2>1, <2>2 DEF Queued
<1>4. QueueInv'
  BY <1>3 DEF QueueInv
<1> QED
  BY <1>2, <1>4, Elsewhere, AnalysisKept DEF RulesInv

\* A request with a job under way, or failed, has not been answered.
LEMMA SentRequest ==
  ASSUME IInv, NEW q \in Request,
         req[q].rules \in {"running", "failed"} \/ req[q].ml \in {"running", "failed"},
         req[q].stage # "unsent", ~Answered(req[q])
  PROVE  req[q] \in OpenRequest
  BY DEF IInv, RequestsInv, Idle, LostRequest

\* A turn of the loop adds at most a match with the rule's level.
LEMMA EvaluateNextInv ==
  ASSUME NEW q \in Request
  PROVE  IInv /\ EvaluateNext(q) => IInv'
<1> SUFFICES ASSUME IInv, EvaluateNext(q) PROVE IInv'
  OBVIOUS
<1> DEFINE rules == lists[req[q].list]
           r == IF req[q].next > Len(rules)
                  THEN [req[q] EXCEPT !.rules = "done"]
                  ELSE [req[q] EXCEPT !.next = @ + 1,
                          !.matches = Matched(@, rules[req[q].next], req[q].flow)]
<1>1. req[q].rules = "running" /\ req[q].stage # "unsent"
  BY DEF EvaluateNext, Sent
<1>2. req[q] \in OpenRequest /\ rules \in Seq(Rule)
  <2>1. req[q] \in OpenRequest
    BY <1>1, SentRequest DEF Answered
  <2>2. req[q].list \in DOMAIN lists
    BY <1>1, <2>1 DEF IInv, RequestsInv
  <2> QED
    BY <2>1, <2>2 DEF IInv, RulesInv
<1>3. req' = [req EXCEPT ![q] = r]
  BY DEF EvaluateNext, IInv, RequestsInv
<1>4. UNCHANGED <<rulesFile, lists, active, queue, analysis>>
  BY DEF EvaluateNext, files, engine, worker
<1>5. CASE req[q].next > Len(rules)
  <2>1. r = [req[q] EXCEPT !.rules = "done"]
    BY <1>5
  <2> HIDE DEF r, rules
  <2>2. r \in OpenRequest /\ r.rules = "done" /\ r.ml = req[q].ml
    BY <1>2, <2>1 DEF OpenRequest
  <2> QED
    BY <1>1, <1>3, <1>4, <2>2, OneRequest
<1>6. CASE ~(req[q].next > Len(rules))
  <2> DEFINE next == req[q].next
             matches == Matched(req[q].matches, rules[next], req[q].flow)
  <2>1. r = [req[q] EXCEPT !.next = next + 1, !.matches = matches]
    BY <1>6
  <2>2. next \in Nat \ {0} /\ next \in 1..Len(rules)
    BY <1>2, <1>6 DEF OpenRequest
  <2>3. rules[next] \in Rule
    BY <1>2, <2>2
  <2>4. req[q].matches \in Seq(MatchRecord)
    BY <1>2 DEF OpenRequest
  <2>5. matches \in Seq(MatchRecord)
    <3>1. [rule |-> rules[next], level |-> Level[rules[next]]] \in MatchRecord
      BY <2>3, RulesAssumption DEF MatchRecord
    <3> QED
      BY <2>4, <3>1 DEF Matched
  <2> DEFINE after == next + 1
  <2>6. after \in Nat \ {0}
    BY <2>2
  <2> HIDE DEF matches, r, rules, after
  <2>7. r \in OpenRequest /\ r.rules = req[q].rules /\ r.ml = req[q].ml /\ r.list = req[q].list
    <3>1. r = [req[q] EXCEPT !.next = after, !.matches = matches]
      BY <2>1 DEF after
    <3> QED
      BY <1>2, <2>5, <2>6, <3>1 DEF OpenRequest
  <2>8. r.list \in DOMAIN lists
    BY <1>1, <1>2, <2>7 DEF IInv, RequestsInv
  <2> QED
    BY <1>1, <1>3, <1>4, <2>7, <2>8, OneRequest
<1> QED
  BY <1>5, <1>6

\* A rule that raises ends the loop.
LEMMA EvaluateRaisesInv ==
  ASSUME NEW q \in Request
  PROVE  IInv /\ EvaluateRaises(q) => IInv'
<1> SUFFICES ASSUME IInv, EvaluateRaises(q) PROVE IInv'
  OBVIOUS
<1> DEFINE r == [req[q] EXCEPT !.rules = "failed", !.matches = <<>>]
<1>1. req[q].rules = "running" /\ req[q].stage # "unsent"
  BY DEF EvaluateRaises, Sent
<1>2. req[q] \in OpenRequest
  BY <1>1, SentRequest DEF Answered
<1>3. req' = [req EXCEPT ![q] = r]
  BY DEF EvaluateRaises, IInv, RequestsInv
<1>4. UNCHANGED <<rulesFile, lists, active, queue, analysis>>
  BY DEF EvaluateRaises, files, engine, worker
<1>5. r \in OpenRequest /\ r.rules = "failed" /\ r.ml = req[q].ml
  <2> DEFINE none == <<>>
  <2>1. none \in Seq(MatchRecord)
    OBVIOUS
  <2> HIDE DEF none
  <2>2. r = [req[q] EXCEPT !.rules = "failed", !.matches = none]
    BY DEF none
  <2> QED
    BY <1>2, <2>1, <2>2 DEF OpenRequest
<1> HIDE DEF r
<1> QED
  BY <1>1, <1>3, <1>4, <1>5, OneRequest

\* The ensemble's job ends.
LEMMA EvaluateFlowInv ==
  ASSUME NEW q \in Request, NEW result \in {"done", "failed"}
  PROVE  IInv /\ EvaluateFlow(q, result) => IInv'
<1> SUFFICES ASSUME IInv, EvaluateFlow(q, result) PROVE IInv'
  OBVIOUS
<1> DEFINE r == [req[q] EXCEPT !.ml = result]
<1>1. req[q].ml = "running" /\ req[q].stage # "unsent"
  BY DEF EvaluateFlow, Sent
<1>2. req[q] \in OpenRequest
  BY <1>1, SentRequest DEF Answered
<1>3. req' = [req EXCEPT ![q] = r]
  BY DEF EvaluateFlow, IInv, RequestsInv
<1>4. UNCHANGED <<rulesFile, lists, active, queue, analysis>>
  BY DEF EvaluateFlow, files, engine, worker
<1>5. r \in OpenRequest /\ r.rules = req[q].rules /\ r.list = req[q].list
  BY <1>2 DEF OpenRequest
<1>6. r.rules = "running" => r.list \in DOMAIN lists
  BY <1>2, <1>5 DEF IInv, RequestsInv
<1> HIDE DEF r
<1> QED
  BY <1>1, <1>3, <1>4, <1>5, <1>6, OneRequest

\* A failure is answered while the other job goes on.
LEMMA AnswerFailureInv ==
  ASSUME NEW q \in Request
  PROVE  IInv /\ AnswerFailure(q) => IInv'
<1> SUFFICES ASSUME IInv, AnswerFailure(q) PROVE IInv'
  OBVIOUS
<1> DEFINE r == [req[q] EXCEPT !.stage = "failed"]
<1>1. (req[q].rules = "failed" \/ req[q].ml = "failed") /\ req[q].stage = "waiting"
  BY DEF AnswerFailure, Waiting
<1>2. req[q] \in OpenRequest
  BY <1>1, SentRequest DEF Answered
<1>3. req' = [req EXCEPT ![q] = r]
  BY DEF AnswerFailure, IInv, RequestsInv
<1>4. UNCHANGED <<rulesFile, lists, active, queue, analysis>>
  BY DEF AnswerFailure, files, engine, worker
<1>5. r \in OpenRequest /\ r.rules = req[q].rules /\ r.list = req[q].list /\ r.ml = req[q].ml
  BY <1>2 DEF OpenRequest
<1>6. r.rules = "running" => r.list \in DOMAIN lists
  BY <1>2, <1>5 DEF IInv, RequestsInv
<1> HIDE DEF r
<1> QED
  BY <1>1, <1>3, <1>4, <1>5, <1>6, OneRequest

\* The answer is what the fusion returns for the matches found.
LEMMA AnswerInv ==
  ASSUME NEW q \in Request
  PROVE  IInv /\ Answer(q) => IInv'
<1> SUFFICES ASSUME IInv, Answer(q) PROVE IInv'
  OBVIOUS
<1> DEFINE report == HybridReport(Ml(req[q].flow), req[q].matches)
           r == [stage |-> "answered", kind |-> req[q].kind, flow |-> req[q].flow, rules |-> "done",
                 ml |-> req[q].ml, matches |-> req[q].matches,
                 report |-> IF req[q].kind = "rules" THEN None ELSE report,
                 technique |-> IF req[q].kind = "rules" THEN None
                               ELSE Technique(mapping, report.class)]
<1>1. req[q].rules = "done" /\ req[q].ml \in {"none", "done"} /\ req[q].stage = "waiting"
  BY DEF Answer, Waiting
<1>2. req[q] \in OpenRequest
  BY <1>1 DEF IInv, RequestsInv, Idle, LostRequest, Answered
<1>3. req' = [req EXCEPT ![q] = r]
  BY DEF Answer, IInv, RequestsInv
<1>4. UNCHANGED <<rulesFile, lists, active, queue, analysis>>
  BY DEF Answer, files, engine, worker
<1>5. Answered(r) /\ r.rules = "done"
  BY <1>1, <1>2 DEF OpenRequest, Answered
<1> HIDE DEF r
<1> QED
  BY <1>1, <1>3, <1>4, <1>5, OneRequest

\* A restart loses the queue and every request that was not answered.
LEMMA RestartApiInv == IInv /\ RestartApi => IInv'
<1> SUFFICES ASSUME IInv, RestartApi PROVE IInv'
  OBVIOUS
<1> USE DEF IInv
<1>1. RulesInv'
  BY FileRules DEF RestartApi, RulesInv, files
<1>2. QueueInv'
  BY DEF RestartApi, QueueInv
<1>3. RequestsInv'
  <2> DEFINE lost == [stage |-> "failed", rules |-> "lost", ml |-> "lost"]
  <2>1. req' = [q \in Request |-> IF q \in Sent /\ req[q].stage # "answered" THEN lost ELSE req[q]]
    BY DEF RestartApi
  <2>2. lost \in LostRequest /\ lost \notin OpenRequest
    BY DEF LostRequest, OpenRequest
  <2> HIDE DEF lost
  <2>3. ASSUME NEW q \in Request
        PROVE  /\ req'[q] = Idle \/ req'[q] \in LostRequest \/ Answered(req'[q])
               /\ req'[q] \notin OpenRequest
    BY <2>1, <2>2 DEF RequestsInv, Sent, Idle, OpenRequest, LostRequest, Answered
  <2> QED
    BY <2>1, <2>3 DEF RequestsInv, Answered
<1>4. AnalysisInv'
  BY AnalysisKept DEF RestartApi, worker
<1> QED
  BY <1>1, <1>2, <1>3, <1>4

\* The worker's alert is what its fusion returns.
LEMMA AnalyseInv ==
  ASSUME NEW f \in Flow, NEW ok \in BOOLEAN
  PROVE  IInv /\ Analyse(f, ok) => IInv'
<1> SUFFICES ASSUME IInv, Analyse(f, ok) PROVE IInv'
  OBVIOUS
<1>1. UNCHANGED <<rulesFile, lists, active, queue, req>>
  BY DEF Analyse, files, engine, requests
<1>2. RulesInv' /\ RequestsInv' /\ QueueInv'
  BY <1>1, Elsewhere, RequestsKept DEF IInv, RulesInv, requests
<1>3. AnalysisInv'
  BY DEF Analyse, AnalysisInv, Analysed
<1> QED
  BY <1>2, <1>3 DEF IInv

\* Every step keeps the invariant.
LEMMA StepInv == IInv /\ [Next]_vars => IInv'
<1> SUFFICES ASSUME IInv, [Next]_vars PROVE IInv'
  OBVIOUS
<1>1. ASSUME UNCHANGED <<lists, active, queue, req, analysis>>,
             rulesFile' \in Ruleset \cup {Missing, Broken}
      PROVE  IInv'
  BY <1>1, Elsewhere, RequestsKept, AnalysisKept DEF IInv, requests
<1>2. rulesFile \in Ruleset \cup {Missing, Broken}
  BY DEF IInv, RulesInv
<1>3. ASSUME NEW content \in Ruleset \cup {Missing, Broken}, EditRules(content) PROVE IInv'
  BY <1>1, <1>3 DEF EditRules, engine, requests, worker
<1>4. ASSUME NEW content \in MappingFile \cup {Missing, Broken}, EditMapping(content) PROVE IInv'
  BY <1>1, <1>2, <1>4 DEF EditMapping, engine, requests, worker
<1>5. CASE RestartWorker
  <2>1. UNCHANGED <<rulesFile, lists, active, queue, req>> /\ analysis' = None
    BY <1>5 DEF RestartWorker, files, engine, requests
  <2>2. RulesInv' /\ RequestsInv' /\ QueueInv'
    BY <1>2, <2>1, Elsewhere, RequestsKept DEF requests
  <2>3. AnalysisInv'
    BY <2>1 DEF AnalysisInv, Analysed
  <2> QED
    BY <2>2, <2>3 DEF IInv
<1>6. CASE UNCHANGED vars
  BY <1>1, <1>2, <1>6 DEF vars, files, engine, requests, worker
<1> QED
  BY <1>3, <1>4, <1>5, <1>6, ReloadInv, SendInv, StartJobInv, EvaluateNextInv,
     EvaluateRaisesInv, EvaluateFlowInv, AnswerInv, AnswerFailureInv, RestartApiInv, AnalyseInv DEF Next

\* No severity without a reason, whatever the rules, verdicts and assets are
\* (SeverityHasReason): the alerts that the hybrid part of tasks.py stores and
\* the reports of POST /rules/evaluate-hybrid, by the formula of the code,
\* however reloads and restarts fall.
THEOREM SeveritiesHaveReasons == Spec => []SeverityHasReason
<1>1. Init => IInv
  BY InitInv
<1>2. IInv /\ [Next]_vars => IInv'
  BY StepInv
<1>3. IInv => SeverityHasReason
  BY InvImplies
<1> QED
  BY <1>1, <1>2, <1>3, PTL DEF Spec

-----------------------------------------------------------------------------
(* What an evaluation has found so far: the matches of the rules its loop  *)
(* has come to, of a list that is a ruleset in force while the request     *)
(* waits, or was one and has been emptied since.                           *)

InUse(list, rules, q, gone) == list = rules \/ (q \in gone /\ list = <<>>)

\* The loop of request q, whose record is r, has turned k times.
LoopBegun(q, r, list, force, gone) ==
  \E rules \in force : \E k \in 0..Len(rules) :
    /\ InUse(list, rules, q, gone)
    /\ r.next = k + 1 /\ AreMatches(r.matches, rules, k, r.flow)

LoopOver(q, r, force, gone) ==
  \E rules \in force : \E n \in 0..Len(rules) :
    /\ AreMatches(r.matches, rules, n, r.flow)
    /\ n < Len(rules) => q \in gone

Waits(r) == r \in OpenRequest /\ r.stage = "waiting"

LoopOf(q, r, all, current, force, gone) ==
  /\ Waits(r) /\ r.rules = "queued" =>
       /\ r.next = 1 /\ r.matches = <<>>
       /\ \E rules \in force : InUse(all[current], rules, q, gone)
  /\ Waits(r) /\ r.rules = "running" => LoopBegun(q, r, all[r.list], force, gone)
  /\ Waits(r) /\ r.rules = "done" => LoopOver(q, r, force, gone)
  /\ r.stage = "answered" => LoopOver(q, r, force, gone)

LoopInv ==
  /\ inForce \in [Request -> SUBSET Seq(Rule)]
  /\ \A q \in Request : LoopOf(q, req[q], lists, active, inForce[q], cleared)

\* Before the loop's first turn there are no matches.
LEMMA NoMatchesYet ==
  ASSUME NEW rules, NEW f
  PROVE  AreMatches(<<>>, rules, 0, f)
<1> DEFINE hits == {i \in 1..0 : f \in Hit[rules[i]]}
           at == [j \in {} |-> j]
<1>1. DOMAIN <<>> = {} /\ hits = {}
  OBVIOUS
<1>2. /\ at \in [{} -> {}] /\ \A a, b \in {} : at[a] = at[b] => a = b
      /\ \A t \in {} : \E j \in {} : at[j] = t
  OBVIOUS
<1>3. at \in Bijection({}, {})
  BY <1>2, Fun_IsBij
<1>4. QED
  BY <1>1, <1>3 DEF AreMatches

\* A turn of the loop finds the matches of one rule more.
LEMMA OneMoreRule ==
  ASSUME NEW rules \in Seq(Rule), NEW k \in Nat, k + 1 \in 1..Len(rules), NEW f,
         NEW matches \in Seq(MatchRecord), AreMatches(matches, rules, k, f)
  PROVE  AreMatches(Matched(matches, rules[k + 1], f), rules, k + 1, f)
<1> DEFINE hits == {i \in 1..k : f \in Hit[rules[i]]}
           more == {i \in 1..(k + 1) : f \in Hit[rules[i]]}
           last == k + 1
           match == [rule |-> rules[last], level |-> Level[rules[last]]]
<1>1. PICK at \in Bijection(DOMAIN matches, hits) :
        /\ \A j \in DOMAIN matches :
             matches[j] = [rule |-> rules[at[j]], level |-> Level[rules[at[j]]]]
        /\ \A i, j \in DOMAIN matches : i < j => at[i] < at[j]
  BY DEF AreMatches
<1>2. \A i \in 1..last : i \in 1..k \/ i = last
  OBVIOUS
<1>3. last \in 1..last /\ last \notin 1..k /\ 1..k \subseteq 1..last /\ \A i \in 1..k : i < last
  OBVIOUS
<1> HIDE DEF last
<1>4. CASE f \notin Hit[rules[last]]
  <2>1. more = hits
    BY <1>2, <1>3, <1>4 DEF last
  <2>2. Matched(matches, rules[last], f) = matches
    BY <1>4 DEF Matched
  <2>3. QED
    BY <1>1, <2>1, <2>2 DEF AreMatches, last
<1>5. CASE f \in Hit[rules[last]]
  <2> DEFINE m == Len(matches)
             D == DOMAIN matches
             all == Append(matches, match)
             with == [j \in D \cup {m + 1} |-> IF j = m + 1 THEN last ELSE at[j]]
  <2>1. more = hits \cup {last} /\ last \notin hits
    BY <1>2, <1>3, <1>5 DEF last
  <2>2. Matched(matches, rules[last], f) = all
    BY <1>5 DEF Matched
  <2>3. match \in MatchRecord
    BY RulesAssumption DEF MatchRecord, last
  <2> HIDE DEF match
  <2>4. /\ all \in Seq(MatchRecord) /\ Len(all) = m + 1 /\ all[m + 1] = match
        /\ \A j \in 1..m : all[j] = matches[j]
    BY <2>3, AppendProperties
  <2>5. m \in Nat /\ D = 1..m /\ DOMAIN all = 1..(m + 1)
    BY <2>4, LenProperties
  <2>6. /\ DOMAIN all = D \cup {m + 1} /\ m + 1 \notin D
        /\ \A i \in D : i < m + 1 /\ ~(m + 1 < i)
        /\ ~(m + 1 < m + 1)
    BY <2>5
  <2>7. \A j \in D : all[j] = matches[j]
    BY <2>4, <2>5
  <2>8. /\ at \in [D -> hits] /\ \A a, b \in D : at[a] = at[b] => a = b
        /\ \A t \in hits : \E j \in D : at[j] = t
    <3> HIDE DEF hits, D
    <3>1. at \in Bijection(D, hits)
      BY <1>1 DEF D
    <3>2. QED
      BY <3>1, Fun_BijectionProperties
  <2> HIDE DEF hits, D, all, m
  <2>9. /\ with \in [D \cup {m + 1} -> hits \cup {last}]
        /\ \A a, b \in D \cup {m + 1} : with[a] = with[b] => a = b
        /\ \A t \in hits \cup {last} : \E j \in D \cup {m + 1} : with[j] = t
    BY <2>1, <2>6, <2>8
  <2>10. with \in Bijection(DOMAIN all, more)
    <3> HIDE DEF with, more
    <3>1. with \in Bijection(D \cup {m + 1}, hits \cup {last})
      BY <2>9, Fun_IsBij
    <3>2. QED
      BY <2>1, <2>6, <3>1
  <2>11. \A j \in DOMAIN all : all[j] = [rule |-> rules[with[j]], level |-> Level[rules[with[j]]]]
    <3>1. \A j \in D : with[j] = at[j]
      BY <2>6
    <3>2. with[m + 1] = last
      OBVIOUS
    <3> HIDE DEF with
    <3>3. \A j \in D : all[j] = [rule |-> rules[with[j]], level |-> Level[rules[with[j]]]]
      BY <1>1, <2>7, <3>1 DEF D
    <3>4. all[m + 1] = [rule |-> rules[with[m + 1]], level |-> Level[rules[with[m + 1]]]]
      BY <2>4, <3>2 DEF match
    <3>5. QED
      BY <2>6, <3>3, <3>4
  <2>12. \A i, j \in DOMAIN all : i < j => with[i] < with[j]
    <3>1. \A j \in D : with[j] = at[j] /\ at[j] < last
      BY <1>3, <2>6, <2>8 DEF hits
    <3>2. with[m + 1] = last
      OBVIOUS
    <3>3. \A i, j \in D : i < j => at[i] < at[j]
      BY <1>1 DEF D
    <3> HIDE DEF with
    <3>4. QED
      BY <2>6, <3>1, <3>2, <3>3
  <2> HIDE DEF with, more
  <2>13. AreMatches(all, rules, last, f)
    BY <2>10, <2>11, <2>12 DEF AreMatches, more, last
  <2>14. QED
    BY <2>2, <2>13 DEF last
<1>6. QED
  BY <1>4, <1>5

-----------------------------------------------------------------------------
(* Every step keeps what the loops have found.                             *)

\* Initially no request has been sent.
LEMMA InitLoops == Init => LoopInv
<1> SUFFICES ASSUME Init PROVE LoopInv
  OBVIOUS
<1>1. inForce = [q \in Request |-> {}] /\ \A q \in Request : req[q] = Idle
  BY DEF Init
<1>2. QED
  BY <1>1 DEF LoopInv, LoopOf, Waits, OpenRequest, Idle

\* A step that changes one request, neither lists nor history.
LEMMA OneLoop ==
  ASSUME IInv, LoopInv, NEW q \in Request, NEW r, req' = [req EXCEPT ![q] = r],
         UNCHANGED <<lists, active, inForce, cleared>>,
         LoopOf(q, r, lists, active, inForce[q], cleared)
  PROVE  LoopInv'
<1>1. req' = [p \in Request |-> IF p = q THEN r ELSE req[p]]
  BY DEF IInv, RequestsInv
<1>2. QED
  BY <1>1 DEF LoopInv

\* A reload that reads a ruleset puts it in force for every request that
\* waits, one that finds no file empties the list under their loops.
LEMMA ReloadLoops == IInv /\ LoopInv /\ Reload => LoopInv'
<1> SUFFICES ASSUME IInv, LoopInv, Reload PROVE LoopInv'
  OBVIOUS
<1>1. /\ req' = req
      /\ inForce' = [q \in Request |-> IF q \in Waiting /\ rulesFile \in Ruleset
                                         THEN inForce[q] \cup {rulesFile} ELSE inForce[q]]
      /\ cleared' = IF rulesFile = Missing THEN cleared \cup Waiting ELSE cleared
  BY DEF Reload, requests
<1>2. inForce' \in [Request -> SUBSET Seq(Rule)]
  BY <1>1, RulesAssumption DEF LoopInv
<1>3. lists \in Seq(Seq(Rule)) /\ active \in DOMAIN lists
  BY DEF IInv, RulesInv
<1>4. ASSUME NEW q \in Request
      PROVE  LoopOf(q, req[q], lists', active', inForce'[q], cleared')
  <2> DEFINE r == req[q]
  <2>1. LoopOf(q, r, lists, active, inForce[q], cleared)
    BY DEF LoopInv
  <2>2. Waits(r) => q \in Waiting
    BY DEF Waits, Waiting
  <2>3. Waits(r) /\ r.rules = "running" => r.list \in DOMAIN lists
    BY DEF Waits, IInv, RequestsInv
  <2>4. inForce[q] \subseteq inForce'[q] /\ cleared \subseteq cleared'
    BY <1>1
  <2> SUFFICES LoopOf(q, r, lists', active', inForce'[q], cleared')
    OBVIOUS
  <2> HIDE DEF r
  <2>5. LoopOver(q, r, inForce[q], cleared) => LoopOver(q, r, inForce'[q], cleared')
    BY <2>4 DEF LoopOver
  <2>6. ASSUME NEW list, NEW later, later = list \/ (later = <<>> /\ q \in cleared')
        PROVE  LoopBegun(q, r, list, inForce[q], cleared)
                 => LoopBegun(q, r, later, inForce'[q], cleared')
    BY <2>4, <2>6 DEF LoopBegun, InUse
  <2>7. CASE rulesFile = Missing /\ lists' = [lists EXCEPT ![active] = <<>>] /\ UNCHANGED active
    <3>1. \A i \in DOMAIN lists : lists'[i] = lists[i] \/ lists'[i] = <<>>
      BY <1>3, <2>7
    <3>2. Waits(r) => q \in cleared'
      BY <1>1, <2>2, <2>7
    <3>3. lists'[active'] = <<>>
      BY <1>3, <2>7
    <3>4. Waits(r) /\ r.rules = "running" => LoopBegun(q, r, lists'[r.list], inForce'[q], cleared')
      BY <2>1, <2>3, <2>6, <3>1, <3>2 DEF LoopOf
    <3>5. QED
      BY <2>1, <2>4, <2>5, <3>2, <3>3, <3>4 DEF LoopOf, InUse
  <2>8. CASE rulesFile = Broken /\ UNCHANGED <<lists, active>>
    <3>1. LoopBegun(q, r, lists[r.list], inForce[q], cleared)
            => LoopBegun(q, r, lists[r.list], inForce'[q], cleared')
      BY <2>6
    <3>2. \A rules \in inForce[q] :
            InUse(lists[active], rules, q, cleared) => InUse(lists[active], rules, q, cleared')
      BY <2>4 DEF InUse
    <3>3. QED
      BY <2>1, <2>4, <2>5, <2>8, <3>1, <3>2 DEF LoopOf
  <2>9. CASE rulesFile \in Ruleset /\ lists' = Append(lists, rulesFile) /\ active' = Len(lists) + 1
    <3>1. lists'[active'] = rulesFile /\ \A i \in DOMAIN lists : lists'[i] = lists[i]
      <4>1. rulesFile \in Seq(Rule)
        BY <2>9, RulesAssumption
      <4>2. QED
        BY <1>3, <2>9, <4>1
    <3>2. Waits(r) => rulesFile \in inForce'[q]
      BY <1>1, <2>2, <2>9
    <3>3. Waits(r) /\ r.rules = "running" => LoopBegun(q, r, lists'[r.list], inForce'[q], cleared')
      BY <2>1, <2>3, <2>6, <3>1 DEF LoopOf
    <3>4. QED
      BY <2>1, <2>5, <3>1, <3>2, <3>3 DEF LoopOf, InUse
  <2>10. QED
    BY <2>7, <2>8, <2>9 DEF Reload, ReloadRules
<1>5. QED
  BY <1>1, <1>2, <1>4 DEF LoopInv

\* A new request has the active list's rules in force.
LEMMA SendLoops ==
  ASSUME NEW q \in Request, NEW kind \in {"rules", "hybrid"}, NEW f \in Flow
  PROVE  IInv /\ LoopInv /\ Send(q, kind, f) => LoopInv'
<1> SUFFICES ASSUME IInv, LoopInv, Send(q, kind, f) PROVE LoopInv'
  OBVIOUS
<1> DEFINE r == [stage |-> "waiting", kind |-> kind, flow |-> f, rules |-> "queued",
                 ml |-> IF kind = "hybrid" THEN "queued" ELSE "none",
                 list |-> 0, next |-> 1, matches |-> <<>>]
<1>1. /\ req' = [p \in Request |-> IF p = q THEN r ELSE req[p]]
      /\ UNCHANGED <<lists, active, cleared>>
  BY DEF Send, IInv, RequestsInv
<1>2. Rules \in Seq(Rule) /\ inForce' = [p \in Request |-> IF p = q THEN {Rules} ELSE inForce[p]]
  <2>1. Rules \in Seq(Rule)
    BY DEF IInv, RulesInv, Rules
  <2>2. inForce' = [inForce EXCEPT ![q] = {Rules}] /\ inForce \in [Request -> SUBSET Seq(Rule)]
    BY DEF Send, LoopInv
  <2>3. QED
    BY <2>1, <2>2
<1>3. LoopOf(q, r, lists, active, {Rules}, cleared)
  BY DEF LoopOf, InUse, Rules
<1> HIDE DEF r
<1>4. QED
  BY <1>1, <1>2, <1>3 DEF LoopInv

\* A loop begins with the list that is active then.
LEMMA StartLoops == IInv /\ LoopInv /\ StartJob => LoopInv'
<1> SUFFICES ASSUME IInv, LoopInv, StartJob PROVE LoopInv'
  OBVIOUS
<1> DEFINE head == queue[1]
           q == head.req
<1>1. queue \in Seq(Job) /\ queue # <<>> /\ Head(queue) = head
  BY DEF StartJob, IInv, QueueInv
<1>2. q \in Request /\ req[q] \in OpenRequest /\ (head.job = "rules" => req[q].rules = "queued")
  <2>1. 1 \in 1..Len(queue)
    BY <1>1
  <2>2. head \in Job /\ Queued(head, req)
    BY <1>1, <2>1 DEF IInv, QueueInv
  <2> HIDE DEF head
  <2>3. QED
    BY <2>2 DEF Job, Queued
<1>3. UNCHANGED <<lists, active, inForce, cleared>>
  BY DEF StartJob, engine, history
<1>4. req' = IF head.job = "rules"
               THEN [req EXCEPT ![q].rules = "running", ![q].list = active]
               ELSE [req EXCEPT ![q].ml = "running"]
  BY <1>1 DEF StartJob
<1>5. LoopOf(q, req[q], lists, active, inForce[q], cleared)
  BY <1>2 DEF LoopInv
<1> HIDE DEF head
<1>6. CASE head.job = "rules"
  <2> DEFINE r == [req[q] EXCEPT !.rules = "running", !.list = active]
  <2>1. req' = [req EXCEPT ![q] = r]
    BY <1>2, <1>4, <1>6 DEF IInv, RequestsInv
  <2>2. /\ r.rules = "running" /\ r.list = active /\ r.stage = req[q].stage
        /\ r.next = req[q].next /\ r.matches = req[q].matches /\ r.flow = req[q].flow
    BY <1>2 DEF OpenRequest
  <2>3. r.stage # "answered"
    BY <1>2, <2>2 DEF OpenRequest
  <2> HIDE DEF r
  <2>4. ASSUME Waits(r)
        PROVE  LoopBegun(q, r, lists[active], inForce[q], cleared)
    <3>1. /\ req[q].next = 1 /\ req[q].matches = <<>>
          /\ \E rules \in inForce[q] : InUse(lists[active], rules, q, cleared)
      BY <1>2, <1>5, <1>6, <2>2, <2>4 DEF Waits, LoopOf
    <3>2. PICK rules \in inForce[q] : InUse(lists[active], rules, q, cleared)
      BY <3>1
    <3>3. rules \in Seq(Rule)
      BY <1>2 DEF LoopInv
    <3>4. 0 \in 0..Len(rules) /\ 1 = 0 + 1
      BY <3>3
    <3>5. AreMatches(r.matches, rules, 0, r.flow)
      BY <2>2, <3>1, NoMatchesYet
    <3>6. r.next = 0 + 1
      BY <2>2, <3>1
    <3>7. QED
      BY <3>2, <3>4, <3>5, <3>6 DEF LoopBegun
  <2>5. LoopOf(q, r, lists, active, inForce[q], cleared)
    BY <2>2, <2>3, <2>4 DEF LoopOf
  <2>6. QED
    BY <1>2, <1>3, <2>1, <2>5, OneLoop
<1>7. CASE head.job # "rules"
  <2> DEFINE r == [req[q] EXCEPT !.ml = "running"]
  <2>1. req' = [req EXCEPT ![q] = r]
    BY <1>2, <1>4, <1>7 DEF IInv, RequestsInv
  <2>2. /\ r.rules = req[q].rules /\ r.list = req[q].list /\ r.stage = req[q].stage
        /\ r.next = req[q].next /\ r.matches = req[q].matches /\ r.flow = req[q].flow
    BY <1>2 DEF OpenRequest
  <2> HIDE DEF r
  <2>3. LoopOf(q, r, lists, active, inForce[q], cleared)
    BY <1>2, <1>5, <2>2 DEF LoopOf, Waits, LoopBegun, LoopOver
  <2>4. QED
    BY <1>2, <1>3, <2>1, <2>3, OneLoop
<1>8. QED
  BY <1>6, <1>7

\* A turn finds the matches of one rule more; the loop ends after the last,
\* or when the list is empty under it.
LEMMA TurnLoops ==
  ASSUME NEW q \in Request
  PROVE  IInv /\ LoopInv /\ EvaluateNext(q) => LoopInv'
<1> SUFFICES ASSUME IInv, LoopInv, EvaluateNext(q) PROVE LoopInv'
  OBVIOUS
<1> DEFINE list == lists[req[q].list]
           next == req[q].next
           flow == req[q].flow
           found == Matched(req[q].matches, list[next], flow)
           ended == [req[q] EXCEPT !.rules = "done"]
           turned == [req[q] EXCEPT !.next = @ + 1, !.matches = found]
<1>1. req[q].rules = "running" /\ req[q].stage # "unsent" /\ req[q] \in OpenRequest
  BY SentRequest DEF EvaluateNext, Sent, Answered
<1>2. req' = [req EXCEPT ![q] = IF next > Len(list) THEN ended ELSE turned]
  BY DEF EvaluateNext, IInv, RequestsInv
<1>3. UNCHANGED <<lists, active, inForce, cleared>>
  BY DEF EvaluateNext, engine, history
<1>4. LoopOf(q, req[q], lists, active, inForce[q], cleared)
  BY DEF LoopInv
<1>5. next \in Nat \ {0} /\ req[q].matches \in Seq(MatchRecord) /\ req[q].stage # "answered"
  BY <1>1 DEF OpenRequest
<1>6. ASSUME Waits(req[q])
      PROVE  \E rules \in inForce[q] : \E k \in 0..Len(rules) :
               /\ rules \in Seq(Rule) /\ InUse(list, rules, q, cleared)
               /\ next = k + 1 /\ AreMatches(req[q].matches, rules, k, flow)
  BY <1>1, <1>4, <1>6 DEF LoopOf, LoopBegun, LoopInv
<1>7. CASE next > Len(list)
  <2>1. req' = [req EXCEPT ![q] = ended]
    BY <1>2, <1>7
  <2>2. /\ ended.rules = "done" /\ ended.matches = req[q].matches /\ ended.flow = flow
        /\ ended.stage = req[q].stage /\ (ended \in OpenRequest /\ Waits(ended) => Waits(req[q]))
    BY <1>1 DEF OpenRequest, Waits
  <2> HIDE DEF ended
  <2>3. ASSUME Waits(ended) PROVE LoopOver(q, ended, inForce[q], cleared)
    <3>1. PICK rules \in inForce[q] : \E k \in 0..Len(rules) :
            /\ rules \in Seq(Rule) /\ InUse(list, rules, q, cleared)
            /\ next = k + 1 /\ AreMatches(req[q].matches, rules, k, flow)
      BY <1>6, <2>2, <2>3 DEF Waits
    <3>2. PICK k \in 0..Len(rules) :
            /\ rules \in Seq(Rule) /\ InUse(list, rules, q, cleared)
            /\ next = k + 1 /\ AreMatches(req[q].matches, rules, k, flow)
      BY <3>1
    <3> HIDE DEF list, next, flow
    <3>3. k < Len(rules) => q \in cleared
      BY <1>7, <3>2 DEF InUse
    <3>4. AreMatches(ended.matches, rules, k, ended.flow)
      BY <2>2, <3>2
    <3>5. QED
      BY <3>3, <3>4 DEF LoopOver
  <2>4. LoopOf(q, ended, lists, active, inForce[q], cleared)
    BY <1>5, <2>2, <2>3 DEF LoopOf
  <2>5. QED
    BY <1>3, <2>1, <2>4, OneLoop
<1>8. CASE ~(next > Len(list))
  <2>1. req' = [req EXCEPT ![q] = turned]
    BY <1>2, <1>8
  <2>2. /\ turned.next = next + 1 /\ turned.matches = found /\ turned.flow = flow
        /\ turned.rules = "running" /\ turned.stage = req[q].stage /\ turned.list = req[q].list
    BY <1>1 DEF OpenRequest
  <2> HIDE DEF turned
  <2>3. ASSUME Waits(turned) PROVE LoopBegun(q, turned, list, inForce[q], cleared)
    <3>1. PICK rules \in inForce[q] : \E k \in 0..Len(rules) :
            /\ rules \in Seq(Rule) /\ InUse(list, rules, q, cleared)
            /\ next = k + 1 /\ AreMatches(req[q].matches, rules, k, flow)
      BY <1>1, <1>6, <2>2, <2>3 DEF Waits
    <3>2. PICK k \in 0..Len(rules) :
            /\ rules \in Seq(Rule) /\ InUse(list, rules, q, cleared)
            /\ next = k + 1 /\ AreMatches(req[q].matches, rules, k, flow)
      BY <3>1
    <3> HIDE DEF list, next, flow
    <3>3. list = rules
      BY <1>5, <1>8, <3>2 DEF InUse
    <3>4. k \in Nat /\ k + 1 \in 1..Len(rules) /\ k + 1 \in 0..Len(rules)
      BY <1>8, <3>2, <3>3
    <3>5. AreMatches(found, rules, k + 1, flow)
      BY <1>5, <3>2, <3>3, <3>4, OneMoreRule
    <3>6. AreMatches(turned.matches, rules, k + 1, turned.flow) /\ turned.next = (k + 1) + 1
      BY <2>2, <3>2, <3>5
    <3>7. QED
      BY <3>2, <3>4, <3>6 DEF LoopBegun
  <2>4. LoopOf(q, turned, lists, active, inForce[q], cleared)
    BY <1>5, <2>2, <2>3 DEF LoopOf
  <2>5. QED
    BY <1>3, <2>1, <2>4, OneLoop
<1>9. QED
  BY <1>7, <1>8

\* A loop that a rule has ended by raising answers for nothing.
LEMMA RaisesLoops ==
  ASSUME NEW q \in Request
  PROVE  IInv /\ LoopInv /\ EvaluateRaises(q) => LoopInv'
<1> SUFFICES ASSUME IInv, LoopInv, EvaluateRaises(q) PROVE LoopInv'
  OBVIOUS
<1> DEFINE r == [req[q] EXCEPT !.rules = "failed", !.matches = <<>>]
<1>1. req[q].rules = "running" /\ req[q].stage # "unsent" /\ req[q] \in OpenRequest
  BY SentRequest DEF EvaluateRaises, Sent, Answered
<1>2. req' = [req EXCEPT ![q] = r]
  BY DEF EvaluateRaises, IInv, RequestsInv
<1>3. UNCHANGED <<lists, active, inForce, cleared>>
  BY DEF EvaluateRaises, engine, history
<1>4. r.rules = "failed" /\ r.stage # "answered"
  BY <1>1 DEF OpenRequest
<1> HIDE DEF r
<1>5. LoopOf(q, r, lists, active, inForce[q], cleared)
  BY <1>4 DEF LoopOf
<1>6. QED
  BY <1>2, <1>3, <1>5, OneLoop

\* A record that differs in what its loop does not touch.
LEMMA AsFound ==
  ASSUME IInv, LoopInv, NEW q \in Request, NEW r, req[q] \in OpenRequest,
         r.rules = req[q].rules, r.list = req[q].list, r.next = req[q].next,
         r.matches = req[q].matches, r.flow = req[q].flow,
         Waits(r) => Waits(req[q]), r.stage = "answered" => Waits(req[q]) /\ r.rules = "done"
  PROVE  LoopOf(q, r, lists, active, inForce[q], cleared)
<1>1. LoopOf(q, req[q], lists, active, inForce[q], cleared)
  BY DEF LoopInv
<1>2. QED
  BY <1>1 DEF LoopOf, LoopBegun, LoopOver

\* The end of an ML job leaves what has been evaluated of the rules as it was.
LEMMA FlowLoops ==
  ASSUME NEW q \in Request, NEW result \in {"done", "failed"}
  PROVE  IInv /\ LoopInv /\ EvaluateFlow(q, result) => LoopInv'
<1> SUFFICES ASSUME IInv, LoopInv, EvaluateFlow(q, result) PROVE LoopInv'
  OBVIOUS
<1> DEFINE r == [req[q] EXCEPT !.ml = result]
<1>1. req[q].ml = "running" /\ req[q].stage # "unsent" /\ req[q] \in OpenRequest
  BY SentRequest DEF EvaluateFlow, Sent, Answered
<1>2. req' = [req EXCEPT ![q] = r]
  BY DEF EvaluateFlow, IInv, RequestsInv
<1>3. UNCHANGED <<lists, active, inForce, cleared>>
  BY DEF EvaluateFlow, engine, history
<1>4. LoopOf(q, r, lists, active, inForce[q], cleared)
  BY <1>1, AsFound DEF OpenRequest, Waits
<1> HIDE DEF r
<1>5. QED
  BY <1>2, <1>3, <1>4, OneLoop

\* So does the answer to a request of which a job failed.
LEMMA FailureLoops ==
  ASSUME NEW q \in Request
  PROVE  IInv /\ LoopInv /\ AnswerFailure(q) => LoopInv'
<1> SUFFICES ASSUME IInv, LoopInv, AnswerFailure(q) PROVE LoopInv'
  OBVIOUS
<1> DEFINE r == [req[q] EXCEPT !.stage = "failed"]
<1>1. req[q].stage = "waiting" /\ req[q] \in OpenRequest
  BY SentRequest DEF AnswerFailure, Waiting, Answered
<1>2. req' = [req EXCEPT ![q] = r]
  BY DEF AnswerFailure, IInv, RequestsInv
<1>3. UNCHANGED <<lists, active, inForce, cleared>>
  BY DEF AnswerFailure, engine, history
<1>4. LoopOf(q, r, lists, active, inForce[q], cleared)
  BY <1>1, AsFound DEF OpenRequest, Waits
<1> HIDE DEF r
<1>5. QED
  BY <1>2, <1>3, <1>4, OneLoop

\* The answer has what the loop found.
LEMMA AnswerLoops ==
  ASSUME NEW q \in Request
  PROVE  IInv /\ LoopInv /\ Answer(q) => LoopInv'
<1> SUFFICES ASSUME IInv, LoopInv, Answer(q) PROVE LoopInv'
  OBVIOUS
<1> DEFINE report == HybridReport(Ml(req[q].flow), req[q].matches)
           r == [stage |-> "answered", kind |-> req[q].kind, flow |-> req[q].flow, rules |-> "done",
                 ml |-> req[q].ml, matches |-> req[q].matches,
                 report |-> IF req[q].kind = "rules" THEN None ELSE report,
                 technique |-> IF req[q].kind = "rules" THEN None
                               ELSE Technique(mapping, report.class)]
<1>1. req[q].rules = "done" /\ req[q].stage = "waiting"
  BY DEF Answer, Waiting
<1>2. req[q] \in OpenRequest
  BY <1>1 DEF IInv, RequestsInv, Idle, LostRequest, Answered
<1>3. req' = [req EXCEPT ![q] = r]
  BY DEF Answer, IInv, RequestsInv
<1>4. UNCHANGED <<lists, active, inForce, cleared>>
  BY DEF Answer, engine, history
<1>5. LoopOf(q, req[q], lists, active, inForce[q], cleared)
  BY DEF LoopInv
<1>6. LoopOver(q, req[q], inForce[q], cleared)
  BY <1>1, <1>2, <1>5 DEF LoopOf, Waits
<1>7. r.stage = "answered" /\ r.matches = req[q].matches /\ r.flow = req[q].flow
  OBVIOUS
<1> HIDE DEF r
<1>8. LoopOf(q, r, lists, active, inForce[q], cleared)
  BY <1>6, <1>7 DEF LoopOf, Waits, LoopOver
<1>9. QED
  BY <1>3, <1>4, <1>8, OneLoop

\* Only answers survive a restart.
LEMMA RestartLoops == IInv /\ LoopInv /\ RestartApi => LoopInv'
<1> SUFFICES ASSUME IInv, LoopInv, RestartApi PROVE LoopInv'
  OBVIOUS
<1> DEFINE lost == [stage |-> "failed", rules |-> "lost", ml |-> "lost"]
<1>1. /\ req' = [q \in Request |-> IF q \in Sent /\ req[q].stage # "answered" THEN lost ELSE req[q]]
      /\ UNCHANGED <<inForce, cleared>>
  BY DEF RestartApi, history
<1>2. lost.stage = "failed" /\ lost \notin OpenRequest
  BY DEF OpenRequest
<1> HIDE DEF lost
<1>3. ASSUME NEW q \in Request
      PROVE  LoopOf(q, req'[q], lists', active', inForce[q], cleared)
  <2>1. LoopOf(q, req[q], lists, active, inForce[q], cleared)
    BY DEF LoopInv
  <2>2. CASE q \in Sent /\ req[q].stage # "answered"
    BY <1>1, <1>2, <2>2 DEF LoopOf, Waits
  <2>3. CASE ~(q \in Sent /\ req[q].stage # "answered")
    <3>1. req'[q] = req[q] /\ ~Waits(req[q])
      BY <1>1, <2>3 DEF Sent, Waits
    <3>2. QED
      BY <2>1, <3>1 DEF LoopOf
  <2>4. QED
    BY <2>2, <2>3
<1>4. QED
  BY <1>1, <1>3 DEF LoopInv

\* Every step keeps it.
LEMMA LoopStep == IInv /\ LoopInv /\ [Next]_vars => LoopInv'
<1> SUFFICES ASSUME IInv, LoopInv, [Next]_vars PROVE LoopInv'
  OBVIOUS
<1>1. ASSUME UNCHANGED <<lists, active, req, inForce, cleared>> PROVE LoopInv'
  BY <1>1 DEF LoopInv
<1>2. ASSUME NEW content \in Ruleset \cup {Missing, Broken}, EditRules(content) PROVE LoopInv'
  BY <1>1, <1>2 DEF EditRules, engine, requests, history
<1>3. ASSUME NEW content \in MappingFile \cup {Missing, Broken}, EditMapping(content) PROVE LoopInv'
  BY <1>1, <1>3 DEF EditMapping, engine, requests, history
<1>4. ASSUME NEW f \in Flow, NEW ok \in BOOLEAN, Analyse(f, ok) PROVE LoopInv'
  BY <1>1, <1>4 DEF Analyse, engine, requests, history
<1>5. CASE RestartWorker
  BY <1>1, <1>5 DEF RestartWorker, engine, requests, history
<1>6. CASE UNCHANGED vars
  BY <1>1, <1>6 DEF vars, engine, requests, history
<1>7. QED
  BY <1>2, <1>3, <1>4, <1>5, <1>6, ReloadLoops, SendLoops, StartLoops, TurnLoops,
     RaisesLoops, FlowLoops, AnswerLoops, FailureLoops, RestartLoops DEF Next

\* However reloads fall between the turns of its loop, an answer has the
\* matches of one ruleset that was in force (MatchesOfOneRuleset): evaluate
\* of engine.py reads self.rules once, and reload gives it a new list.
THEOREM OneRulesetPerAnswer == Spec => []MatchesOfOneRuleset
<1>1. Init => IInv /\ LoopInv
  BY InitInv, InitLoops
<1>2. IInv /\ LoopInv /\ [Next]_vars => (IInv /\ LoopInv)'
  BY StepInv, LoopStep
<1>3. LoopInv => MatchesOfOneRuleset
  BY DEF LoopInv, LoopOf, LoopOver, MatchesOfOneRuleset, Sent
<1>4. QED
  BY <1>1, <1>2, <1>3, PTL DEF Spec

-----------------------------------------------------------------------------
(* What the engine and the mappers hold: a ruleset, or nothing; and the     *)
(* beginning of one mapping file.                                          *)

Held(m) == m = Unloaded \/ m = <<>> \/ \E file \in MappingFile : IsPrefix(m, file)

FilesInv ==
  /\ \A i \in DOMAIN lists : lists[i] \in Ruleset \cup {<<>>}
  /\ Rules = <<>> => origin \in {"nothing", "empty"}
  /\ mappingFile \in MappingFile \cup {Missing, Broken}
  /\ Held(mapping) /\ Held(workerMapping)

\* A set of natural numbers with a member has a least one.
LEMMA LeastNumber ==
  ASSUME NEW S, S \subseteq Nat, S # {}
  PROVE  Min(S) \in S
<1>1. PICK x \in S : \A y \in S : ~(<<y, x>> \in OpToRel(<, Nat))
  BY NatLessThanWellFounded, WFMin
<1>2. \A y \in S : x <= y
  <2>1. ASSUME NEW y \in S PROVE x <= y
    <3>1. <<y, x>> \in Nat \X Nat /\ x \in Nat /\ y \in Nat
      OBVIOUS
    <3>2. ~(y < x)
      BY <1>1, <3>1 DEF OpToRel
    <3>3. QED
      BY <3>1, <3>2
  <2>2. QED
    BY <2>1
<1>3. QED
  BY <1>2 DEF Min

\* load_mappings keeps what it had or holds the beginning of the file.
LEMMA LoadedHeld ==
  ASSUME NEW old, NEW file \in MappingFile \cup {Missing, Broken}, Held(old)
  PROVE  Held(LoadMappings(old, file))
<1>1. CASE file \in {Missing, Broken}
  BY <1>1 DEF LoadMappings
<1>2. CASE file \notin {Missing, Broken}
  <2> DEFINE stops == {i \in DOMAIN file : file[i].technique = None} \cup {Len(file)}
             m == Min(stops)
             held == SubSeq(file, 1, m)
  <2>1. file \in Seq(Range(file)) /\ file \in MappingFile
    BY <1>2, FilesAssumption
  <2>2. stops \subseteq 0..Len(file) /\ stops # {} /\ 0..Len(file) \subseteq Nat
    BY <2>1
  <2>3. LoadMappings(old, file) = held
    BY <1>2 DEF LoadMappings
  <2> HIDE DEF stops
  <2>4. m \in stops
    BY <2>2, LeastNumber
  <2>5. m \in 0..Len(file)
    BY <2>2, <2>4
  <2> HIDE DEF m
  <2>6. Len(held) = m /\ \A i \in 1..m : held[i] = file[i]
    BY <2>1, <2>5
  <2>7. IsPrefix(held, file)
    BY <2>1, <2>5, <2>6 DEF IsPrefix
  <2>8. QED
    BY <2>1, <2>3, <2>7 DEF Held
<1>3. QED
  BY <1>1, <1>2

\* So does a mapper that is made at its first use.
LEMMA MapperHeld ==
  ASSUME NEW m, NEW file \in MappingFile \cup {Missing, Broken}, Held(m)
  PROVE  Held(Mapper(m, file))
  BY LoadedHeld DEF Mapper, Held

\* A new engine has the ruleset of the file, or no rules; and where these
\* come from is recorded.
LEMMA NewRulesOfFile ==
  ASSUME NEW file \in Ruleset \cup {Missing, Broken}
  PROVE  /\ NewRules(file) \in Ruleset \cup {<<>>}
         /\ NewRules(file) = <<>> => Origin(file) \in {"nothing", "empty"}
  BY DEF NewRules, Origin

\* The files, the engine's list and both mappers are whole at the start.
LEMMA InitFiles == Init => FilesInv
<1> SUFFICES ASSUME Init PROVE FilesInv
  OBVIOUS
<1>1. rulesFile \in Ruleset \cup {Missing, Broken} /\ mappingFile \in MappingFile \cup {Missing, Broken}
  BY FilesAssumption DEF Init
<1>2. lists = <<NewRules(rulesFile)>> /\ active = 1
      /\ origin = Origin(rulesFile)
  BY DEF Init
<1>3. Held(mapping) /\ Held(workerMapping)
  BY DEF Init, Held
<1>4. QED
  BY <1>1, <1>2, <1>3, NewRulesOfFile DEF FilesInv, Rules

\* A file that does not parse changes no list; without a file the active one
\* is emptied and the rules come from nothing; a file without a usable rule
\* leaves an empty list.
LEMMA ReloadFiles == IInv /\ FilesInv /\ Reload => FilesInv'
<1> SUFFICES ASSUME IInv, FilesInv, Reload PROVE FilesInv'
  OBVIOUS
<1> USE DEF FilesInv
<1>1. ReloadRules /\ UNCHANGED <<mappingFile, workerMapping>>
      /\ mapping' = LoadMappings(Mapper(mapping, mappingFile), mappingFile)
      /\ origin' = IF rulesFile = Broken THEN origin ELSE Origin(rulesFile)
  BY DEF Reload, files, worker
<1>2. Held(mapping')
  BY <1>1, MapperHeld, LoadedHeld
<1>3. lists \in Seq(Seq(Rule)) /\ active \in DOMAIN lists
  BY DEF IInv, RulesInv
<1>4. /\ \A i \in DOMAIN lists' : lists'[i] \in Ruleset \cup {<<>>}
      /\ lists'[active'] = <<>> => origin' \in {"nothing", "empty"}
  <2>1. CASE rulesFile = Missing /\ lists' = [lists EXCEPT ![active] = <<>>] /\ UNCHANGED active
    <3>1. origin' = "nothing"
      BY <1>1, <2>1, FilesAssumption DEF Origin
    <3>2. QED
      BY <1>1, <1>3, <2>1, <3>1
  <2>2. CASE rulesFile = Broken /\ UNCHANGED <<lists, active>>
    BY <1>1, <2>2 DEF Rules
  <2>3. CASE rulesFile \in Ruleset /\ lists' = Append(lists, rulesFile) /\ active' = Len(lists) + 1
    <3>1. rulesFile \in Seq(Rule) /\ rulesFile # Broken
      BY <2>3, RulesAssumption, FilesAssumption
    <3>2. /\ DOMAIN lists' = 1..(Len(lists) + 1) /\ lists'[active'] = rulesFile
          /\ \A i \in 1..Len(lists) : lists'[i] = lists[i]
      BY <1>3, <2>3, <3>1
    <3>3. rulesFile = <<>> => origin' \in {"nothing", "empty"}
      BY <1>1, <3>1 DEF Origin
    <3>4. QED
      BY <1>3, <2>3, <3>2, <3>3
  <2>4. QED
    BY <1>1, <2>1, <2>2, <2>3 DEF ReloadRules
<1>5. QED
  BY <1>1, <1>2, <1>4 DEF Rules

\* Every step keeps it.
LEMMA FilesStep == IInv /\ FilesInv /\ [Next]_vars => FilesInv'
<1> SUFFICES ASSUME IInv, FilesInv, [Next]_vars PROVE FilesInv'
  OBVIOUS
<1>1. ASSUME UNCHANGED <<lists, active, origin>>,
             mappingFile' \in MappingFile \cup {Missing, Broken},
             Held(mapping'), Held(workerMapping')
      PROVE  FilesInv'
  BY <1>1 DEF FilesInv, Rules
<1>2. Held(mapping) /\ Held(workerMapping) /\ mappingFile \in MappingFile \cup {Missing, Broken}
  BY DEF FilesInv
<1>3. ASSUME UNCHANGED <<lists, active, origin, mapping, workerMapping, mappingFile>> PROVE FilesInv'
  BY <1>1, <1>2, <1>3
<1>4. ASSUME NEW content \in Ruleset \cup {Missing, Broken}, EditRules(content) PROVE FilesInv'
  BY <1>3, <1>4 DEF EditRules, engine, worker
<1>5. ASSUME NEW content \in MappingFile \cup {Missing, Broken}, EditMapping(content) PROVE FilesInv'
  BY <1>1, <1>2, <1>5 DEF EditMapping, engine, worker
<1>6. ASSUME NEW q \in Request, NEW kind \in {"rules", "hybrid"}, NEW f \in Flow, Send(q, kind, f)
      PROVE  FilesInv'
  <2>1. UNCHANGED <<lists, active, origin, mappingFile, workerMapping>>
        /\ mapping' = IF kind = "hybrid" THEN Mapper(mapping, mappingFile) ELSE mapping
    BY <1>6 DEF Send, files, worker
  <2>2. Held(mapping')
    BY <1>2, <2>1, MapperHeld
  <2>3. QED
    BY <1>1, <1>2, <2>1, <2>2
<1>7. CASE StartJob
  BY <1>3, <1>7 DEF StartJob, files, engine, worker
<1>8. ASSUME NEW q \in Request, EvaluateNext(q) PROVE FilesInv'
  BY <1>3, <1>8 DEF EvaluateNext, files, engine, worker
<1>9. ASSUME NEW q \in Request, NEW result \in {"done", "failed"},
             EvaluateRaises(q) \/ EvaluateFlow(q, result)
      PROVE  FilesInv'
  BY <1>3, <1>9 DEF EvaluateRaises, EvaluateFlow, files, engine, worker
<1>10. ASSUME NEW q \in Request, Answer(q) PROVE FilesInv'
  BY <1>3, <1>10 DEF Answer, files, engine, worker
<1>11. ASSUME NEW q \in Request, AnswerFailure(q) PROVE FilesInv'
  BY <1>3, <1>11 DEF AnswerFailure, files, engine, worker
<1>12. CASE RestartApi
  <2>1. /\ lists' = <<NewRules(rulesFile)>> /\ active' = 1
        /\ origin' = Origin(rulesFile)
        /\ mapping' = Unloaded /\ UNCHANGED <<mappingFile, workerMapping>>
    BY <1>12 DEF RestartApi, files, worker
  <2>2. rulesFile \in Ruleset \cup {Missing, Broken}
    BY DEF IInv, RulesInv
  <2>3. Held(mapping')
    BY <2>1 DEF Held
  <2>4. QED
    BY <1>2, <2>1, <2>2, <2>3, NewRulesOfFile DEF FilesInv, Rules
<1>13. ASSUME NEW f \in Flow, NEW ok \in BOOLEAN, Analyse(f, ok) PROVE FilesInv'
  <2>1. UNCHANGED <<lists, active, origin, mappingFile, mapping>>
        /\ workerMapping' = Mapper(workerMapping, mappingFile)
    BY <1>13 DEF Analyse, files, engine
  <2>2. Held(workerMapping')
    BY <1>2, <2>1, MapperHeld
  <2>3. QED
    BY <1>1, <1>2, <2>1, <2>2
<1>14. CASE RestartWorker
  <2>1. UNCHANGED <<lists, active, origin, mappingFile, mapping>> /\ workerMapping' = Unloaded
    BY <1>14 DEF RestartWorker, files, engine
  <2>2. QED
    BY <1>1, <1>2, <2>1 DEF Held
<1>15. CASE UNCHANGED vars
  BY <1>3, <1>15 DEF vars, files, engine, worker
<1>16. QED
  BY <1>4, <1>5, <1>6, <1>7, <1>8, <1>9, <1>10, <1>11, <1>12, <1>13, <1>14, <1>15, ReloadFiles DEF Next

\* A rules file that does not parse disarms no running API, one that is gone
\* or parses to no rule does, and a mapper holds the beginning of one file
\* (ReloadsKeepOneFile): load_rules of engine.py and load_mappings of
\* mitre_mapper.py, for whatever files.
THEOREM ReloadsAreWhole == Spec => []ReloadsKeepOneFile
<1>1. Init => IInv /\ FilesInv
  BY InitInv, InitFiles
<1>2. IInv /\ FilesInv /\ [Next]_vars => (IInv /\ FilesInv)'
  BY StepInv, FilesStep
<1>3. FilesInv => ReloadsKeepOneFile
  BY DEF FilesInv, Held, ReloadsKeepOneFile
<1>4. QED
  BY <1>1, <1>2, <1>3, PTL DEF Spec

-----------------------------------------------------------------------------
(* The two fusions.                                                        *)

\* What a report and an alert for the same flow and matches have in common,
\* and where they differ.
LEMMA FusionsCompared ==
  ASSUME NEW f \in Flow, NEW matches
  PROVE  LET report == HybridReport(Ml(f), matches)
             alert  == WorkerAlert(Ml(f), matches)
         IN  /\ report.threat = alert.threat
             /\ report.class = alert.class
             /\ Ml(f).threat => report.severity = alert.severity /\ report.conf = alert.conf
             /\ ~Ml(f).threat /\ report.severity # alert.severity =>
                  alert.severity = IF AnyCritical(matches) THEN "CRITICAL" ELSE "LOW"
<1>1. ~Ml(f).threat => Ml(f).severity = "LOW"
  BY MlSeverity
<1>2. QED
  BY <1>1 DEF HybridReport, WorkerAlert

\* For every flow, whatever its verdict and the rules that match it, the API
\* and the hybrid part of the worker's task agree on the threat
\* (FusionsAgree).
THEOREM TwoFusionsAgree == Spec => []FusionsAgree
<1>1. Init => IInv
  BY InitInv
<1>2. IInv /\ [Next]_vars => IInv'
  BY StepInv
<1>3. IInv => FusionsAgree
  <2> SUFFICES ASSUME IInv, Analysed, NEW q \in Reported,
                      req[q].flow = analysis.flow, req[q].matches = analysis.matches
               PROVE  LET f      == analysis.flow
                          report == req[q].report
                          alert  == analysis.alert
                      IN  /\ report.threat <=> analysis.stored
                          /\ report.class = alert.class
                          /\ Ml(f).threat => report.severity = alert.severity /\ report.conf = alert.conf
                          /\ ~Ml(f).threat /\ report.severity # alert.severity =>
                               alert.severity = IF AnyCritical(analysis.matches) THEN "CRITICAL" ELSE "LOW"
    BY DEF FusionsAgree
  <2> DEFINE f == analysis.flow
             matches == analysis.matches
  <2>1. q \in Request /\ req[q].stage = "answered" /\ req[q].kind = "hybrid"
    BY DEF Reported, Sent
  <2>2. Answered(req[q])
    BY <2>1 DEF IInv, RequestsInv, Idle, OpenRequest, LostRequest
  <2>3. req[q].report = HybridReport(Ml(f), matches)
    BY <2>1, <2>2 DEF Answered
  <2>4. f \in Flow /\ analysis.alert = WorkerAlert(Ml(f), matches) /\ analysis.stored = analysis.alert.threat
    BY DEF IInv, AnalysisInv
  <2> HIDE DEF f, matches
  <2>5. QED
    BY <2>3, <2>4, FusionsCompared DEF f, matches
<1>4. QED
  BY <1>1, <1>2, <1>3, PTL DEF Spec

-----------------------------------------------------------------------------
(* The type invariant: every queued job is in the queue, and no more jobs   *)
(* run than the pool has threads.                                          *)

Running(requested, job) ==
  {q \in Request : requested[q].stage # "unsent" /\ requested[q][job] = "running"}

Bounded(requested) ==
  /\ IsFiniteSet(Running(requested, "rules")) /\ IsFiniteSet(Running(requested, "ml"))
  /\ Cardinality(Running(requested, "rules")) + Cardinality(Running(requested, "ml")) <= Pool

HasJob(jobs, q, n) == \E i \in DOMAIN jobs : jobs[i] = [req |-> q, job |-> n]

Listed(requested, jobs) ==
  \A q \in Request : requested[q] \in OpenRequest =>
    /\ requested[q].rules = "queued" => HasJob(jobs, q, "rules")
    /\ requested[q].ml = "queued" => HasJob(jobs, q, "ml")

PoolInv ==
  /\ Bounded(req) /\ Listed(req, queue)
  /\ edits \in 0..MaxEdits /\ reloads \in 0..MaxReloads

\* No job runs more than before.
LEMMA FewerRun ==
  ASSUME Bounded(req), NEW requested,
         Running(requested, "rules") \subseteq Running(req, "rules"),
         Running(requested, "ml") \subseteq Running(req, "ml")
  PROVE  Bounded(requested)
<1> DEFINE a == Running(req, "rules")  b == Running(req, "ml")
           c == Running(requested, "rules")  d == Running(requested, "ml")
<1>1. IsFiniteSet(a) /\ IsFiniteSet(b) /\ Cardinality(a) + Cardinality(b) <= Pool
  BY DEF Bounded
<1>2. c \subseteq a /\ d \subseteq b
  OBVIOUS
<1> HIDE DEF a, b, c, d
<1>3. /\ IsFiniteSet(c) /\ IsFiniteSet(d) /\ Cardinality(c) <= Cardinality(a)
      /\ Cardinality(d) <= Cardinality(b)
  BY <1>1, <1>2, FS_Subset
<1>4. /\ Cardinality(a) \in Nat /\ Cardinality(b) \in Nat
      /\ Cardinality(c) \in Nat /\ Cardinality(d) \in Nat /\ Pool \in Nat
  BY <1>1, <1>3, FS_CardinalityType, PoolAssumption
<1>5. Cardinality(c) + Cardinality(d) <= Pool
  BY <1>1, <1>3, <1>4
<1>6. QED
  BY <1>3, <1>5 DEF Bounded, c, d

\* At the start nothing runs and nothing is queued.
LEMMA InitPool == Init => PoolInv
<1> SUFFICES ASSUME Init PROVE PoolInv
  OBVIOUS
<1>1. req = [q \in Request |-> Idle] /\ edits = 0 /\ reloads = 0
  BY DEF Init
<1>2. Running(req, "rules") = {} /\ Running(req, "ml") = {}
  BY <1>1 DEF Running, Idle
<1>3. IsFiniteSet({}) /\ Cardinality({}) = 0
  BY FS_EmptySet
<1>4. Bounded(req)
  BY <1>2, <1>3, PoolAssumption DEF Bounded
<1>5. Listed(req, queue)
  BY <1>1 DEF Listed, Idle, OpenRequest
<1>6. QED
  BY <1>1, <1>4, <1>5, PoolAssumption DEF PoolInv

\* A step that changes one request and leaves the queue.
LEMMA OneInPool ==
  ASSUME IInv, PoolInv, NEW q \in Request, NEW r, req' = [req EXCEPT ![q] = r],
         UNCHANGED <<queue, edits, reloads>>,
         r.rules = "running" => q \in Running(req, "rules"),
         r.ml = "running" => q \in Running(req, "ml"),
         r \in OpenRequest => /\ req[q] \in OpenRequest
                              /\ r.rules = "queued" => req[q].rules = "queued"
                              /\ r.ml = "queued" => req[q].ml = "queued"
  PROVE  PoolInv'
<1>1. req' = [p \in Request |-> IF p = q THEN r ELSE req[p]]
  BY DEF IInv, RequestsInv
<1>2. Running(req', "rules") \subseteq Running(req, "rules")
  BY <1>1 DEF Running
<1>3. Running(req', "ml") \subseteq Running(req, "ml")
  BY <1>1 DEF Running
<1>4. Bounded(req')
  BY <1>2, <1>3, FewerRun DEF PoolInv
<1>5. Listed(req', queue)
  BY <1>1 DEF PoolInv, Listed
<1>6. QED
  BY <1>4, <1>5 DEF PoolInv

\* One job more runs, on a thread that was free.
LEMMA OneMoreRuns ==
  ASSUME NEW A, NEW B, NEW q, IsFiniteSet(A), IsFiniteSet(B),
         Cardinality(A) + Cardinality(B) < Pool
  PROVE  /\ IsFiniteSet(A \cup {q})
         /\ Cardinality(A \cup {q}) + Cardinality(B) <= Pool
<1>1. IsFiniteSet(A \cup {q}) /\ Cardinality(A \cup {q}) \in {Cardinality(A), Cardinality(A) + 1}
  BY FS_AddElement
<1>2. Cardinality(A) \in Nat /\ Cardinality(B) \in Nat /\ Pool \in Nat
  BY FS_CardinalityType, PoolAssumption
<1>3. QED
  BY <1>1, <1>2

\* A thread that takes a job is one of the pool's, and its job leaves the queue.
LEMMA StartPool == IInv /\ PoolInv /\ StartJob => PoolInv'
<1> SUFFICES ASSUME IInv, PoolInv, StartJob PROVE PoolInv'
  OBVIOUS
<1> DEFINE head == queue[1]
           q == head.req
           A == Running(req, "rules")
           B == Running(req, "ml")
<1>1. queue \in Seq(Job) /\ queue # <<>> /\ Head(queue) = head /\ queue' = Tail(queue)
  BY DEF StartJob, IInv, QueueInv
<1>2. /\ q \in Request /\ req[q] \in OpenRequest /\ head \in Job
      /\ head.job = "rules" => req[q].rules = "queued"
      /\ head.job = "ml" => req[q].ml = "queued"
  <2>1. 1 \in 1..Len(queue)
    BY <1>1
  <2>2. head \in Job /\ Queued(head, req)
    BY <1>1, <2>1 DEF IInv, QueueInv
  <2> HIDE DEF head
  <2>3. QED
    BY <2>2 DEF Job, Queued
<1>3. req' = IF head.job = "rules"
               THEN [req EXCEPT ![q].rules = "running", ![q].list = active]
               ELSE [req EXCEPT ![q].ml = "running"]
  BY <1>1 DEF StartJob
<1>4. Cardinality(A) + Cardinality(B) < Pool
  <2>1. A = {p \in Sent : req[p].rules = "running"} /\ B = {p \in Sent : req[p].ml = "running"}
    BY DEF Running, Sent
  <2>2. QED
    BY <2>1 DEF StartJob, Busy
<1>5. IsFiniteSet(A) /\ IsFiniteSet(B)
  BY DEF PoolInv, Bounded
<1>6. UNCHANGED <<edits, reloads>>
  BY DEF StartJob, files, engine
<1>7. ASSUME NEW i \in DOMAIN queue, queue[i] # head
      PROVE  \E k \in DOMAIN queue' : queue'[k] = queue[i]
  <2>1. i \in 2..Len(queue)
    BY <1>1, <1>7
  <2>2. i - 1 \in 1..Len(Tail(queue)) /\ Tail(queue)[i - 1] = queue[i]
    BY <1>1, <2>1
  <2>3. QED
    BY <1>1, <2>2
<1>8. \A p \in Request, n \in {"rules", "ml"} :
        HasJob(queue, p, n) /\ (p # q \/ n # head.job) => HasJob(queue', p, n)
  BY <1>7 DEF HasJob
<1> HIDE DEF head
<1>9. CASE head.job = "rules"
  <2> DEFINE r == [req[q] EXCEPT !.rules = "running", !.list = active]
  <2>1. req' = [p \in Request |-> IF p = q THEN r ELSE req[p]]
    BY <1>2, <1>3, <1>9 DEF IInv, RequestsInv
  <2>2. r.rules = "running" /\ r.ml = req[q].ml /\ r.stage = req[q].stage /\ r.stage # "unsent"
    BY <1>2 DEF OpenRequest
  <2> HIDE DEF r
  <2>3. Running(req', "rules") = A \cup {q}
    BY <1>2, <2>1, <2>2 DEF Running
  <2>4. Running(req', "ml") = B
    BY <1>2, <2>1, <2>2 DEF Running
  <2>5. Bounded(req')
    <3> HIDE DEF A, B
    <3>1. IsFiniteSet(A \cup {q}) /\ Cardinality(A \cup {q}) + Cardinality(B) <= Pool
      BY <1>4, <1>5, OneMoreRuns
    <3>2. QED
      BY <1>5, <2>3, <2>4, <3>1 DEF Bounded
  <2>6. Listed(req', queue')
    BY <1>2, <1>8, <1>9, <2>1, <2>2 DEF PoolInv, Listed
  <2>7. QED
    BY <1>6, <2>5, <2>6 DEF PoolInv
<1>10. CASE head.job # "rules"
  <2> DEFINE r == [req[q] EXCEPT !.ml = "running"]
  <2>1. req' = [p \in Request |-> IF p = q THEN r ELSE req[p]]
    BY <1>2, <1>3, <1>10 DEF IInv, RequestsInv
  <2>2. r.ml = "running" /\ r.rules = req[q].rules /\ r.stage = req[q].stage /\ r.stage # "unsent"
    BY <1>2 DEF OpenRequest
  <2>3. head.job = "ml"
    BY <1>2, <1>10 DEF Job
  <2> HIDE DEF r
  <2>4. Running(req', "ml") = B \cup {q}
    BY <1>2, <2>1, <2>2 DEF Running
  <2>5. Running(req', "rules") = A
    BY <1>2, <2>1, <2>2 DEF Running
  <2>6. Bounded(req')
    <3> HIDE DEF A, B
    <3>1. Cardinality(A) \in Nat /\ Cardinality(B) \in Nat
      BY <1>5, FS_CardinalityType
    <3>2. Cardinality(B) + Cardinality(A) < Pool
      BY <1>4, <3>1
    <3>3. IsFiniteSet(B \cup {q}) /\ Cardinality(B \cup {q}) + Cardinality(A) <= Pool
      BY <1>5, <3>2, OneMoreRuns
    <3>4. Cardinality(A) + Cardinality(B \cup {q}) <= Pool
      BY <3>1, <3>3, FS_CardinalityType
    <3>5. QED
      BY <1>5, <2>4, <2>5, <3>3, <3>4 DEF Bounded
  <2>7. Listed(req', queue')
    BY <1>2, <1>8, <2>3, <2>1, <2>2 DEF PoolInv, Listed
  <2>8. QED
    BY <1>6, <2>6, <2>7 DEF PoolInv
<1>11. QED
  BY <1>9, <1>10

\* A request's jobs are queued, and run no earlier.
LEMMA SendPool ==
  ASSUME NEW q \in Request, NEW kind \in {"rules", "hybrid"}, NEW f \in Flow
  PROVE  IInv /\ PoolInv /\ Send(q, kind, f) => PoolInv'
<1> SUFFICES ASSUME IInv, PoolInv, Send(q, kind, f) PROVE PoolInv'
  OBVIOUS
<1> DEFINE r == [stage |-> "waiting", kind |-> kind, flow |-> f, rules |-> "queued",
                 ml |-> IF kind = "hybrid" THEN "queued" ELSE "none",
                 list |-> 0, next |-> 1, matches |-> <<>>]
           a == [req |-> q, job |-> "rules"]
           b == [req |-> q, job |-> "ml"]
<1>1. req' = [p \in Request |-> IF p = q THEN r ELSE req[p]] /\ UNCHANGED <<edits, reloads>>
  BY DEF Send, IInv, RequestsInv, files, engine
<1>2. queue' = IF kind = "hybrid" THEN Append(Append(queue, a), b) ELSE Append(queue, a)
  <2>1. queue' = queue \o <<a>> \o (IF kind = "hybrid" THEN <<b>> ELSE <<>>)
    BY DEF Send
  <2>2. queue \in Seq(Job) /\ a \in Job /\ b \in Job
    BY DEF IInv, QueueInv, Job
  <2> HIDE DEF a, b
  <2>3. CASE kind = "hybrid"
    BY <2>1, <2>2, <2>3, JobsAppended, Zenon
  <2>4. CASE kind # "hybrid"
    BY <2>1, <2>2, <2>4, JobsAppended, Zenon
  <2>5. QED
    BY <2>3, <2>4
<1>3. queue \in Seq(Job) /\ a \in Job /\ b \in Job
  BY DEF IInv, QueueInv, Job
<1>4. r.rules = "queued" /\ r.ml = IF kind = "hybrid" THEN "queued" ELSE "none"
  OBVIOUS
<1> HIDE DEF r
<1>5. Running(req', "rules") \subseteq Running(req, "rules")
  BY <1>1, <1>4 DEF Running
<1>6. Running(req', "ml") \subseteq Running(req, "ml")
  BY <1>1, <1>4 DEF Running
<1>7. Bounded(req')
  BY <1>5, <1>6, FewerRun DEF PoolInv
<1> DEFINE m == Len(queue)
<1>8. /\ \A i \in 1..m : i \in DOMAIN queue' /\ queue'[i] = queue[i]
      /\ m + 1 \in DOMAIN queue' /\ queue'[m + 1] = a
      /\ kind = "hybrid" => m + 2 \in DOMAIN queue' /\ queue'[m + 2] = b
  <2> HIDE DEF a, b
  <2>1. CASE kind = "hybrid"
    BY <1>2, <1>3, <2>1
  <2>2. CASE kind # "hybrid"
    BY <1>2, <1>3, <2>2
  <2>3. QED
    BY <2>1, <2>2
<1>9. DOMAIN queue = 1..m
  BY <1>3
<1>10. HasJob(queue', q, "rules") /\ (kind = "hybrid" => HasJob(queue', q, "ml"))
  BY <1>8 DEF HasJob
<1>11. \A p \in Request, n \in {"rules", "ml"} : HasJob(queue, p, n) => HasJob(queue', p, n)
  BY <1>8, <1>9 DEF HasJob
<1>12. Listed(req', queue')
  BY <1>1, <1>4, <1>10, <1>11 DEF PoolInv, Listed
<1>13. QED
  BY <1>1, <1>7, <1>12 DEF PoolInv

\* A turn of the loop over the rules keeps its thread, or frees it.
LEMMA TurnPool ==
  ASSUME NEW q \in Request
  PROVE  IInv /\ PoolInv /\ EvaluateNext(q) => PoolInv'
<1> SUFFICES ASSUME IInv, PoolInv, EvaluateNext(q) PROVE PoolInv'
  OBVIOUS
<1> DEFINE found == Matched(req[q].matches, lists[req[q].list][req[q].next], req[q].flow)
           ended == [req[q] EXCEPT !.rules = "done"]
           turned == [req[q] EXCEPT !.next = @ + 1, !.matches = found]
           r == IF req[q].next > Len(lists[req[q].list]) THEN ended ELSE turned
<1>1. req[q].rules = "running" /\ req[q].stage # "unsent" /\ req[q] \in OpenRequest
  BY SentRequest DEF EvaluateNext, Sent, Answered
<1>2. req' = [req EXCEPT ![q] = r]
  BY DEF EvaluateNext, IInv, RequestsInv
<1>3. UNCHANGED <<queue, edits, reloads>>
  BY DEF EvaluateNext, files, engine
<1> HIDE DEF found
<1>4. /\ ended.rules = "done" /\ ended.ml = req[q].ml
      /\ turned.rules = "running" /\ turned.ml = req[q].ml
  BY <1>1 DEF OpenRequest
<1> HIDE DEF ended, turned
<1>5. r.rules \in {"done", "running"} /\ r.ml = req[q].ml
  BY <1>4
<1> HIDE DEF r
<1>6. q \in Running(req, "rules") /\ (r.ml = "running" => q \in Running(req, "ml"))
  BY <1>1, <1>5 DEF Running
<1>7. QED
  BY <1>1, <1>2, <1>3, <1>5, <1>6, OneInPool

\* A rule that raises frees the loop's thread.
LEMMA RaisesPool ==
  ASSUME NEW q \in Request
  PROVE  IInv /\ PoolInv /\ EvaluateRaises(q) => PoolInv'
<1> SUFFICES ASSUME IInv, PoolInv, EvaluateRaises(q) PROVE PoolInv'
  OBVIOUS
<1> DEFINE r == [req[q] EXCEPT !.rules = "failed", !.matches = <<>>]
<1>1. req[q].rules = "running" /\ req[q].stage # "unsent" /\ req[q] \in OpenRequest
  BY SentRequest DEF EvaluateRaises, Sent, Answered
<1>2. req' = [req EXCEPT ![q] = r] /\ UNCHANGED <<queue, edits, reloads>>
  BY DEF EvaluateRaises, IInv, RequestsInv, files, engine
<1>3. r.rules = "failed" /\ r.ml = req[q].ml
  BY <1>1 DEF OpenRequest
<1> HIDE DEF r
<1>4. r.ml = "running" => q \in Running(req, "ml")
  BY <1>1, <1>3 DEF Running
<1>5. QED
  BY <1>1, <1>2, <1>3, <1>4, OneInPool

\* The end of an ML job frees its thread.
LEMMA FlowPool ==
  ASSUME NEW q \in Request, NEW result \in {"done", "failed"}
  PROVE  IInv /\ PoolInv /\ EvaluateFlow(q, result) => PoolInv'
<1> SUFFICES ASSUME IInv, PoolInv, EvaluateFlow(q, result) PROVE PoolInv'
  OBVIOUS
<1> DEFINE r == [req[q] EXCEPT !.ml = result]
<1>1. req[q].ml = "running" /\ req[q].stage # "unsent" /\ req[q] \in OpenRequest
  BY SentRequest DEF EvaluateFlow, Sent, Answered
<1>2. req' = [req EXCEPT ![q] = r] /\ UNCHANGED <<queue, edits, reloads>>
  BY DEF EvaluateFlow, IInv, RequestsInv, files, engine
<1>3. r.rules = req[q].rules /\ r.ml = result
  BY <1>1 DEF OpenRequest
<1> HIDE DEF r
<1>4. r.rules = "running" => q \in Running(req, "rules")
  BY <1>1, <1>3 DEF Running
<1>5. QED
  BY <1>1, <1>2, <1>3, <1>4, OneInPool

\* The answer to a failed request leaves threads and queue as they were.
LEMMA FailurePool ==
  ASSUME NEW q \in Request
  PROVE  IInv /\ PoolInv /\ AnswerFailure(q) => PoolInv'
<1> SUFFICES ASSUME IInv, PoolInv, AnswerFailure(q) PROVE PoolInv'
  OBVIOUS
<1> DEFINE r == [req[q] EXCEPT !.stage = "failed"]
<1>1. req[q].stage = "waiting" /\ req[q] \in OpenRequest
  BY SentRequest DEF AnswerFailure, Waiting, Answered
<1>2. req' = [req EXCEPT ![q] = r] /\ UNCHANGED <<queue, edits, reloads>>
  BY DEF AnswerFailure, IInv, RequestsInv, files, engine
<1>3. r.rules = req[q].rules /\ r.ml = req[q].ml
  BY <1>1 DEF OpenRequest
<1> HIDE DEF r
<1>4. /\ r.rules = "running" => q \in Running(req, "rules")
      /\ r.ml = "running" => q \in Running(req, "ml")
  BY <1>1, <1>3 DEF Running
<1>5. QED
  BY <1>1, <1>2, <1>3, <1>4, OneInPool

\* An answer leaves threads and queue as they were.
LEMMA AnswerPool ==
  ASSUME NEW q \in Request
  PROVE  IInv /\ PoolInv /\ Answer(q) => PoolInv'
<1> SUFFICES ASSUME IInv, PoolInv, Answer(q) PROVE PoolInv'
  OBVIOUS
<1> DEFINE report == HybridReport(Ml(req[q].flow), req[q].matches)
           r == [stage |-> "answered", kind |-> req[q].kind, flow |-> req[q].flow, rules |-> "done",
                 ml |-> req[q].ml, matches |-> req[q].matches,
                 report |-> IF req[q].kind = "rules" THEN None ELSE report,
                 technique |-> IF req[q].kind = "rules" THEN None
                               ELSE Technique(mapping, report.class)]
<1>1. req' = [req EXCEPT ![q] = r]
  BY DEF Answer, IInv, RequestsInv
<1>2. UNCHANGED <<queue, edits, reloads>> /\ req[q].ml \in {"none", "done"}
  BY DEF Answer, files, engine
<1>3. r.rules = "done" /\ r.ml = req[q].ml /\ r \notin OpenRequest
  BY DEF OpenRequest
<1> HIDE DEF r
<1>4. QED
  BY <1>1, <1>2, <1>3, OneInPool

\* A restart empties the pool and the queue together.
LEMMA RestartPool == IInv /\ PoolInv /\ RestartApi => PoolInv'
<1> SUFFICES ASSUME IInv, PoolInv, RestartApi PROVE PoolInv'
  OBVIOUS
<1> DEFINE lost == [stage |-> "failed", rules |-> "lost", ml |-> "lost"]
<1>1. /\ req' = [q \in Request |-> IF q \in Sent /\ req[q].stage # "answered" THEN lost ELSE req[q]]
      /\ edits' = edits /\ reloads' = reloads + 1 /\ reloads < MaxReloads
  BY DEF RestartApi, files
<1>2. lost.rules = "lost" /\ lost.ml = "lost" /\ lost \notin OpenRequest
  BY DEF OpenRequest
<1> HIDE DEF lost
<1>3. Running(req', "rules") \subseteq Running(req, "rules")
  BY <1>1, <1>2 DEF Running
<1>4. Running(req', "ml") \subseteq Running(req, "ml")
  BY <1>1, <1>2 DEF Running
<1>5. Bounded(req')
  BY <1>3, <1>4, FewerRun DEF PoolInv
<1>6. \A q \in Request : req'[q] \notin OpenRequest
  BY <1>1, <1>2 DEF Sent, OpenRequest
<1>7. Listed(req', queue')
  BY <1>6 DEF Listed
<1>8. reloads' \in 0..MaxReloads
  BY <1>1, PoolAssumption DEF PoolInv
<1>9. QED
  BY <1>1, <1>5, <1>7, <1>8 DEF PoolInv

\* Every step keeps it.
LEMMA PoolStep == IInv /\ PoolInv /\ [Next]_vars => PoolInv'
<1> SUFFICES ASSUME IInv, PoolInv, [Next]_vars PROVE PoolInv'
  OBVIOUS
<1>1. ASSUME UNCHANGED <<queue, req>>, edits' \in 0..MaxEdits, reloads' \in 0..MaxReloads
      PROVE  PoolInv'
  BY <1>1 DEF PoolInv
<1>2. edits \in 0..MaxEdits /\ reloads \in 0..MaxReloads
  BY DEF PoolInv
<1>3. edits < MaxEdits => edits + 1 \in 0..MaxEdits
  BY <1>2, PoolAssumption
<1>4. reloads < MaxReloads => reloads + 1 \in 0..MaxReloads
  BY <1>2, PoolAssumption
<1>5. ASSUME NEW content \in Ruleset \cup {Missing, Broken}, EditRules(content) PROVE PoolInv'
  BY <1>1, <1>2, <1>3, <1>5 DEF EditRules, engine, requests
<1>6. ASSUME NEW content \in MappingFile \cup {Missing, Broken}, EditMapping(content) PROVE PoolInv'
  BY <1>1, <1>2, <1>3, <1>6 DEF EditMapping, engine, requests
<1>7. CASE Reload
  BY <1>1, <1>2, <1>4, <1>7 DEF Reload, files, requests
<1>8. ASSUME NEW f \in Flow, NEW ok \in BOOLEAN, Analyse(f, ok) PROVE PoolInv'
  BY <1>1, <1>2, <1>8 DEF Analyse, files, engine, requests
<1>9. CASE RestartWorker
  BY <1>1, <1>2, <1>9 DEF RestartWorker, files, engine, requests
<1>10. CASE UNCHANGED vars
  BY <1>1, <1>2, <1>10 DEF vars, files, engine, requests
<1>11. QED
  BY <1>5, <1>6, <1>7, <1>8, <1>9, <1>10, SendPool, StartPool, TurnPool, RaisesPool, FlowPool,
     AnswerPool, FailurePool, RestartPool DEF Next

\* Jobs of two kinds are counted together.
LEMMA JobsCounted ==
  ASSUME NEW A, NEW B, IsFiniteSet(A), IsFiniteSet(B)
  PROVE  Cardinality((A \X {"rules"}) \cup (B \X {"ml"})) = Cardinality(A) + Cardinality(B)
<1> DEFINE a == [q \in A |-> <<q, "rules">>]
           b == [q \in B |-> <<q, "ml">>]
           C == A \X {"rules"}
           D == B \X {"ml"}
<1>1. a \in Bijection(A, C)
  <2>1. /\ a \in [A -> C] /\ (\A s, t \in A : a[s] = a[t] => s = t)
        /\ \A t \in C : \E s \in A : a[s] = t
    OBVIOUS
  <2>2. QED
    BY <2>1, Fun_IsBij
<1>2. b \in Bijection(B, D)
  <2>1. /\ b \in [B -> D] /\ (\A s, t \in B : b[s] = b[t] => s = t)
        /\ \A t \in D : \E s \in B : b[s] = t
    OBVIOUS
  <2>2. QED
    BY <2>1, Fun_IsBij
<1>3. C \cap D = {}
  OBVIOUS
<1> HIDE DEF a, b, C, D
<1>4. IsFiniteSet(C) /\ Cardinality(C) = Cardinality(A)
  BY <1>1, FS_Bijection DEF ExistsBijection
<1>5. IsFiniteSet(D) /\ Cardinality(D) = Cardinality(B)
  BY <1>2, FS_Bijection DEF ExistsBijection
<1>6. Cardinality(C \cup D) = Cardinality(C) + Cardinality(D) - Cardinality(C \cap D)
  BY <1>4, <1>5, FS_Union
<1>7. Cardinality(C \cap D) = 0
  BY <1>3, FS_EmptySet
<1>8. Cardinality(A) \in Nat /\ Cardinality(B) \in Nat
  BY FS_CardinalityType
<1>9. QED
  BY <1>4, <1>5, <1>6, <1>7, <1>8 DEF C, D

\* What the invariants say together is the type invariant.
LEMMA TypesFollow == IInv /\ FilesInv /\ PoolInv => TypeOK
<1> SUFFICES ASSUME IInv, FilesInv, PoolInv PROVE TypeOK
  OBVIOUS
<1>1. /\ rulesFile \in Ruleset \cup {Missing, Broken} /\ active \in DOMAIN lists
      /\ mappingFile \in MappingFile \cup {Missing, Broken}
      /\ \A i \in DOMAIN lists : lists[i] \in Ruleset \cup {<<>>}
      /\ edits \in 0..MaxEdits /\ reloads \in 0..MaxReloads
  BY DEF IInv, RulesInv, FilesInv, PoolInv
<1>2. \A q \in Request : req[q] = Idle \/ req[q] \in OpenRequest \/ req[q] \in LostRequest
                         \/ Answered(req[q])
  BY DEF IInv, RequestsInv
<1>3. \A q \in Request : req[q].stage \in Stage
  BY <1>2 DEF Idle, OpenRequest, LostRequest, Answered, Stage
<1>4. \A q \in Sent : req[q].rules \in JobState /\ req[q].ml \in JobState
  BY <1>2 DEF Sent, Idle, OpenRequest, LostRequest, Answered, JobState
<1>5. \A q \in Sent : (req[q].rules = "queued" \/ req[q].ml = "queued") => req[q] \in OpenRequest
  BY <1>2 DEF Sent, Idle, LostRequest, Answered
<1>6. \A q \in Sent, n \in {"rules", "ml"} : req[q][n] = "queued" => HasJob(queue, q, n)
  BY <1>5 DEF Sent, PoolInv, Listed
<1>7. \A q \in Sent, n \in {"rules", "ml"} : HasJob(queue, q, n) => req[q][n] = "queued"
  <2> SUFFICES ASSUME NEW q \in Sent, NEW n \in {"rules", "ml"},
                      NEW i \in DOMAIN queue, queue[i] = [req |-> q, job |-> n]
               PROVE  req[q][n] = "queued"
    BY DEF HasJob
  <2>1. i \in 1..Len(queue)
    BY DEF IInv, QueueInv
  <2>2. Queued(queue[i], req) /\ queue[i].req = q /\ queue[i].job = n
    BY <2>1 DEF IInv, QueueInv
  <2>3. QED
    BY <2>2 DEF Queued
<1>8. IsInjective(queue)
  BY DEF IInv, QueueInv, IsInjective
<1>9. Cardinality({j \in Sent \X {"rules", "ml"} : req[j[1]][j[2]] = "running"}) <= Pool
  <2> DEFINE A == Running(req, "rules")  B == Running(req, "ml")
             C == {j \in Sent \X {"rules", "ml"} : req[j[1]][j[2]] = "running"}
  <2>1. C = (A \X {"rules"}) \cup (B \X {"ml"})
    BY DEF Running, Sent
  <2>2. IsFiniteSet(A) /\ IsFiniteSet(B) /\ Cardinality(A) + Cardinality(B) <= Pool
    BY DEF PoolInv, Bounded
  <2> HIDE DEF A, B, C
  <2>3. Cardinality(C) = Cardinality(A) + Cardinality(B)
    BY <2>1, <2>2, JobsCounted
  <2>4. Cardinality(C) <= Pool
    BY <2>2, <2>3
  <2>5. QED
    BY <2>4 DEF C
<1>10. QED
  BY <1>1, <1>3, <1>4, <1>6, <1>7, <1>8, <1>9 DEF TypeOK, HasJob

\* The queue of the executor holds the queued jobs, each once, and no more
\* run than it has threads, whatever the number of either (TypeOK).
THEOREM TypesCorrect == Spec => []TypeOK
<1>1. Init => IInv /\ FilesInv /\ PoolInv
  BY InitInv, InitFiles, InitPool
<1>2. IInv /\ FilesInv /\ PoolInv /\ [Next]_vars => (IInv /\ FilesInv /\ PoolInv)'
  BY StepInv, FilesStep, PoolStep
<1>3. IInv /\ FilesInv /\ PoolInv => TypeOK
  BY TypesFollow
<1>4. QED
  BY <1>1, <1>2, <1>3, PTL DEF Spec
=============================================================================
