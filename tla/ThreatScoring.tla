--------------------------- MODULE ThreatScoring ---------------------------
(***************************************************************************)
(* How one flow's verdicts become a threat: the fusion of the two models   *)
(* (ensemble.py), the severity matrix (severity_matrix.py), and the two    *)
(* fusions with rule matches, one in the API's rule engine (engine.py) and *)
(* one in the worker's task (tasks.py).                                    *)
(*                                                                         *)
(* Fractions are integers: confidences, anomaly scores, impacts and        *)
(* severity scores in hundredths, criticalities in tenths.                 *)
(***************************************************************************)
EXTENDS Integers, Sequences

ThreatClass == {"PORT_SCAN", "DATA_EXFILTRATION", "DOS_BURST", "C2_BEACON", "DEVICE_SPOOF"}
Severity    == {"LOW", "MEDIUM", "HIGH", "CRITICAL"}
Criticality == {10, 13, 15, 18, 20}

AtMost(limit, n)  == IF n > limit THEN limit ELSE n
AtLeast(limit, n) == IF n < limit THEN limit ELSE n

-----------------------------------------------------------------------------
(* The severity matrix.                                                    *)

ClassImpact ==
  [DATA_EXFILTRATION |-> 95, C2_BEACON |-> 90, NOVEL_ANOMALY |-> 88, DOS_BURST |-> 85,
   DEVICE_SPOOF |-> 65, PORT_SCAN |-> 50, BENIGN |-> 5]

Impact(class) == IF class \in DOMAIN ClassImpact THEN ClassImpact[class] ELSE 60

\* 10 * (conf * impact * (criticality / 1.5)), rounded to hundredths and
\* kept within 0.1 and 10.  Ties of the rounding, which floating point may
\* decide otherwise, never meet a threshold of SeverityOf.
Score(class, conf, criticality) ==
  AtMost(1000, AtLeast(10, (conf * Impact(class) * criticality + 75) \div 150))

SeverityOf(score) ==
  IF score >= 800 THEN "CRITICAL"
  ELSE IF score >= 600 THEN "HIGH"
  ELSE IF score >= 400 THEN "MEDIUM"
  ELSE "LOW"

-----------------------------------------------------------------------------
(* The ensemble.  A verdict is [unsup, class, conf]: the isolation forest's *)
(* anomaly score, and the class and confidence of the classifier.           *)

Fuse(v) ==
  IF v.class # "BENIGN" /\ v.conf >= 55
    THEN [threat |-> TRUE, novel |-> FALSE, class |-> v.class, conf |-> AtLeast(v.conf, v.unsup)]
    ELSE IF v.unsup >= 65
      THEN [threat |-> TRUE, novel |-> TRUE, class |-> "NOVEL_ANOMALY", conf |-> v.unsup]
      ELSE [threat |-> FALSE, novel |-> FALSE, class |-> "BENIGN", conf |-> v.conf]

\* evaluate_flow of a flow with verdict v between assets of this criticality.
Ensemble(v, criticality) ==
  LET fused == Fuse(v)
      score == Score(fused.class, fused.conf, criticality)
  IN  [threat |-> fused.threat, novel |-> fused.novel, class |-> fused.class,
       conf |-> fused.conf, score |-> score, severity |-> SeverityOf(score)]

-----------------------------------------------------------------------------
(* Fusion with the matches of the rules, a sequence of records              *)
(* [rule, level] in the order of the rules.                                 *)

AnyCritical(matches) == \E i \in DOMAIN matches : matches[i].level = "CRITICAL"

\* The class of an alert: a rule names it when the ensemble saw nothing.
ClassOf(ml, matches) ==
  IF matches # <<>> /\ ~ml.threat THEN matches[1].rule ELSE ml.class

\* evaluate_concurrently_with_ml: the report of POST /rules/evaluate-hybrid.
HybridReport(ml, matches) ==
  [threat   |-> ml.threat \/ matches # <<>>,
   class    |-> ClassOf(ml, matches),
   severity |-> IF matches # <<>> /\ ~ml.threat THEN matches[1].level
                ELSE IF ml.threat /\ AnyCritical(matches) THEN "CRITICAL"
                ELSE ml.severity,
   score    |-> ml.score,
   conf     |-> IF ml.threat /\ matches # <<>> THEN AtMost(100, ml.conf + 8) ELSE ml.conf]

\* Fault: a rule alone is no threat.
WorkerAlertOwn(ml, matches) ==
  [threat   |-> ml.threat,
   class    |-> ClassOf(ml, matches),
   severity |-> IF AnyCritical(matches) THEN "CRITICAL" ELSE ml.severity,
   score    |-> IF AnyCritical(matches) THEN AtLeast(850, ml.score) ELSE ml.score,
   conf     |-> IF matches # <<>> THEN AtMost(100, ml.conf + 8) ELSE ml.conf]

\* Fault: a critical rule raises the level and leaves the score.
WorkerAlertScoreKept(ml, matches) ==
  [threat   |-> ml.threat \/ matches # <<>>,
   class    |-> ClassOf(ml, matches),
   severity |-> IF AnyCritical(matches) THEN "CRITICAL" ELSE ml.severity,
   score    |-> ml.score,
   conf     |-> IF matches # <<>> THEN AtMost(100, ml.conf + 8) ELSE ml.conf]

\* The hybrid part of detect_threats_for_flow_task: the alert it stores, if
\* there is a threat.
WorkerAlert(ml, matches) ==
  [threat   |-> ml.threat \/ matches # <<>>,
   class    |-> ClassOf(ml, matches),
   severity |-> IF AnyCritical(matches) THEN "CRITICAL" ELSE ml.severity,
   score    |-> IF AnyCritical(matches) THEN AtLeast(850, ml.score) ELSE ml.score,
   conf     |-> IF matches # <<>> THEN AtMost(100, ml.conf + 8) ELSE ml.conf]
=============================================================================
