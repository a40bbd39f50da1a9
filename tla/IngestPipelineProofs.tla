------------------------ MODULE IngestPipelineProofs ------------------------
(***************************************************************************)
(* For every set of requests, batches, workers, detectors and techniques,  *)
(* and whatever fails: variables keep their types, an analysis is all or   *)
(* nothing, the audit chain and the tables agree, and no technique is      *)
(* inserted twice.  The last is a matter of the rows that open             *)
(* transactions hold (TechInv).  The others rest on two facts: a flow is   *)
(* in one place at a time on its way to its analysis (PlaceInv), and a     *)
(* worker's uncommitted rows and records are those of the stage it is in   *)
(* (StageInv).                                                             *)
(***************************************************************************)
EXTENDS IngestPipeline, SequenceTheorems, FunctionTheorems, FiniteSetTheorems, TLAPS

-----------------------------------------------------------------------------
(* The inductive invariant.                                                *)

ChainEntry == {Ingested(r) : r \in Request} \cup {Alerted(a[1], a[2]) : a \in AlertRows}

\* Requests, the queue, and which flow each worker is at.
QueueTypes ==
  /\ flows \subseteq Flow /\ analysed \subseteq Flow /\ lost \subseteq Flow
  /\ broker \in Seq(Flow)
  /\ rpc \in [Request -> {"idle", "enqueue", "committed", "aborted"}]
  /\ todo \in [Request -> Seq(Flow)]
  /\ \A r \in Request : todo[r] \in Seq(FlowsOf(r))
  /\ wpc \in [Worker -> {"idle", "lookup", "hybrid", "technique", "alert",
                         "audit", "heuristics", "commit"}]
  /\ task \in [Worker -> Flow \cup {None}]
  /\ \A w \in Worker : wpc[w] = "idle" <=> task[w] = None

\* Registrations, and the techniques that are committed or held.
Registration == [at : {"idle", "open", "ended"}, asked : Nat,
                 absent : Seq(Techniques), held : SUBSET Techniques]
TechniqueTypes ==
  /\ techniques \subseteq Techniques
  /\ reg \in [Register -> Registration]
  /\ \A g \in Register :
       /\ reg[g].asked \in 0..Len(Offer[g])
       /\ reg[g].absent \in Seq(Range(Offer[g])) /\ reg[g].held \subseteq Range(Offer[g])
  /\ newtech \in [Worker -> Range(Technique) \cup {None}]

\* Alerts and audit records, committed or not.
AlertTypes ==
  /\ alerts \subseteq AlertRows /\ cut \subseteq AlertRows
  /\ chain \in Seq(ChainEntry)
  /\ found \in [Worker -> SUBSET AlertRows]
  /\ entries \in [Worker -> Seq(ChainEntry)]
  /\ poisoned \in [Worker -> BOOLEAN]

TypeInv == QueueTypes /\ TechniqueTypes /\ AlertTypes

\* An uncommitted technique is nobody else's, committed or not.
TechInv ==
  /\ \A w \in Worker : newtech[w] # None => newtech[w] \notin techniques
  /\ \A g \in Register : reg[g].held \cap techniques = {}
  /\ \A v, w \in Worker : v # w /\ newtech[v] # None => newtech[v] # newtech[w]
  /\ \A g, h \in Register : g # h => reg[g].held \cap reg[h].held = {}
  /\ \A w \in Worker, g \in Register : newtech[w] # None => newtech[w] \notin reg[g].held

\* A flow is still to be published, in the queue, with one worker, or
\* analysed: never in two of these places, and never twice in one.
Published == Range(broker) \cup Range(task) \cup analysed
PlaceInv ==
  /\ \A r \in Request : rpc[r] = "idle" => todo[r] = <<>> /\ FlowsOf(r) \cap Published = {}
  /\ \A r \in Request : Range(todo[r]) \cap Published = {} /\ IsInjective(todo[r])
  /\ IsInjective(broker)
  /\ Range(broker) \cap (Range(task) \cup analysed) = {}
  /\ Range(task) \cap analysed = {}
  /\ \A v, w \in Worker : v # w /\ task[v] # None => task[v] # task[w]

\* The records of the heuristic alerts of f.
Fired(f) == [i \in DOMAIN Heuristics[f] |-> Alerted(f, Heuristics[f][i])]
OfHybrid(f) == <<Alerted(f, HybridModel)>>

\* What a worker has inserted is what the stages it has been through insert:
\* every record reports an alert, and an alert lacks its record only between
\* the two flushes or if the soft time limit came between them.
AfterHybrid(f, rows, records, cuts) ==
  \/ records = <<>> /\ rows \subseteq cuts \cap {<<f, HybridModel>>}
  \/ records = OfHybrid(f) /\ rows = {<<f, HybridModel>>}
AfterHeuristics(f, rows, records, cuts) ==
  \E hybrid \in SUBSET {<<f, HybridModel>>} :
    /\ rows = hybrid \cup {<<f, m>> : m \in Range(Heuristics[f])}
    /\ \/ records = Fired(f) /\ hybrid \subseteq cuts
       \/ records = OfHybrid(f) \o Fired(f) /\ hybrid = {<<f, HybridModel>>}

StageOf(w) ==
  /\ wpc[w] \notin {"idle", "lookup"} => task[w] \in flows
  /\ wpc[w] \in {"idle", "lookup", "hybrid", "technique", "alert"} => found[w] = {}
  /\ wpc[w] \notin {"heuristics", "commit"} => entries[w] = <<>>
  /\ wpc[w] = "audit" => found[w] = {<<task[w], HybridModel>>}
  /\ wpc[w] = "heuristics" => AfterHybrid(task[w], found[w], entries[w], cut)
  /\ wpc[w] = "commit" => AfterHeuristics(task[w], found[w], entries[w], cut)
StageInv == \A w \in Worker : StageOf(w)

\* What the committed tables and the chain owe each other.
TablesInv ==
  /\ \A a \in alerts : a[1] \in analysed
  /\ analysed \subseteq flows
  /\ \A f \in analysed : \A m \in Range(Heuristics[f]) : <<f, m>> \in alerts
  /\ flows = UNION {FlowsOf(r) : r \in Committed}

\* The chain reports alerts once, after the batch that brought their flow, and
\* lacks none that the soft time limit did not cut off; each committed request
\* has one record of its batch.
EntriesOf(records, kind) == {i \in DOMAIN records : records[i].kind = kind}
AlertsReported(records, rows, cuts) ==
  LET A == EntriesOf(records, "alerted") IN
  /\ \A i \in A : <<records[i].flow, records[i].model>> \in rows
  /\ \A a \in rows : a \in cuts \/ \E i \in A : records[i] = Alerted(a[1], a[2])
  /\ \A i, j \in A : records[i] = records[j] => i = j
  /\ \A i \in A : \E r \in Request :
       records[i].flow \in FlowsOf(r) /\ \E j \in 1..(i - 1) : records[j] = Ingested(r)
AlertChain == AlertsReported(chain, alerts, cut)

BatchesReported(records, requests) ==
  \E by \in Bijection(EntriesOf(records, "ingested"), requests) :
    \A i \in EntriesOf(records, "ingested") : records[i] = Ingested(by[i])
BatchChain == BatchesReported(chain, Committed)

IInv == TypeInv /\ TechInv /\ PlaceInv /\ StageInv /\ TablesInv /\ AlertChain /\ BatchChain

-----------------------------------------------------------------------------
(* Sequences, the sets of their elements, and whether these are distinct.  *)

\* A sequence is one over its own elements.
LEMMA RangeOf ==
  ASSUME NEW S, NEW s \in Seq(S)
  PROVE  s \in Seq(Range(s)) /\ Range(s) \subseteq S /\ DOMAIN s = 1..Len(s) /\ Len(s) \in Nat
<1>1. Len(s) \in Nat /\ DOMAIN s = 1..Len(s) /\ s \in [1..Len(s) -> S]
  BY LenProperties
<1>2. s \in [1..Len(s) -> Range(s)] /\ Range(s) \subseteq S
  BY <1>1 DEF Range
<1>3. QED
  BY <1>1, <1>2, SeqDef

\* Appending adds one element, and keeps a sequence without repetition so if it is new.
LEMMA RangeOfAppend ==
  ASSUME NEW S, NEW s \in Seq(S), NEW e \in S
  PROVE  /\ Append(s, e) \in Seq(S)
         /\ Range(Append(s, e)) = Range(s) \cup {e}
         /\ IsInjective(s) /\ e \notin Range(s) => IsInjective(Append(s, e))
<1> DEFINE a == Append(s, e)
           n == Len(s)
<1>1. /\ a \in Seq(S) /\ Len(a) = n + 1 /\ a[n + 1] = e
      /\ \A i \in 1..n : a[i] = s[i]
  BY AppendProperties
<1>2. n \in Nat /\ DOMAIN s = 1..n /\ DOMAIN a = 1..(n + 1)
  BY <1>1, LenProperties
<1> HIDE DEF a, n
<1>3. \A i \in 1..(n + 1) : i \in 1..n \/ i = n + 1
  BY <1>2
<1>4. 1..n \subseteq 1..(n + 1) /\ n + 1 \in 1..(n + 1)
  BY <1>2
<1>5. Range(a) = Range(s) \cup {e}
  BY <1>1, <1>2, <1>3, <1>4 DEF Range
<1>6. IsInjective(s) /\ e \notin Range(s) => IsInjective(a)
  BY <1>1, <1>2, <1>3 DEF IsInjective, Range
<1>7. QED
  BY <1>1, <1>5, <1>6 DEF a

\* Taking the head removes it, from a sequence without repetition altogether.
LEMMA RangeOfTail ==
  ASSUME NEW S, NEW s \in Seq(S), s # <<>>
  PROVE  /\ Head(s) \in S /\ Tail(s) \in Seq(S)
         /\ Range(s) = {Head(s)} \cup Range(Tail(s))
         /\ IsInjective(s) => IsInjective(Tail(s)) /\ Head(s) \notin Range(Tail(s))
<1> DEFINE u == Tail(s)
           n == Len(s)
<1>1. /\ Head(s) \in S /\ u \in Seq(S) /\ Len(u) = n - 1
      /\ \A i \in 1..Len(u) : u[i] = s[i + 1]
  BY HeadTailProperties
<1>2. n \in Nat \ {0} /\ DOMAIN s = 1..n /\ DOMAIN u = 1..(n - 1)
  BY <1>1, LenProperties, EmptySeq
<1>3. Head(s) = s[1]
  OBVIOUS
<1> HIDE DEF u, n
<1>4. \A i \in 1..n : i = 1 \/ \E j \in 1..(n - 1) : i = j + 1
  <2>1. \A i \in 1..n : i = 1 \/ (i - 1 \in 1..(n - 1) /\ i = (i - 1) + 1)
    BY <1>2
  <2>2. QED
    BY <2>1
<1>5. \A i \in 1..(n - 1) : i + 1 \in 1..n /\ i + 1 # 1 /\ 1 \in 1..n
  BY <1>2
<1>6. Range(s) = {Head(s)} \cup Range(u)
  <2>1. Range(s) \subseteq {Head(s)} \cup Range(u)
    <3>1. \A i \in 1..n : s[i] = Head(s) \/ \E j \in 1..(n - 1) : s[i] = u[j]
      BY <1>1, <1>2, <1>3, <1>4
    <3>2. QED
      BY <1>2, <3>1 DEF Range
  <2>2. {Head(s)} \cup Range(u) \subseteq Range(s)
    <3>1. 1 \in DOMAIN s
      BY <1>2
    <3>2. QED
      BY <1>1, <1>2, <1>3, <1>5, <3>1 DEF Range
  <2>3. QED
    BY <2>1, <2>2
<1>7. IsInjective(s) => IsInjective(u) /\ Head(s) \notin Range(u)
  <2> SUFFICES ASSUME IsInjective(s) PROVE IsInjective(u) /\ Head(s) \notin Range(u)
    OBVIOUS
  <2>1. \A i, j \in 1..n : s[i] = s[j] => i = j
    BY <1>2 DEF IsInjective
  <2>2. \A i, j \in 1..(n - 1) : i + 1 = j + 1 => i = j
    BY <1>2
  <2>3. QED
    BY <1>1, <1>2, <1>3, <1>5, <2>1, <2>2 DEF IsInjective, Range
<1>8. QED
  BY <1>1, <1>6, <1>7 DEF u

\* A concatenation has the elements of the first, then those of the second.
LEMMA RangeOfConcat ==
  ASSUME NEW S, NEW s \in Seq(S), NEW u \in Seq(S)
  PROVE  /\ s \o u \in Seq(S) /\ Len(s \o u) = Len(s) + Len(u)
         /\ DOMAIN (s \o u) = 1..(Len(s) + Len(u))
         /\ Len(s) \in Nat /\ Len(u) \in Nat /\ DOMAIN s = 1..Len(s) /\ DOMAIN u = 1..Len(u)
         /\ \A i \in 1..Len(s) : (s \o u)[i] = s[i]
         /\ \A i \in 1..Len(u) : (s \o u)[Len(s) + i] = u[i]
<1>1. /\ s \o u \in Seq(S) /\ Len(s \o u) = Len(s) + Len(u)
      /\ \A i \in 1..(Len(s) + Len(u)) :
           (s \o u)[i] = IF i <= Len(s) THEN s[i] ELSE u[i - Len(s)]
  BY ConcatProperties
<1>2. Len(s) \in Nat /\ Len(u) \in Nat /\ DOMAIN s = 1..Len(s) /\ DOMAIN u = 1..Len(u)
      /\ DOMAIN (s \o u) = 1..(Len(s) + Len(u))
  BY <1>1, LenProperties
<1>3. \A i \in 1..Len(s) : i \in 1..(Len(s) + Len(u)) /\ i <= Len(s)
  BY <1>2
<1>4. \A i \in 1..Len(u) : Len(s) + i \in 1..(Len(s) + Len(u)) /\ ~(Len(s) + i <= Len(s))
                           /\ (Len(s) + i) - Len(s) = i
  BY <1>2
<1>5. QED
  BY <1>1, <1>2, <1>3, <1>4

-----------------------------------------------------------------------------
(* What the constants' assumptions say of one batch.                       *)

\* The flows of a batch are distinct, and no two batches share one.
LEMMA BatchFacts ==
  ASSUME NEW r \in Request
  PROVE  /\ Batch[r] \in Seq(Flow) /\ Batch[r] \in Seq(FlowsOf(r)) /\ FlowsOf(r) \subseteq Flow
         /\ IsInjective(Batch[r])
         /\ \A q \in Request : q # r => FlowsOf(q) \cap FlowsOf(r) = {}
<1>1. Batch[r] \in Seq(Flow)
  BY BatchAssumption
<1>2. Batch[r] \in Seq(FlowsOf(r)) /\ FlowsOf(r) \subseteq Flow
  BY <1>1, RangeOf DEF FlowsOf
<1>3. IsInjective(Batch[r])
  BY BatchAssumption DEF IsInjective
<1>4. \A q \in Request : q # r => FlowsOf(q) \cap FlowsOf(r) = {}
  BY BatchAssumption DEF FlowsOf, Range
<1>5. QED
  BY <1>1, <1>2, <1>3, <1>4

-----------------------------------------------------------------------------
(* The actions in groups: what a registration does, how a worker goes from *)
(* stage to stage, and how its task ends without a commit.                 *)

Registers(g) == LookUpOffered(g) \/ RegisterStep(g) \/ RegistrationFails(g)

Moves(w) ==
  \/ FindFlow(w) \/ NoHybridAlert(w) \/ LookUpTechnique(w) \/ InsertTechnique(w)
  \/ TechniqueRefused(w) \/ RaiseAlert(w) \/ AuditAlert(w) \/ FlushFails(w)
  \/ SoftLimitSwallowed(w) \/ RunHeuristics(w)

Abandons(w) ==
  FlowNotFound(w) \/ PoisonedTaskFails(w) \/ TaskFails(w) \/ WorkerKilled(w)

\* The steps, grouped by who takes them and which variables they change.
LEMMA StepCases ==
  [Next]_vars =>
    \/ \E r \in Request : InsertFlows(r) \/ PublishTask(r) \/ PublishFails(r)
                            \/ CommitFlows(r) \/ AbortFlows(r)
    \/ \E g \in Register : Registers(g)
    \/ \E w \in Worker : TakeTask(w) \/ Moves(w) \/ Abandons(w) \/ CommitTask(w)
    \/ UNCHANGED vars
BY DEF Next, RequestStep, RequestFault, Registers, WorkerStep, WorkerFault, Moves, Abandons,
   Finished

\* A registration touches its own record and the techniques only.
LEMMA RegistersFrame ==
  ASSUME NEW g, Registers(g)
  PROVE  UNCHANGED <<flows, alerts, chain, broker, rpc, todo, workerVars, history>>
BY DEF Registers, LookUpOffered, RegisterStep, InsertOffered, OfferRefused, CommitOffered,
   RegistrationFails, dbVars

\* A worker's next stage: its task stays, nothing is committed.
LEMMA MovesFrame ==
  ASSUME TypeInv, NEW w \in Worker, Moves(w)
  PROVE  /\ UNCHANGED <<dbVars, broker, requestVars, task, analysed, lost>>
         /\ wpc[w] # "idle"
         /\ wpc' = [wpc EXCEPT ![w] = wpc'[w]]
         /\ wpc'[w] \in {"hybrid", "technique", "alert", "audit", "heuristics", "commit"}
<1> USE DEF WorkerAt, Poison, history
<1>1. CASE FindFlow(w) \/ NoHybridAlert(w) \/ InsertTechnique(w)
  BY <1>1 DEF TypeInv, QueueTypes, FindFlow, NoHybridAlert, InsertTechnique
<1>2. CASE LookUpTechnique(w)
  BY <1>2 DEF TypeInv, QueueTypes, LookUpTechnique
<1>3. CASE RaiseAlert(w) \/ AuditAlert(w) \/ RunHeuristics(w)
  BY <1>3 DEF TypeInv, QueueTypes, RaiseAlert, AuditAlert, RunHeuristics
<1>4. CASE TechniqueRefused(w) \/ FlushFails(w)
  BY <1>4 DEF TypeInv, QueueTypes, TechniqueRefused, FlushFails
<1>5. CASE SoftLimitSwallowed(w)
  BY <1>5 DEF TypeInv, QueueTypes, SoftLimitSwallowed
<1>6. QED
  BY <1>1, <1>2, <1>3, <1>4, <1>5 DEF Moves

\* A task that comes to nothing: the worker is idle, its rows are gone.
LEMMA AbandonsFrame ==
  ASSUME TypeInv, NEW w \in Worker, Abandons(w)
  PROVE  /\ UNCHANGED <<dbVars, broker, requestVars, analysed, cut>>
         /\ EndTask(w) /\ lost' = lost \cup {task[w]}
         /\ wpc[w] # "idle" /\ task[w] \in Flow
<1>1. wpc[w] # "idle" /\ AbandonTask(w)
  BY DEF Abandons, FlowNotFound, PoisonedTaskFails, TaskFails, WorkerKilled
<1>2. QED
  BY <1>1 DEF AbandonTask, TypeInv, QueueTypes

-----------------------------------------------------------------------------
(* The way of a flow: types, and one place at a time.                      *)

\* Every step keeps the types of requests, queue and workers.
LEMMA QueueTypesStep == TypeInv /\ [Next]_vars => QueueTypes'
<1> SUFFICES ASSUME TypeInv, [Next]_vars PROVE QueueTypes'
  OBVIOUS
<1> USE DEF TypeInv, QueueTypes
<1>1. ASSUME NEW r \in Request, InsertFlows(r) PROVE QueueTypes'
  BY <1>1, BatchFacts DEF InsertFlows, RequestAt, dbVars, workerVars, history
<1>2. ASSUME NEW r \in Request, PublishTask(r) \/ PublishFails(r) PROVE QueueTypes'
  <2>1. todo[r] # <<>> /\ todo[r] \in Seq(FlowsOf(r)) /\ todo[r] \in Seq(Flow)
    BY <1>2 DEF PublishTask, PublishFails
  <2>2. Head(todo[r]) \in Flow /\ Tail(todo[r]) \in Seq(Flow) /\ Tail(todo[r]) \in Seq(FlowsOf(r))
    BY <2>1, HeadTailProperties
  <2>3. Append(broker, Head(todo[r])) \in Seq(Flow)
    BY <2>2, AppendProperties
  <2>4. todo' = [todo EXCEPT ![r] = Tail(todo[r])]
    BY <1>2 DEF PublishTask, PublishFails
  <2>5. broker' \in Seq(Flow) /\ lost' \subseteq Flow
    BY <1>2, <2>2, <2>3 DEF PublishTask, PublishFails, history
  <2>6. UNCHANGED <<flows, analysed, rpc, wpc, task>>
    BY <1>2 DEF PublishTask, PublishFails, dbVars, workerVars, history
  <2>7. QED
    BY <2>2, <2>4, <2>5, <2>6
<1>3. ASSUME NEW r \in Request, CommitFlows(r) \/ AbortFlows(r) PROVE QueueTypes'
  BY <1>3, BatchFacts DEF CommitFlows, AbortFlows, RequestAt, dbVars, workerVars, history
<1>4. ASSUME NEW g \in Register, Registers(g) PROVE QueueTypes'
  BY <1>4, RegistersFrame DEF workerVars, history
<1>5. ASSUME NEW w \in Worker, TakeTask(w) PROVE QueueTypes'
  <2>1. Head(broker) \in Flow /\ Tail(broker) \in Seq(Flow)
    BY <1>5, HeadTailProperties DEF TakeTask
  <2>2. QED
    BY <1>5, <2>1, NoneAssumption DEF TakeTask, WorkerAt, dbVars, requestVars, history
<1>6. ASSUME NEW w \in Worker, Moves(w) PROVE QueueTypes'
  <2>1. UNCHANGED <<flows, analysed, lost, broker, rpc, todo, task>>
    BY <1>6, MovesFrame DEF dbVars, requestVars
  <2>2. /\ wpc' = [wpc EXCEPT ![w] = wpc'[w]] /\ wpc[w] # "idle"
        /\ wpc'[w] \in {"hybrid", "technique", "alert", "audit", "heuristics", "commit"}
    BY <1>6, MovesFrame
  <2>3. /\ wpc' \in [Worker -> {"idle", "lookup", "hybrid", "technique", "alert",
                                "audit", "heuristics", "commit"}]
        /\ \A v \in Worker : wpc'[v] = "idle" <=> wpc[v] = "idle"
    BY <2>2
  <2>4. QED
    BY <2>1, <2>3
<1>7. ASSUME NEW w \in Worker, Abandons(w) PROVE QueueTypes'
  BY <1>7, AbandonsFrame DEF EndTask, dbVars, requestVars
<1>8. ASSUME NEW w \in Worker, CommitTask(w) PROVE QueueTypes'
  BY <1>8 DEF CommitTask, EndTask, requestVars
<1>9. CASE UNCHANGED vars
  BY <1>9 DEF vars, dbVars, requestVars, workerVars, history
<1>10. QED
  BY <1>1, <1>2, <1>3, <1>4, <1>5, <1>6, <1>7, <1>8, <1>9, StepCases

\* Every step moves a flow from one place to the next, and never copies it.
LEMMA PlaceStep == TypeInv /\ PlaceInv /\ [Next]_vars => PlaceInv'
<1> SUFFICES ASSUME TypeInv, PlaceInv, [Next]_vars PROVE PlaceInv'
  OBVIOUS
<1> USE DEF TypeInv, QueueTypes, PlaceInv, Published
<1>1. \A r \in Request : Range(todo[r]) \subseteq FlowsOf(r)
  BY RangeOf
<1>2. Range(broker) \subseteq Flow
  BY RangeOf
<1>3. ASSUME UNCHANGED <<broker, todo, task, analysed>>,
             \A r \in Request : rpc'[r] = "idle" => rpc[r] = "idle"
      PROVE  PlaceInv'
  BY <1>3
<1>4. ASSUME NEW r \in Request, InsertFlows(r) PROVE PlaceInv'
  <2>1. todo' = [todo EXCEPT ![r] = Batch[r]] /\ rpc' = [rpc EXCEPT ![r] = "enqueue"]
        /\ rpc[r] = "idle" /\ UNCHANGED <<broker, task, analysed>>
    BY <1>4 DEF InsertFlows, RequestAt, workerVars, history
  <2>2. Range(Batch[r]) = FlowsOf(r) /\ IsInjective(Batch[r])
    BY BatchFacts DEF FlowsOf
  <2>3. QED
    BY <2>1, <2>2
<1>5. ASSUME NEW r \in Request, PublishTask(r) PROVE PlaceInv'
  <2> DEFINE f == Head(todo[r])
  <2>1. /\ todo[r] # <<>> /\ todo' = [todo EXCEPT ![r] = Tail(todo[r])]
        /\ broker' = Append(broker, f) /\ rpc[r] = "enqueue"
        /\ UNCHANGED <<rpc, task, analysed>>
    BY <1>5 DEF PublishTask, workerVars, history
  <2>2. /\ f \in Flow /\ Range(todo[r]) = {f} \cup Range(Tail(todo[r]))
        /\ IsInjective(Tail(todo[r])) /\ f \notin Range(Tail(todo[r]))
    BY <2>1, RangeOfTail
  <2>3. f \in FlowsOf(r) /\ f \notin Published
    BY <1>1, <2>2
  <2> HIDE DEF f
  <2>4. Range(broker') = Range(broker) \cup {f} /\ IsInjective(broker')
    BY <2>1, <2>2, <2>3, RangeOfAppend
  <2>5. \A q \in Request \ {r} : f \notin FlowsOf(q)
    BY <2>3, BatchFacts
  <2>6. \A q \in Request : Range(todo'[q]) \subseteq Range(todo[q]) \ {f}
    BY <1>1, <2>1, <2>2, <2>5
  <2>7. \A q \in Request : IsInjective(todo'[q])
    BY <2>1, <2>2
  <2>8. \A q \in Request : rpc'[q] = "idle" => todo'[q] = <<>> /\ f \notin FlowsOf(q)
    BY <2>1, <2>5
  <2>9. QED
    BY <2>1, <2>3, <2>4, <2>6, <2>7, <2>8
<1>6. ASSUME NEW r \in Request, PublishFails(r) PROVE PlaceInv'
  <2>1. /\ todo[r] # <<>> /\ todo' = [todo EXCEPT ![r] = Tail(todo[r])] /\ rpc[r] = "enqueue"
        /\ UNCHANGED <<rpc, broker, task, analysed>>
    BY <1>6 DEF PublishFails, workerVars
  <2>2. Range(Tail(todo[r])) \subseteq Range(todo[r]) /\ IsInjective(Tail(todo[r]))
    BY <2>1, RangeOfTail
  <2>3. QED
    BY <2>1, <2>2
<1>7. ASSUME NEW r \in Request, CommitFlows(r) \/ AbortFlows(r) PROVE PlaceInv'
  BY <1>3, <1>7 DEF CommitFlows, AbortFlows, RequestAt, workerVars, history
<1>8. ASSUME NEW g \in Register, Registers(g) PROVE PlaceInv'
  BY <1>3, <1>8, RegistersFrame DEF workerVars, history
<1>9. ASSUME NEW w \in Worker, TakeTask(w) PROVE PlaceInv'
  <2> DEFINE f == Head(broker)
  <2>1. /\ broker # <<>> /\ broker' = Tail(broker) /\ task' = [task EXCEPT ![w] = f]
        /\ UNCHANGED <<rpc, todo, analysed>>
    BY <1>9 DEF TakeTask, requestVars, history
  <2>2. /\ f \in Flow /\ Range(broker) = {f} \cup Range(broker')
        /\ IsInjective(broker') /\ f \notin Range(broker')
    BY <2>1, RangeOfTail
  <2> HIDE DEF f
  <2>3. Range(task') \subseteq Range(task) \cup {f}
    BY <2>1 DEF Range
  <2>4. \A v \in Worker : task[v] \in Range(task) /\ task[v] # f
    <3>1. \A v \in Worker : task[v] \in Range(task)
      BY DEF Range
    <3>2. QED
      BY <2>2, <3>1
  <2>5. \A u, v \in Worker : u # v /\ task'[u] # None => task'[u] # task'[v]
    BY <2>1, <2>4
  <2>6. Published' \subseteq Published /\ f \notin Range(task) \cup analysed
    BY <2>1, <2>2, <2>3
  <2>7. /\ Range(broker') \cap (Range(task') \cup analysed') = {}
        /\ Range(task') \cap analysed' = {}
    <3>1. \A x \in Range(task') : x \in Range(task) \/ x = f
      BY <2>3
    <3>2. \A x \in Range(broker') : x \in Range(broker) /\ x # f
      BY <2>2
    <3>3. f \in Range(broker) /\ analysed' = analysed
      BY <2>1, <2>2
    <3>4. QED
      BY <3>1, <3>2, <3>3, <2>6
  <2>8. \A r \in Request : /\ rpc'[r] = "idle" => todo'[r] = <<>> /\ FlowsOf(r) \cap Published' = {}
                           /\ Range(todo'[r]) \cap Published' = {} /\ IsInjective(todo'[r])
    <3> HIDE DEF Published
    <3>1. QED
      BY <2>1, <2>6
  <2>9. QED
    <3> HIDE DEF Published
    <3>1. QED
      BY <2>2, <2>5, <2>7, <2>8
<1>10. ASSUME NEW w \in Worker, Moves(w) PROVE PlaceInv'
  BY <1>3, <1>10, MovesFrame DEF requestVars
<1>11. ASSUME NEW w \in Worker, Abandons(w) \/ CommitTask(w) PROVE PlaceInv'
  <2>1. /\ task' = [task EXCEPT ![w] = None] /\ UNCHANGED <<rpc, todo, broker>>
        /\ analysed' \subseteq analysed \cup {task[w]} /\ task[w] \in Flow
    BY <1>11, AbandonsFrame DEF CommitTask, EndTask, requestVars
  <2>2. task[w] \in Range(task)
    BY DEF Range
  <2>3. \A x \in Range(task') : x = None \/ (x \in Range(task) /\ x # task[w])
    BY <2>1 DEF Range
  <2>4. None \notin Range(broker) /\ None \notin analysed'
        /\ \A r \in Request : None \notin FlowsOf(r)
    BY <1>2, <2>1, NoneAssumption, BatchFacts
  <2>5. Published' \subseteq Published \cup {None}
    BY <2>1, <2>2, <2>3
  <2>6. /\ Range(broker') \cap (Range(task') \cup analysed') = {}
        /\ Range(task') \cap analysed' = {} /\ IsInjective(broker')
    <3>1. \A x \in Range(task') : x \notin Range(broker) /\ x \notin analysed'
      BY <2>1, <2>2, <2>3, <2>4
    <3>2. \A x \in Range(broker) : x \notin analysed'
      BY <2>1, <2>2
    <3>3. QED
      BY <2>1, <3>1, <3>2
  <2>7. \A u, v \in Worker : u # v /\ task'[u] # None => task'[u] # task'[v]
    BY <2>1
  <2>8. \A r \in Request : /\ rpc'[r] = "idle" => todo'[r] = <<>> /\ FlowsOf(r) \cap Published' = {}
                           /\ Range(todo'[r]) \cap Published' = {} /\ IsInjective(todo'[r])
    <3> HIDE DEF Published
    <3>1. QED
      BY <1>1, <2>1, <2>4, <2>5
  <2>9. QED
    <3> HIDE DEF Published
    <3>1. QED
      BY <2>6, <2>7, <2>8
<1>12. CASE UNCHANGED vars
  BY <1>3, <1>12 DEF vars, requestVars, workerVars, history
<1>13. QED
  BY <1>4, <1>5, <1>6, <1>7, <1>8, <1>9, <1>10, <1>11, <1>12, StepCases

-----------------------------------------------------------------------------
(* Techniques.                                                             *)

\* A request that ingests flows touches no technique, no alert and no worker.
LEMMA RequestsFrame ==
  ASSUME NEW r, InsertFlows(r) \/ PublishTask(r) \/ PublishFails(r) \/ CommitFlows(r) \/ AbortFlows(r)
  PROVE  UNCHANGED <<alerts, techniques, reg, workerVars, analysed, cut>>
BY DEF InsertFlows, PublishTask, PublishFails, CommitFlows, AbortFlows, dbVars, history

\* How a registration changes its record and the committed techniques.
LEMMA RegistersShape ==
  ASSUME TechniqueTypes, NEW g \in Register, Registers(g)
  PROVE  /\ reg' \in [Register -> Registration]
         /\ \A h \in Register \ {g} : reg'[h] = reg[h]
         /\ reg'[g].asked \in 0..Len(Offer[g])
         /\ reg'[g].absent \in Seq(Range(Offer[g])) /\ reg'[g].held \subseteq Range(Offer[g])
         /\ \/ techniques' = techniques /\ reg'[g].held = reg[g].held
            \/ techniques' = techniques /\ reg'[g].held = {}
            \/ techniques' = techniques \cup reg[g].held /\ reg'[g].held = {}
            \/ /\ techniques' = techniques
               /\ \E t : reg'[g].held = reg[g].held \cup {t} /\ t \notin techniques /\ ~Held(t)
<1> DEFINE e == reg[g]
<1>1. /\ reg \in [Register -> Registration] /\ e \in Registration /\ e.asked \in 0..Len(Offer[g])
      /\ e.absent \in Seq(Range(Offer[g])) /\ e.held \subseteq Range(Offer[g])
  BY DEF TechniqueTypes
<1>2. /\ Range(Offer[g]) \subseteq Techniques /\ Offer[g] \in Seq(Range(Offer[g]))
      /\ Len(Offer[g]) \in Nat
  BY OfferAssumption, LenProperties DEF Techniques
<1>3. CASE EndRegistration(g) /\ techniques' \in {techniques, techniques \cup e.held}
  <2>1. reg' = [reg EXCEPT ![g] = [e EXCEPT !.at = "ended", !.held = {}]]
    BY <1>3 DEF EndRegistration
  <2>2. /\ [e EXCEPT !.at = "ended", !.held = {}] \in Registration
        /\ [e EXCEPT !.at = "ended", !.held = {}].asked = e.asked
        /\ [e EXCEPT !.at = "ended", !.held = {}].absent = e.absent
        /\ [e EXCEPT !.at = "ended", !.held = {}].held = {}
    BY <1>1 DEF Registration
  <2> DEFINE d == [e EXCEPT !.at = "ended", !.held = {}]
  <2>3. d \in Registration /\ d.asked = e.asked /\ d.absent = e.absent /\ d.held = {}
    BY <2>2
  <2> HIDE DEF d
  <2>4. reg' \in [Register -> Registration] /\ reg'[g] = d /\ \A h \in Register \ {g} : reg'[h] = reg[h]
    BY <1>1, <2>1, <2>3 DEF d
  <2>5. QED
    BY <1>1, <1>3, <2>3, <2>4
<1>4. CASE LookUpOffered(g)
  <2> DEFINE n == e.asked + 1
             t == Offer[g][n]
             a == IF t \in techniques THEN e.absent ELSE Append(e.absent, t)
             d == [e EXCEPT !.at = "open", !.asked = n, !.absent = a]
  <2>1. e.asked < Len(Offer[g]) /\ reg' = [reg EXCEPT ![g] = d] /\ techniques' = techniques
    BY <1>4 DEF LookUpOffered, dbVars
  <2>2. n \in 0..Len(Offer[g]) /\ n \in 1..Len(Offer[g]) /\ n \in Nat
    BY <1>1, <1>2, <2>1
  <2>3. t \in Range(Offer[g])
    BY <1>2, <2>2, RangeOf DEF Range
  <2> HIDE DEF t
  <2>4. Append(e.absent, t) \in Seq(Range(Offer[g]))
    BY <1>1, <2>3, AppendProperties
  <2>5. a \in Seq(Range(Offer[g]))
    BY <1>1, <2>4
  <2> HIDE DEF a
  <2>6. a \in Seq(Techniques)
    <3>1. Range(a) \subseteq Range(Offer[g]) /\ a \in [1..Len(a) -> Range(Offer[g])] /\ Len(a) \in Nat
      BY <2>5, RangeOf, LenProperties
    <3>2. a \in [1..Len(a) -> Techniques]
      BY <1>2, <3>1
    <3>3. QED
      BY <3>1, <3>2, SeqDef
  <2>7. d \in Registration /\ d.asked = n /\ d.absent = a /\ d.held = e.held
    <3> HIDE DEF e, n
    <3>1. QED
      BY <1>1, <2>2, <2>6 DEF Registration
  <2> HIDE DEF d, e
  <2>8. reg' \in [Register -> Registration] /\ reg'[g] = d /\ \A h \in Register \ {g} : reg'[h] = reg[h]
    BY <1>1, <2>1, <2>7
  <2>9. QED
    BY <1>1, <2>1, <2>2, <2>5, <2>7, <2>8 DEF e
<1>5. CASE InsertOffered(g)
  <2> DEFINE t == Head(e.absent)
             d == [e EXCEPT !.absent = Tail(e.absent), !.held = e.held \cup {t}]
  <2>1. /\ e.absent # <<>> /\ t \notin techniques /\ ~Held(t)
        /\ reg' = [reg EXCEPT ![g] = d] /\ techniques' = techniques
    BY <1>5 DEF InsertOffered, dbVars
  <2>2. e.absent \in Seq(Techniques)
    BY <1>1 DEF Registration
  <2>3. t \in Range(Offer[g]) /\ Tail(e.absent) \in Seq(Range(Offer[g])) /\ Tail(e.absent) \in Seq(Techniques)
    BY <1>1, <2>1, <2>2, HeadTailProperties
  <2> HIDE DEF t
  <2>4. d \in Registration /\ d.asked = e.asked /\ d.absent = Tail(e.absent) /\ d.held = e.held \cup {t}
    BY <1>1, <1>2, <2>3 DEF Registration
  <2> HIDE DEF d, e
  <2>5. reg' \in [Register -> Registration] /\ reg'[g] = d /\ \A h \in Register \ {g} : reg'[h] = reg[h]
    BY <1>1, <2>1, <2>4
  <2>6. QED
    BY <1>1, <2>1, <2>3, <2>4, <2>5 DEF e
<1>6. CASE OfferRefused(g) \/ CommitOffered(g) \/ RegistrationFails(g)
  BY <1>3, <1>6 DEF OfferRefused, CommitOffered, RegistrationFails, dbVars
<1>7. QED
  BY <1>4, <1>5, <1>6 DEF Registers, RegisterStep

\* How a worker that goes on to its next stage changes its technique.
LEMMA MovesTechnique ==
  ASSUME TypeInv, NEW w \in Worker, Moves(w)
  PROVE  /\ UNCHANGED <<techniques, reg>>
         /\ \/ newtech' = newtech
            \/ newtech' = [newtech EXCEPT ![w] = None]
            \/ \E t \in Range(Technique) :
                 newtech' = [newtech EXCEPT ![w] = t] /\ t \notin techniques /\ ~Held(t)
<1>1. UNCHANGED <<techniques, reg>>
  BY MovesFrame DEF dbVars, requestVars
<1>2. CASE InsertTechnique(w)
  <2>1. task[w] \in Flow
    BY MovesFrame DEF TypeInv, QueueTypes
  <2>2. Technique[task[w]] \in Range(Technique)
    BY <2>1, DetectorAssumption DEF Range
  <2>3. QED
    BY <1>1, <1>2, <2>2 DEF InsertTechnique
<1>3. CASE TechniqueRefused(w) \/ FlushFails(w)
  BY <1>1, <1>3 DEF TechniqueRefused, FlushFails, Poison, DropRows
<1>4. CASE FindFlow(w) \/ NoHybridAlert(w) \/ LookUpTechnique(w) \/ RaiseAlert(w) \/ AuditAlert(w)
             \/ SoftLimitSwallowed(w) \/ RunHeuristics(w)
  BY <1>1, <1>4 DEF FindFlow, NoHybridAlert, LookUpTechnique, RaiseAlert, AuditAlert,
     SoftLimitSwallowed, RunHeuristics
<1>5. QED
  BY <1>2, <1>3, <1>4 DEF Moves

\* Every step keeps the types of techniques and registrations.
LEMMA TechniqueTypesStep == TypeInv /\ [Next]_vars => TechniqueTypes'
<1> SUFFICES ASSUME TypeInv, [Next]_vars PROVE TechniqueTypes'
  OBVIOUS
<1>0. TechniqueTypes /\ QueueTypes
  BY DEF TypeInv
<1>1. ASSUME UNCHANGED <<techniques, reg>>,
             newtech' = newtech \/ \E w \in Worker, t \in Range(Technique) \cup {None} :
                                      newtech' = [newtech EXCEPT ![w] = t]
      PROVE  TechniqueTypes'
  BY <1>0, <1>1 DEF TechniqueTypes
<1>2. ASSUME NEW g \in Register, Registers(g) PROVE TechniqueTypes'
  <2>1. newtech' = newtech
    BY <1>2, RegistersFrame DEF workerVars
  <2>2. techniques' \subseteq techniques \cup reg[g].held /\ reg[g].held \subseteq Techniques
    <3>1. reg[g] \in Registration
      BY <1>0 DEF TechniqueTypes
    <3>2. reg[g].held \subseteq Techniques
      BY <3>1 DEF Registration
    <3>3. QED
      BY <1>0, <1>2, <3>2, RegistersShape
  <2>3. QED
    BY <1>0, <1>2, <2>1, <2>2, RegistersShape DEF TechniqueTypes
<1>3. ASSUME NEW w \in Worker, TakeTask(w) \/ Abandons(w) \/ CommitTask(w) PROVE TechniqueTypes'
  <2>1. newtech' = newtech \/ newtech' = [newtech EXCEPT ![w] = None]
    BY <1>3, AbandonsFrame DEF TakeTask, CommitTask, EndTask, DropRows
  <2>2. reg' = reg
    BY <1>3, AbandonsFrame DEF TakeTask, CommitTask, requestVars
  <2>3. techniques' \subseteq techniques \cup ({newtech[w]} \ {None})
    BY <1>3, AbandonsFrame DEF TakeTask, CommitTask, dbVars
  <2>4. newtech[w] \in Range(Technique) \cup {None} /\ Range(Technique) \subseteq Techniques
    BY <1>0 DEF TechniqueTypes, Techniques
  <2>5. QED
    BY <1>0, <2>1, <2>2, <2>3, <2>4 DEF TechniqueTypes
<1>4. QED
  <2>1. ASSUME NEW r \in Request, InsertFlows(r) \/ PublishTask(r) \/ PublishFails(r) \/ CommitFlows(r) \/ AbortFlows(r)
        PROVE  TechniqueTypes'
    BY <1>1, <2>1, RequestsFrame DEF workerVars
  <2>2. ASSUME NEW w \in Worker, Moves(w) PROVE TechniqueTypes'
    BY <1>1, <2>2, MovesTechnique
  <2>3. CASE UNCHANGED vars
    BY <1>1, <2>3 DEF vars, dbVars, requestVars, workerVars
  <2>4. QED
    BY <1>2, <1>3, <2>1, <2>2, <2>3, StepCases

\* Every step keeps uncommitted techniques apart: an insert waits for, or fails on, an equal key.
LEMMA TechStep == TypeInv /\ TechInv /\ [Next]_vars => TechInv'
<1> SUFFICES ASSUME TypeInv, TechInv, [Next]_vars PROVE TechInv'
  OBVIOUS
<1>0. /\ newtech \in [Worker -> Range(Technique) \cup {None}]
      /\ \A f \in Flow : Technique[f] # None
      /\ None \notin Range(Technique)
  BY DetectorAssumption DEF TypeInv, TechniqueTypes, Range
<1>1. ASSUME UNCHANGED <<techniques, reg, newtech>> PROVE TechInv'
  BY <1>1 DEF TechInv
<1>2. ASSUME NEW g \in Register, Registers(g) PROVE TechInv'
  <2>1. newtech' = newtech
    BY <1>2, RegistersFrame DEF workerVars
  <2>2. \A h \in Register \ {g} : reg'[h] = reg[h]
    BY <1>2, RegistersShape DEF TypeInv
  <2>3. CASE techniques' = techniques /\ reg'[g].held \in {reg[g].held, {}}
    BY <2>1, <2>2, <2>3 DEF TechInv
  <2>4. CASE techniques' = techniques \cup reg[g].held /\ reg'[g].held = {}
    BY <2>1, <2>2, <2>4 DEF TechInv
  <2>5. ASSUME techniques' = techniques, NEW t, reg'[g].held = reg[g].held \cup {t},
               t \notin techniques, ~Held(t)
        PROVE  TechInv'
    BY <2>1, <2>2, <2>5 DEF TechInv, Held
  <2>6. QED
    BY <1>2, <2>3, <2>4, <2>5, RegistersShape DEF TypeInv
<1>3. ASSUME NEW w \in Worker, Moves(w) PROVE TechInv'
  <2>1. UNCHANGED <<techniques, reg>>
    BY <1>3, MovesTechnique
  <2>2. CASE newtech' = newtech
    BY <1>1, <2>1, <2>2
  <2>3. CASE newtech' = [newtech EXCEPT ![w] = None]
    BY <1>0, <2>1, <2>3 DEF TechInv
  <2>4. ASSUME NEW t \in Range(Technique), newtech' = [newtech EXCEPT ![w] = t],
               t \notin techniques, ~Held(t)
        PROVE  TechInv'
    BY <1>0, <2>1, <2>4 DEF TechInv, Held
  <2>5. QED
    BY <1>3, <2>2, <2>3, <2>4, MovesTechnique
<1>4. ASSUME NEW w \in Worker, Abandons(w) PROVE TechInv'
  <2>1. UNCHANGED <<techniques, reg>> /\ newtech' = [newtech EXCEPT ![w] = None]
    BY <1>4, AbandonsFrame DEF EndTask, DropRows, dbVars, requestVars
  <2>2. QED
    BY <1>0, <2>1 DEF TechInv
<1>5. ASSUME NEW w \in Worker, CommitTask(w) PROVE TechInv'
  <2>1. /\ reg' = reg /\ newtech' = [newtech EXCEPT ![w] = None]
        /\ techniques' = techniques \cup ({newtech[w]} \ {None})
    BY <1>5 DEF CommitTask, EndTask, DropRows, requestVars
  <2>2. QED
    BY <1>0, <2>1 DEF TechInv
<1>6. QED
  <2>1. ASSUME NEW r \in Request, InsertFlows(r) \/ PublishTask(r) \/ PublishFails(r) \/ CommitFlows(r) \/ AbortFlows(r)
        PROVE  TechInv'
    BY <1>1, <2>1, RequestsFrame DEF workerVars
  <2>2. ASSUME NEW w \in Worker, TakeTask(w) PROVE TechInv'
    BY <1>1, <2>2 DEF TakeTask, dbVars, requestVars
  <2>3. CASE UNCHANGED vars
    BY <1>1, <2>3 DEF vars, dbVars, requestVars, workerVars
  <2>4. QED
    BY <1>2, <1>3, <1>4, <1>5, <2>1, <2>2, <2>3, StepCases

-----------------------------------------------------------------------------
(* Alerts and audit records: types, and what each stage has inserted.      *)

\* Audit records of different kinds, of different alerts, are different.
LEMMA RecordFacts ==
  /\ \A r : Ingested(r).kind = "ingested" /\ Ingested(r).named \subseteq FlowsOf(r)
  /\ \A f, m : Alerted(f, m).kind = "alerted" /\ Alerted(f, m).flow = f /\ Alerted(f, m).model = m
  /\ \A f, m, g, n : Alerted(f, m) = Alerted(g, n) => f = g /\ m = n
<1>1. \A r : Ingested(r).kind = "ingested" /\ Ingested(r).named \subseteq FlowsOf(r)
  BY DEF Ingested, FlowsOf, Range
<1>2. \A f, m : Alerted(f, m).kind = "alerted" /\ Alerted(f, m).flow = f /\ Alerted(f, m).model = m
  BY DEF Alerted
<1>3. \A f, m, g, n : Alerted(f, m) = Alerted(g, n) => f = g /\ m = n
  BY <1>2
<1>4. QED
  BY <1>1, <1>2, <1>3

\* What the detectors make of one flow.
LEMMA DetectorFacts ==
  ASSUME NEW f \in Flow
  PROVE  /\ Range(Heuristics[f]) \subseteq Models /\ HybridModel \in Models
         /\ HybridModel \notin Range(Heuristics[f])
         /\ \A m \in Models : <<f, m>> \in AlertRows /\ Alerted(f, m) \in ChainEntry
         /\ Fired(f) \in Seq(ChainEntry) /\ OfHybrid(f) \in Seq(ChainEntry)
         /\ Len(Fired(f)) = Len(Heuristics[f]) /\ DOMAIN Heuristics[f] = 1..Len(Heuristics[f])
         /\ IsInjective(Heuristics[f]) /\ Len(Heuristics[f]) \in Nat
<1>1. /\ Heuristics[f] \in Seq(Range(Heuristics[f])) /\ IsInjective(Heuristics[f])
      /\ HybridModel \notin Range(Heuristics[f])
  BY DetectorAssumption
<1>2. Range(Heuristics[f]) \subseteq Models /\ HybridModel \in Models
  BY DEF Models
<1>3. \A m \in Models : <<f, m>> \in AlertRows /\ Alerted(f, m) \in ChainEntry
  <2>1. \A m \in Models : <<f, m>> \in AlertRows /\ <<f, m>>[1] = f /\ <<f, m>>[2] = m
    BY DEF AlertRows
  <2>2. \A m \in Models : Alerted(f, m) \in {Alerted(a[1], a[2]) : a \in AlertRows}
    BY <2>1
  <2>3. QED
    BY <2>1, <2>2 DEF ChainEntry
<1>4. DOMAIN Heuristics[f] = 1..Len(Heuristics[f]) /\ Len(Heuristics[f]) \in Nat
  BY <1>1, LenProperties
<1>5. \A i \in DOMAIN Heuristics[f] : Heuristics[f][i] \in Models
  BY <1>2 DEF Range
<1>6. Fired(f) \in [1..Len(Heuristics[f]) -> ChainEntry]
  BY <1>3, <1>4, <1>5 DEF Fired
<1>7. Fired(f) \in Seq(ChainEntry)
  BY <1>4, <1>6, SeqDef
<1>8. Len(Fired(f)) = Len(Heuristics[f])
  <2>1. 1..Len(Fired(f)) = 1..Len(Heuristics[f]) /\ Len(Fired(f)) \in Nat
    BY <1>6, <1>7, LenProperties
  <2>2. QED
    BY <1>4, <2>1
<1>9. OfHybrid(f) \in Seq(ChainEntry)
  <2>1. \A e \in ChainEntry : <<e>> \in Seq(ChainEntry)
    OBVIOUS
  <2>2. QED
    BY <1>2, <1>3, <2>1 DEF OfHybrid
<1>10. QED
  BY <1>1, <1>2, <1>3, <1>4, <1>7, <1>8, <1>9

\* Every step keeps the types of alerts and audit records.
LEMMA AlertTypesStep == TypeInv /\ [Next]_vars => AlertTypes'
<1> SUFFICES ASSUME TypeInv, [Next]_vars PROVE AlertTypes'
  OBVIOUS
<1>0. AlertTypes /\ QueueTypes
  BY DEF TypeInv
<1>1. ASSUME NEW r \in Request,
             InsertFlows(r) \/ PublishTask(r) \/ PublishFails(r) \/ CommitFlows(r) \/ AbortFlows(r)
      PROVE  AlertTypes'
  <2>1. UNCHANGED <<alerts, cut, found, entries, poisoned>>
    BY <1>1, RequestsFrame DEF workerVars
  <2>2. chain' = chain \/ chain' = Append(chain, Ingested(r))
    BY <1>1 DEF InsertFlows, PublishTask, PublishFails, CommitFlows, AbortFlows, dbVars
  <2>3. Ingested(r) \in ChainEntry
    BY DEF ChainEntry
  <2>4. chain' \in Seq(ChainEntry)
    <3>1. chain \in Seq(ChainEntry)
      BY <1>0 DEF AlertTypes
    <3>2. \A e \in ChainEntry : Append(chain, e) \in Seq(ChainEntry)
      BY <3>1, AppendProperties
    <3>3. QED
      BY <2>2, <2>3, <3>1, <3>2
  <2>5. QED
    BY <1>0, <2>1, <2>4 DEF AlertTypes
<1>2. ASSUME NEW w \in Worker, TakeTask(w) \/ Moves(w)
      PROVE  AlertTypes'
  <2> DEFINE f == task[w]
  <2>1. CASE TakeTask(w) \/ FindFlow(w) \/ NoHybridAlert(w) \/ LookUpTechnique(w) \/ InsertTechnique(w)
    BY <1>0, <2>1 DEF TakeTask, FindFlow, NoHybridAlert, LookUpTechnique, InsertTechnique,
       AlertTypes, dbVars, history
  <2>2. CASE TechniqueRefused(w) \/ FlushFails(w)
    <3>1. /\ UNCHANGED <<alerts, cut, chain>>
          /\ found' = [found EXCEPT ![w] = {}] /\ entries' = [entries EXCEPT ![w] = <<>>]
          /\ poisoned' = [poisoned EXCEPT ![w] = TRUE]
      BY <2>2 DEF TechniqueRefused, FlushFails, Poison, DropRows, dbVars, history
    <3>2. <<>> \in Seq(ChainEntry)
      BY EmptySeq
    <3>3. QED
      BY <1>0, <3>1, <3>2 DEF AlertTypes
  <2>3. CASE Moves(w) /\ ~(TechniqueRefused(w) \/ FlushFails(w))
    <3>1. task[w] \in Flow
      BY <2>3, MovesFrame DEF TypeInv, QueueTypes
    <3>2. CASE RaiseAlert(w)
      <4>1. <<f, HybridModel>> \in AlertRows
        BY <3>1, DetectorFacts
      <4>2. QED
        BY <1>0, <3>2, <4>1 DEF RaiseAlert, AlertTypes, dbVars, history
    <3>3. CASE AuditAlert(w)
      <4>1. Alerted(f, HybridModel) \in ChainEntry
        BY <3>1, DetectorFacts
      <4>2. /\ entries' = [entries EXCEPT ![w] = Append(entries[w], Alerted(f, HybridModel))]
            /\ UNCHANGED <<alerts, cut, chain, found, poisoned>>
        BY <3>3 DEF AuditAlert, dbVars, history
      <4>3. Append(entries[w], Alerted(f, HybridModel)) \in Seq(ChainEntry)
        BY <1>0, <4>1, AppendProperties DEF AlertTypes
      <4>4. QED
        BY <1>0, <4>2, <4>3 DEF AlertTypes
    <3>4. CASE SoftLimitSwallowed(w)
      BY <1>0, <3>4 DEF SoftLimitSwallowed, AlertTypes, dbVars
    <3>5. CASE RunHeuristics(w)
      <4>1. /\ found' = [found EXCEPT ![w] = found[w] \cup {<<f, m>> : m \in Range(Heuristics[f])}]
            /\ entries' = [entries EXCEPT ![w] = entries[w] \o Fired(f)]
            /\ UNCHANGED <<alerts, cut, chain, poisoned>>
        BY <3>5 DEF RunHeuristics, Fired, dbVars, history
      <4>2. {<<f, m>> : m \in Range(Heuristics[f])} \subseteq AlertRows
        BY <3>1, DetectorFacts
      <4>3. entries[w] \o Fired(f) \in Seq(ChainEntry)
        BY <1>0, <3>1, DetectorFacts, ConcatProperties DEF AlertTypes
      <4>4. QED
        BY <1>0, <4>1, <4>2, <4>3 DEF AlertTypes
    <3>6. QED
      BY <2>1, <2>3, <3>2, <3>3, <3>4, <3>5 DEF Moves
  <2>4. QED
    BY <1>2, <2>1, <2>2, <2>3
<1>3. ASSUME NEW w \in Worker, Abandons(w) \/ CommitTask(w)
      PROVE  AlertTypes'
  <2>1. /\ found' = [found EXCEPT ![w] = {}] /\ entries' = [entries EXCEPT ![w] = <<>>]
        /\ poisoned' = [poisoned EXCEPT ![w] = FALSE] /\ cut' = cut
        /\ alerts' \subseteq alerts \cup found[w]
        /\ chain' = chain \/ chain' = chain \o entries[w]
    BY <1>3, AbandonsFrame DEF CommitTask, EndTask, DropRows, dbVars
  <2>2. <<>> \in Seq(ChainEntry) /\ chain \o entries[w] \in Seq(ChainEntry)
    BY <1>0, EmptySeq, ConcatProperties DEF AlertTypes
  <2>3. QED
    BY <1>0, <2>1, <2>2 DEF AlertTypes
<1>4. QED
  <2>1. ASSUME NEW g \in Register, Registers(g) PROVE AlertTypes'
    BY <1>0, <2>1, RegistersFrame DEF AlertTypes, workerVars, history
  <2>2. CASE UNCHANGED vars
    BY <1>0, <2>2 DEF AlertTypes, vars, dbVars, workerVars, history
  <2>3. QED
    BY <1>1, <1>2, <1>3, <2>1, <2>2, StepCases

\* A stage that its worker has not left is the same stage.
LEMMA StageKept ==
  ASSUME NEW v \in Worker, StageOf(v), flows \subseteq flows', cut \subseteq cut',
         wpc'[v] = wpc[v], task'[v] = task[v], found'[v] = found[v], entries'[v] = entries[v]
  PROVE  StageOf(v)'
<1>1. \A f, rows, records : AfterHybrid(f, rows, records, cut) => AfterHybrid(f, rows, records, cut')
  BY DEF AfterHybrid
<1>2. \A f, rows, records : AfterHeuristics(f, rows, records, cut) => AfterHeuristics(f, rows, records, cut')
  BY DEF AfterHeuristics
<1>3. QED
  BY <1>1, <1>2 DEF StageOf

\* Every step of a worker leaves behind what the stages it has been through insert.
LEMMA StageStep == TypeInv /\ StageInv /\ [Next]_vars => StageInv'
<1> SUFFICES ASSUME TypeInv, StageInv, [Next]_vars PROVE StageInv'
  OBVIOUS
<1>0. /\ AlertTypes /\ QueueTypes
      /\ found \in [Worker -> SUBSET AlertRows] /\ entries \in [Worker -> Seq(ChainEntry)]
      /\ wpc \in [Worker -> {"idle", "lookup", "hybrid", "technique", "alert",
                             "audit", "heuristics", "commit"}]
      /\ task \in [Worker -> Flow \cup {None}]
      /\ \A w \in Worker : wpc[w] # "idle" => task[w] \in Flow
      /\ \A w \in Worker : StageOf(w)
  BY DEF TypeInv, AlertTypes, QueueTypes, StageInv
\* Nothing but what worker w does changes.
<1>1. ASSUME NEW w \in Worker, flows \subseteq flows', cut \subseteq cut', StageOf(w)',
             \A v \in Worker \ {w} : /\ wpc'[v] = wpc[v] /\ task'[v] = task[v]
                                     /\ found'[v] = found[v] /\ entries'[v] = entries[v]
      PROVE  StageInv'
  <2>1. \A v \in Worker \ {w} : StageOf(v)'
    BY <1>0, <1>1, StageKept
  <2>2. QED
    BY <1>1, <2>1 DEF StageInv
<1>2. ASSUME flows \subseteq flows', cut \subseteq cut', UNCHANGED <<wpc, task, found, entries>>
      PROVE  StageInv'
  <2>1. \A v \in Worker : StageOf(v)'
    BY <1>0, <1>2, StageKept
  <2>2. QED
    BY <2>1 DEF StageInv
<1>3. ASSUME NEW r \in Request,
             InsertFlows(r) \/ PublishTask(r) \/ PublishFails(r) \/ CommitFlows(r) \/ AbortFlows(r)
      PROVE  StageInv'
  <2>1. flows \subseteq flows'
    BY <1>3 DEF InsertFlows, PublishTask, PublishFails, CommitFlows, AbortFlows, dbVars
  <2>2. QED
    BY <1>2, <1>3, <2>1, RequestsFrame DEF workerVars
<1>4. ASSUME NEW g \in Register, Registers(g) PROVE StageInv'
  BY <1>2, <1>4, RegistersFrame DEF workerVars, history
<1>5. ASSUME NEW w \in Worker, TakeTask(w) PROVE StageInv'
  <2>1. /\ wpc[w] = "idle" /\ wpc' = [wpc EXCEPT ![w] = "lookup"]
        /\ task' = [task EXCEPT ![w] = Head(broker)] /\ UNCHANGED <<flows, cut, found, entries>>
    BY <1>5 DEF TakeTask, WorkerAt, dbVars, history
  <2>2. found[w] = {} /\ entries[w] = <<>>
    BY <1>0, <2>1 DEF StageOf
  <2>3. StageOf(w)'
    BY <1>0, <2>1, <2>2 DEF StageOf
  <2>4. QED
    BY <1>0, <1>1, <2>1, <2>3
<1>6. ASSUME NEW w \in Worker, FindFlow(w) \/ NoHybridAlert(w) \/ LookUpTechnique(w) \/ InsertTechnique(w)
      PROVE  StageInv'
  <2>1. /\ wpc[w] \in {"lookup", "hybrid", "technique"} /\ wpc' = [wpc EXCEPT ![w] = wpc'[w]]
        /\ wpc'[w] \in {"hybrid", "technique", "alert", "heuristics"}
        /\ UNCHANGED <<flows, cut, found, entries, task>>
        /\ wpc[w] = "lookup" => task[w] \in flows
    BY <1>0, <1>6 DEF FindFlow, NoHybridAlert, LookUpTechnique, InsertTechnique, WorkerAt, dbVars, history
  <2>2. found[w] = {} /\ entries[w] = <<>> /\ task[w] \in flows
    BY <1>0, <2>1 DEF StageOf
  <2>3. StageOf(w)'
    BY <1>0, <2>1, <2>2 DEF StageOf, AfterHybrid
  <2>4. QED
    BY <1>0, <1>1, <2>1, <2>3
<1>7. ASSUME NEW w \in Worker, TechniqueRefused(w) \/ FlushFails(w) PROVE StageInv'
  <2>1. /\ wpc[w] \in {"technique", "alert", "audit"} /\ wpc' = [wpc EXCEPT ![w] = "heuristics"]
        /\ found' = [found EXCEPT ![w] = {}] /\ entries' = [entries EXCEPT ![w] = <<>>]
        /\ UNCHANGED <<flows, cut, task>>
    BY <1>7 DEF TechniqueRefused, FlushFails, Poison, DropRows, dbVars, history
  <2>2. task[w] \in flows
    BY <1>0, <2>1 DEF StageOf
  <2>3. StageOf(w)'
    BY <1>0, <2>1, <2>2 DEF StageOf, AfterHybrid
  <2>4. QED
    BY <1>0, <1>1, <2>1, <2>3
<1>8. ASSUME NEW w \in Worker, RaiseAlert(w) PROVE StageInv'
  <2>1. /\ wpc[w] = "alert" /\ wpc' = [wpc EXCEPT ![w] = "audit"]
        /\ found' = [found EXCEPT ![w] = found[w] \cup {<<task[w], HybridModel>>}]
        /\ UNCHANGED <<flows, cut, task, entries>>
    BY <1>8 DEF RaiseAlert, WorkerAt, dbVars, history
  <2>2. found[w] = {} /\ entries[w] = <<>> /\ task[w] \in flows
    BY <1>0, <2>1 DEF StageOf
  <2>3. StageOf(w)'
    BY <1>0, <2>1, <2>2 DEF StageOf
  <2>4. QED
    BY <1>0, <1>1, <2>1, <2>3
<1>9. ASSUME NEW w \in Worker, AuditAlert(w) PROVE StageInv'
  <2>1. /\ wpc[w] = "audit" /\ wpc' = [wpc EXCEPT ![w] = "heuristics"]
        /\ entries' = [entries EXCEPT ![w] = Append(entries[w], Alerted(task[w], HybridModel))]
        /\ UNCHANGED <<flows, cut, task, found>>
    BY <1>9 DEF AuditAlert, WorkerAt, dbVars, history
  <2>2. found[w] = {<<task[w], HybridModel>>} /\ entries[w] = <<>> /\ task[w] \in flows
    BY <1>0, <2>1 DEF StageOf
  <2>3. entries'[w] = OfHybrid(task'[w])
    BY <1>0, <2>1, <2>2 DEF OfHybrid
  <2>4. StageOf(w)'
    BY <1>0, <2>1, <2>2, <2>3 DEF StageOf, AfterHybrid
  <2>5. QED
    BY <1>0, <1>1, <2>1, <2>4
<1>10. ASSUME NEW w \in Worker, SoftLimitSwallowed(w) PROVE StageInv'
  <2>1. /\ wpc[w] \in {"hybrid", "technique", "alert", "audit"} /\ wpc' = [wpc EXCEPT ![w] = "heuristics"]
        /\ cut' = IF wpc[w] = "audit" THEN cut \cup found[w] ELSE cut
        /\ UNCHANGED <<flows, task, found, entries>>
    BY <1>10 DEF SoftLimitSwallowed, dbVars
  <2>2. /\ found[w] \subseteq {<<task[w], HybridModel>>} /\ entries[w] = <<>> /\ task[w] \in flows
        /\ found[w] \subseteq cut'
    BY <1>0, <2>1 DEF StageOf
  <2>3. StageOf(w)'
    BY <1>0, <2>1, <2>2 DEF StageOf, AfterHybrid
  <2>4. QED
    BY <1>0, <1>1, <2>1, <2>3
<1>11. ASSUME NEW w \in Worker, RunHeuristics(w) PROVE StageInv'
  <2> DEFINE f == task[w]
             rows == found[w] \cup {<<f, m>> : m \in Range(Heuristics[f])}
             records == entries[w] \o Fired(f)
  <2>1. /\ wpc[w] = "heuristics" /\ wpc' = [wpc EXCEPT ![w] = "commit"]
        /\ found' = [found EXCEPT ![w] = rows] /\ entries' = [entries EXCEPT ![w] = records]
        /\ UNCHANGED <<flows, cut, task>>
    BY <1>11 DEF RunHeuristics, WorkerAt, Fired, dbVars, history
  <2>2. f \in flows /\ AfterHybrid(f, found[w], entries[w], cut)
    BY <1>0, <2>1 DEF StageOf
  <2>3. <<>> \o Fired(f) = Fired(f)
    BY <1>0, <2>1, DetectorFacts, ConcatEmptySeq
  <2>4. AfterHeuristics(f, rows, records, cut)
    <3>1. found[w] \in SUBSET {<<f, HybridModel>>}
      BY <2>2 DEF AfterHybrid
    <3>2. \/ records = Fired(f) /\ found[w] \subseteq cut
          \/ records = OfHybrid(f) \o Fired(f) /\ found[w] = {<<f, HybridModel>>}
      BY <2>2, <2>3 DEF AfterHybrid
    <3> HIDE DEF records, f
    <3>3. QED
      BY <3>1, <3>2 DEF AfterHeuristics
  <2> HIDE DEF rows, records
  <2>5. /\ wpc'[w] = "commit" /\ task'[w] = f /\ f \in flows' /\ found'[w] = rows
        /\ entries'[w] = records /\ cut' = cut
    BY <1>0, <2>1, <2>2
  <2> HIDE DEF f
  <2>6. StageOf(w)'
    BY <2>4, <2>5 DEF StageOf
  <2>7. QED
    BY <1>0, <1>1, <2>1, <2>6
<1>12. ASSUME NEW w \in Worker, Abandons(w) \/ CommitTask(w) PROVE StageInv'
  <2>1. /\ wpc' = [wpc EXCEPT ![w] = "idle"] /\ task' = [task EXCEPT ![w] = None]
        /\ found' = [found EXCEPT ![w] = {}] /\ entries' = [entries EXCEPT ![w] = <<>>]
        /\ UNCHANGED <<flows, cut>>
    BY <1>12, AbandonsFrame DEF CommitTask, EndTask, DropRows, dbVars
  <2>2. StageOf(w)'
    BY <1>0, <2>1 DEF StageOf
  <2>3. QED
    BY <1>0, <1>1, <2>1, <2>2
<1>13. CASE UNCHANGED vars
  BY <1>2, <1>13 DEF vars, dbVars, workerVars, history
<1>14. QED
  BY <1>3, <1>4, <1>5, <1>6, <1>7, <1>8, <1>9, <1>10, <1>11, <1>12, <1>13, StepCases DEF Moves

-----------------------------------------------------------------------------
(* The committed tables.                                                   *)

\* What a task that commits brings: alerts of its flow, those of every
\* heuristic model that fires among them, and a record of each that was not
\* cut off.
LEMMA CommitBrings ==
  ASSUME TypeInv, StageInv, NEW w \in Worker, wpc[w] = "commit"
  PROVE  /\ task[w] \in Flow /\ task[w] \in flows
         /\ \A a \in found[w] : \E m \in Models : a = <<task[w], m>>
         /\ \A m \in Range(Heuristics[task[w]]) : <<task[w], m>> \in found[w]
         /\ entries[w] \in Seq(ChainEntry)
         /\ \A i \in DOMAIN entries[w] : \E m \in Models :
              entries[w][i] = Alerted(task[w], m) /\ <<task[w], m>> \in found[w]
         /\ \A i, j \in DOMAIN entries[w] : entries[w][i] = entries[w][j] => i = j
         /\ \A a \in found[w] : a \in cut \/ \E i \in DOMAIN entries[w] : entries[w][i] = Alerted(a[1], a[2])
<1> DEFINE f == task[w]
           h == Heuristics[f]
           E == entries[w]
<1>1. f \in Flow /\ f \in flows /\ AfterHeuristics(f, found[w], E, cut) /\ E \in Seq(ChainEntry)
  BY DEF TypeInv, QueueTypes, AlertTypes, StageInv, StageOf
<1>2. /\ Range(h) \subseteq Models /\ HybridModel \in Models /\ HybridModel \notin Range(h)
      /\ Fired(f) \in Seq(ChainEntry) /\ OfHybrid(f) \in Seq(ChainEntry)
      /\ Len(Fired(f)) = Len(h) /\ DOMAIN h = 1..Len(h) /\ IsInjective(h) /\ Len(h) \in Nat
  BY <1>1, DetectorFacts
<1>3. PICK hybrid \in SUBSET {<<f, HybridModel>>} :
        /\ found[w] = hybrid \cup {<<f, m>> : m \in Range(h)}
        /\ \/ E = Fired(f) /\ hybrid \subseteq cut
           \/ E = OfHybrid(f) \o Fired(f) /\ hybrid = {<<f, HybridModel>>}
  BY <1>1 DEF AfterHeuristics
<1>4. /\ \A i \in DOMAIN h : Fired(f)[i] = Alerted(f, h[i]) /\ h[i] \in Range(h)
      /\ \A m \in Range(h) : \E i \in DOMAIN h : h[i] = m
      /\ \A i, j \in DOMAIN h : h[i] = h[j] => i = j
  BY <1>2 DEF Fired, Range, IsInjective
<1> HIDE DEF h, E
<1>5. \A a \in found[w] : \E m \in Models : a = <<f, m>>
  BY <1>2, <1>3
<1>6. \A m \in Range(h) : <<f, m>> \in found[w]
  BY <1>3
<1>7. \A m, n : Alerted(f, m) = Alerted(f, n) => m = n
  BY RecordFacts
<1>8. CASE E = Fired(f) /\ hybrid \subseteq cut
  <2>1. DOMAIN E = DOMAIN h
    BY <1>8 DEF Fired, h
  <2>2. /\ \A i \in DOMAIN E : \E m \in Models : E[i] = Alerted(f, m) /\ <<f, m>> \in found[w]
        /\ \A i, j \in DOMAIN E : E[i] = E[j] => i = j
    BY <1>2, <1>4, <1>6, <1>7, <1>8, <2>1
  <2>3. \A m \in Range(h) : \E i \in DOMAIN E : E[i] = Alerted(f, m)
    BY <1>4, <1>8, <2>1
  <2>4. \A a \in found[w] : a \in cut \/ \E m \in Range(h) : a = <<f, m>> /\ a[1] = f /\ a[2] = m
    BY <1>3, <1>8
  <2>5. \A a \in found[w] : a \in cut \/ \E i \in DOMAIN E : E[i] = Alerted(a[1], a[2])
    BY <2>3, <2>4
  <2>6. QED
    BY <1>1, <1>5, <1>6, <2>2, <2>5 DEF h, E
<1>9. CASE E = OfHybrid(f) \o Fired(f) /\ hybrid = {<<f, HybridModel>>}
  <2>1. OfHybrid(f)[1] = Alerted(f, HybridModel) /\ Len(OfHybrid(f)) = 1
    BY DEF OfHybrid
  <2>2. /\ DOMAIN E = 1..(1 + Len(h)) /\ E[1] = Alerted(f, HybridModel)
        /\ \A i \in DOMAIN h : E[1 + i] = Alerted(f, h[i])
    <3>1. /\ DOMAIN E = 1..(1 + Len(h)) /\ \A i \in 1..1 : E[i] = OfHybrid(f)[i]
          /\ \A i \in 1..Len(h) : E[1 + i] = Fired(f)[i]
      BY <1>2, <1>9, <2>1, RangeOfConcat
    <3>2. QED
      BY <1>2, <1>4, <2>1, <3>1
  <2>3. \A i \in DOMAIN E : i = 1 \/ \E j \in DOMAIN h : i = 1 + j
    <3>1. \A i \in 1..(1 + Len(h)) : i = 1 \/ (i - 1 \in 1..Len(h) /\ i = 1 + (i - 1))
      BY <1>2
    <3>2. QED
      BY <1>2, <2>2, <3>1
  <2>4. 1 \in DOMAIN E /\ \A j \in DOMAIN h : 1 + j \in DOMAIN E
    BY <1>2, <2>2
  <2>5. <<f, HybridModel>> \in found[w]
    BY <1>3, <1>9
  <2>6. \A i \in DOMAIN E : \E m \in Models : E[i] = Alerted(f, m) /\ <<f, m>> \in found[w]
    <3>1. \E m \in Models : E[1] = Alerted(f, m) /\ <<f, m>> \in found[w]
      BY <1>2, <2>2, <2>5
    <3>2. \A j \in DOMAIN h : \E m \in Models : E[1 + j] = Alerted(f, m) /\ <<f, m>> \in found[w]
      BY <1>2, <1>4, <1>6, <2>2
    <3>3. QED
      BY <2>3, <3>1, <3>2
  <2>7. \A i, j \in DOMAIN E : E[i] = E[j] => i = j
    BY <1>2, <1>4, <1>7, <2>2, <2>3
  <2>8. \A m \in Range(h) \cup {HybridModel} : \E i \in DOMAIN E : E[i] = Alerted(f, m)
    BY <1>4, <2>2, <2>4
  <2>9. \A a \in found[w] : \E m \in Range(h) \cup {HybridModel} : a = <<f, m>> /\ a[1] = f /\ a[2] = m
    BY <1>3
  <2>10. QED
    BY <1>1, <1>5, <1>6, <2>6, <2>7, <2>8, <2>9 DEF h, E
<1>10. QED
  BY <1>3, <1>8, <1>9

\* Every commit keeps the tables in agreement: analyses are of stored flows, with their alerts.
LEMMA TablesStep == TypeInv /\ StageInv /\ TablesInv /\ [Next]_vars => TablesInv'
<1> SUFFICES ASSUME TypeInv, StageInv, TablesInv, [Next]_vars PROVE TablesInv'
  OBVIOUS
<1>0. rpc \in [Request -> {"idle", "enqueue", "committed", "aborted"}]
  BY DEF TypeInv, QueueTypes
<1>1. ASSUME UNCHANGED <<alerts, analysed, flows>>, Committed' = Committed PROVE TablesInv'
  BY <1>1 DEF TablesInv
<1>2. ASSUME NEW r \in Request, InsertFlows(r) \/ PublishTask(r) \/ PublishFails(r) \/ AbortFlows(r)
      PROVE  TablesInv'
  <2>1. Committed' = Committed
    BY <1>0, <1>2 DEF InsertFlows, PublishTask, PublishFails, AbortFlows, RequestAt, Committed
  <2>2. flows' = flows
    BY <1>2 DEF InsertFlows, PublishTask, PublishFails, AbortFlows, dbVars
  <2>3. QED
    BY <1>1, <1>2, <2>1, <2>2, RequestsFrame
<1>3. ASSUME NEW r \in Request, CommitFlows(r) PROVE TablesInv'
  <2>1. Committed' = Committed \cup {r} /\ flows' = flows \cup FlowsOf(r)
    BY <1>0, <1>3 DEF CommitFlows, RequestAt, Committed
  <2>2. UNCHANGED <<alerts, analysed>>
    BY <1>3, RequestsFrame
  <2>3. QED
    BY <2>1, <2>2 DEF TablesInv
<1>4. ASSUME NEW g \in Register, Registers(g) PROVE TablesInv'
  BY <1>1, <1>4, RegistersFrame DEF history, Committed
<1>5. ASSUME NEW w \in Worker, TakeTask(w) \/ Moves(w) \/ Abandons(w) PROVE TablesInv'
  BY <1>1, <1>5, MovesFrame, AbandonsFrame DEF TakeTask, dbVars, requestVars, history, Committed
<1>6. ASSUME NEW w \in Worker, CommitTask(w) PROVE TablesInv'
  <2>1. /\ alerts' = alerts \cup found[w] /\ analysed' = analysed \cup {task[w]}
        /\ flows' = flows /\ Committed' = Committed
    BY <1>6 DEF CommitTask, requestVars, Committed
  <2>2. /\ task[w] \in flows /\ \A a \in found[w] : a[1] = task[w]
        /\ \A m \in Range(Heuristics[task[w]]) : <<task[w], m>> \in found[w]
    BY <1>6, CommitBrings DEF CommitTask
  <2>3. QED
    BY <2>1, <2>2 DEF TablesInv
<1>7. CASE UNCHANGED vars
  BY <1>1, <1>7 DEF vars, dbVars, requestVars, history, Committed
<1>8. QED
  BY <1>2, <1>3, <1>4, <1>5, <1>6, <1>7, StepCases

-----------------------------------------------------------------------------
(* The audit chain.                                                        *)

\* Records E appended to a chain c leave what it held where it was, and each of
\* them comes after all of that.
ComeAfter(c, E, d, kind) ==
  LET old == EntriesOf(c, kind)
      new == EntriesOf(d, kind) \ old
  IN  /\ EntriesOf(d, kind) = old \cup new
      /\ \A i \in old : i \in DOMAIN c
      /\ \A i \in DOMAIN c : d[i] = c[i] /\ 1..(i - 1) \subseteq DOMAIN c
      /\ \A i \in new : /\ DOMAIN c \subseteq 1..(i - 1)
                        /\ \E j \in DOMAIN E : d[i] = E[j] /\ E[j].kind = kind
      /\ \A j \in DOMAIN E : E[j].kind = kind => \E i \in new : d[i] = E[j]
      /\ (\A i, j \in DOMAIN E : E[i] = E[j] => i = j) =>
           \A i, j \in new : d[i] = d[j] => i = j

\* Records added at the chain's end come after the old ones, which stay where they were.
LEMMA ChainExtended ==
  ASSUME NEW S, NEW c \in Seq(S), NEW E \in Seq(S), NEW d, d = c \o E, NEW kind
  PROVE  ComeAfter(c, E, d, kind)
<1> DEFINE n == Len(c)
           k == Len(E)
           new == EntriesOf(d, kind) \ EntriesOf(c, kind)
<1>1. /\ n \in Nat /\ k \in Nat /\ DOMAIN c = 1..n /\ DOMAIN E = 1..k /\ DOMAIN d = 1..(n + k)
      /\ \A i \in 1..n : d[i] = c[i]
      /\ \A i \in 1..k : d[n + i] = E[i]
  BY RangeOfConcat
<1> HIDE DEF n, k
<1>2. \A i \in 1..n : i \in 1..(n + k) /\ 1..(i - 1) \subseteq 1..n
  BY <1>1
<1>3. \A i \in 1..(n + k) : i \in 1..n \/ \E j \in 1..k : i = n + j
  <2>1. \A i \in 1..(n + k) : i \in 1..n \/ (i - n \in 1..k /\ i = n + (i - n))
    BY <1>1
  <2>2. QED
    BY <2>1
<1>4. \A j \in 1..k : n + j \in 1..(n + k) /\ 1..n \subseteq 1..((n + j) - 1)
  BY <1>1
<1>5. /\ EntriesOf(c, kind) \subseteq EntriesOf(d, kind)
      /\ \A i \in EntriesOf(c, kind) : i \in DOMAIN c /\ c[i].kind = kind
  BY <1>1, <1>2 DEF EntriesOf
<1>6. \A i \in new : \E j \in 1..k : i = n + j /\ d[i] = E[j] /\ E[j].kind = kind
  <2> TAKE i \in new
  <2>1. i \in 1..(n + k) /\ i \notin 1..n /\ d[i].kind = kind
    BY <1>1 DEF EntriesOf
  <2>2. PICK j \in 1..k : i = n + j
    BY <1>3, <2>1
  <2>3. d[i] = E[j]
    BY <1>1, <2>2
  <2>4. QED
    BY <2>1, <2>2, <2>3
<1>7. \A j \in 1..k : E[j].kind = kind => n + j \in new /\ d[n + j] = E[j]
  <2>1. \A j \in 1..k : n + j \notin 1..n
    BY <1>1
  <2>2. QED
    BY <1>1, <1>4, <2>1 DEF EntriesOf
<1> HIDE DEF new
<1>8. \A i \in new : 1..n \subseteq 1..(i - 1)
  BY <1>4, <1>6
<1>9. ASSUME \A i, j \in 1..k : E[i] = E[j] => i = j
      PROVE  \A i, j \in new : d[i] = d[j] => i = j
  <2> TAKE i, j \in new
  <2>1. PICK p \in 1..k : i = n + p /\ d[i] = E[p]
    BY <1>6
  <2>2. PICK q \in 1..k : j = n + q /\ d[j] = E[q]
    BY <1>6
  <2>3. QED
    BY <1>9, <2>1, <2>2
<1>10. QED
  BY <1>1, <1>2, <1>5, <1>6, <1>7, <1>8, <1>9 DEF ComeAfter, new

\* Every committed flow is in a batch the chain already has.
LEMMA BatchOfFlow ==
  ASSUME TablesInv, BatchChain, NEW f \in flows
  PROVE  \E r \in Request : f \in FlowsOf(r) /\ \E j \in DOMAIN chain : chain[j] = Ingested(r)
<1>1. PICK r \in Committed : f \in FlowsOf(r)
  BY DEF TablesInv
<1>2. PICK by \in Bijection(EntriesOf(chain, "ingested"), Committed) :
        \A i \in EntriesOf(chain, "ingested") : chain[i] = Ingested(by[i])
  BY DEF BatchChain, BatchesReported
<1>3. PICK j \in EntriesOf(chain, "ingested") : by[j] = r
  BY <1>2, Fun_BijectionProperties
<1>4. j \in DOMAIN chain /\ chain[j] = Ingested(r)
  BY <1>2, <1>3 DEF EntriesOf
<1>5. QED
  BY <1>1, <1>4 DEF Committed

\* A record of a batch more: what is said of alerts stands.
LEMMA BatchAppended ==
  ASSUME NEW c \in Seq(ChainEntry), NEW rows, NEW cuts, AlertsReported(c, rows, cuts),
         NEW r \in Request
  PROVE  AlertsReported(Append(c, Ingested(r)), rows, cuts)
<1> DEFINE E == <<Ingested(r)>>
           d == Append(c, Ingested(r))
           A == EntriesOf(c, "alerted")
           B == EntriesOf(d, "alerted")
<1>1. Ingested(r) \in ChainEntry
  BY DEF ChainEntry
<1>2. E \in Seq(ChainEntry) /\ DOMAIN E = {1} /\ E[1].kind # "alerted"
  <2>1. \A e \in ChainEntry : <<e>> \in Seq(ChainEntry)
    OBVIOUS
  <2>2. Ingested(r).kind = "ingested"
    BY RecordFacts
  <2>3. QED
    BY <1>1, <2>1, <2>2
<1>3. d = c \o E
  BY <1>1, AppendIsConcat
<1> HIDE DEF E, d
<1>4. /\ A \subseteq B /\ \A i \in A : i \in DOMAIN c
      /\ \A i \in DOMAIN c : d[i] = c[i] /\ 1..(i - 1) \subseteq DOMAIN c
      /\ \A i \in B \ A : \E j \in DOMAIN E : E[j].kind = "alerted"
  <2>1. ComeAfter(c, E, d, "alerted")
    BY <1>2, <1>3, ChainExtended
  <2>2. QED
    BY <2>1 DEF ComeAfter
<1>5. B = A
  BY <1>2, <1>4
<1>6. /\ \A i \in A : <<c[i].flow, c[i].model>> \in rows
      /\ \A a \in rows : a \in cuts \/ \E i \in A : c[i] = Alerted(a[1], a[2])
      /\ \A i, j \in A : c[i] = c[j] => i = j
      /\ \A i \in A : \E q \in Request :
           c[i].flow \in FlowsOf(q) /\ \E j \in 1..(i - 1) : c[j] = Ingested(q)
  BY DEF AlertsReported
<1> HIDE DEF A
<1>7. /\ \A i \in A : <<d[i].flow, d[i].model>> \in rows
      /\ \A a \in rows : a \in cuts \/ \E i \in A : d[i] = Alerted(a[1], a[2])
      /\ \A i, j \in A : d[i] = d[j] => i = j
      /\ \A i \in A : \E q \in Request :
           d[i].flow \in FlowsOf(q) /\ \E j \in 1..(i - 1) : d[j] = Ingested(q)
  BY <1>4, <1>6
<1>8. QED
  BY <1>5, <1>7 DEF AlertsReported, d

\* A task's records are appended: they report its alerts, once, if none of its
\* flow was reported yet, and the record of the flow's batch is before them.
LEMMA TaskAppended ==
  ASSUME NEW c \in Seq(ChainEntry), NEW rows, NEW cuts, AlertsReported(c, rows, cuts),
         NEW f, \A g, m : <<g, m>> \in rows => g # f,
         NEW r \in Request, f \in FlowsOf(r), \E j \in DOMAIN c : c[j] = Ingested(r),
         NEW E \in Seq(ChainEntry), NEW more,
         \A i \in DOMAIN E : \E m \in Models : E[i] = Alerted(f, m) /\ <<f, m>> \in more,
         \A i, j \in DOMAIN E : E[i] = E[j] => i = j,
         \A a \in more : a \in cuts \/ \E i \in DOMAIN E : E[i] = Alerted(a[1], a[2])
  PROVE  AlertsReported(c \o E, rows \cup more, cuts)
<1> DEFINE d == c \o E
           A == EntriesOf(c, "alerted")
           B == EntriesOf(d, "alerted")
           new == B \ A
<1>1. \A j \in DOMAIN E : E[j].kind = "alerted" /\ E[j].flow = f /\ <<E[j].flow, E[j].model>> \in more
  <2> TAKE j \in DOMAIN E
  <2>1. PICK m \in Models : E[j] = Alerted(f, m) /\ <<f, m>> \in more
    OBVIOUS
  <2>2. QED
    BY <2>1, RecordFacts
<1> HIDE DEF d
<1>2. /\ B = A \cup new /\ \A i \in A : i \in DOMAIN c
      /\ \A i \in DOMAIN c : d[i] = c[i] /\ 1..(i - 1) \subseteq DOMAIN c
      /\ \A i \in new : DOMAIN c \subseteq 1..(i - 1) /\ \E j \in DOMAIN E : d[i] = E[j]
      /\ \A j \in DOMAIN E : E[j].kind = "alerted" => \E i \in new : d[i] = E[j]
      /\ (\A i, j \in DOMAIN E : E[i] = E[j] => i = j) =>
           \A i, j \in new : d[i] = d[j] => i = j
  <2>1. ComeAfter(c, E, d, "alerted")
    BY ChainExtended DEF d
  <2>2. QED
    BY <2>1 DEF ComeAfter
<1>3. /\ \A i \in A : <<c[i].flow, c[i].model>> \in rows
      /\ \A a \in rows : a \in cuts \/ \E i \in A : c[i] = Alerted(a[1], a[2])
      /\ \A i, j \in A : c[i] = c[j] => i = j
      /\ \A i \in A : \E q \in Request :
           c[i].flow \in FlowsOf(q) /\ \E j \in 1..(i - 1) : c[j] = Ingested(q)
  BY DEF AlertsReported
<1>4. B = A \cup new
  BY <1>2
<1> HIDE DEF A, new, B
<1>5. \A i \in A : c[i].flow # f /\ d[i] = c[i]
  BY <1>2, <1>3
<1>6. \A i \in new : d[i].flow = f /\ <<d[i].flow, d[i].model>> \in more
  <2> TAKE i \in new
  <2>1. PICK j \in DOMAIN E : d[i] = E[j]
    BY <1>2
  <2>2. QED
    BY <1>1, <2>1
<1>7. \A i \in B : <<d[i].flow, d[i].model>> \in rows \cup more
  BY <1>3, <1>4, <1>5, <1>6
<1>8. \A a \in rows \cup more : a \in cuts \/ \E i \in B : d[i] = Alerted(a[1], a[2])
  <2>1. \A a \in rows : a \in cuts \/ \E i \in B : d[i] = Alerted(a[1], a[2])
    BY <1>3, <1>4, <1>5
  <2>2. \A j \in DOMAIN E : \E i \in B : d[i] = E[j]
    BY <1>1, <1>2, <1>4
  <2>3. \A a \in more : a \in cuts \/ \E i \in B : d[i] = Alerted(a[1], a[2])
    <3> TAKE a \in more
    <3>1. CASE \E j \in DOMAIN E : E[j] = Alerted(a[1], a[2])
      BY <2>2, <3>1
    <3>2. QED
      BY <3>1
  <2>4. QED
    BY <2>1, <2>3
<1>9. \A i, j \in B : d[i] = d[j] => i = j
  <2>1. \A i, j \in A : d[i] = d[j] => i = j
    BY <1>3, <1>5
  <2>2. \A i \in A, j \in new : d[i] # d[j]
    <3> TAKE i \in A, j \in new
    <3>1. d[i].flow # f /\ d[j].flow = f
      BY <1>5, <1>6
    <3>2. QED
      BY <3>1
  <2>3. \A i, j \in new : d[i] = d[j] => i = j
    BY <1>2
  <2>4. QED
    BY <1>4, <2>1, <2>2, <2>3
<1>10. \A i \in B : \E q \in Request :
         d[i].flow \in FlowsOf(q) /\ \E j \in 1..(i - 1) : d[j] = Ingested(q)
  <2>1. \A i \in A : \E q \in Request :
          d[i].flow \in FlowsOf(q) /\ \E j \in 1..(i - 1) : d[j] = Ingested(q)
    BY <1>2, <1>3
  <2>2. \A i \in new : \E j \in 1..(i - 1) : d[j] = Ingested(r)
    BY <1>2
  <2>3. QED
    BY <1>4, <1>6, <2>1, <2>2
<1>11. QED
  BY <1>7, <1>8, <1>9, <1>10 DEF AlertsReported, d, B

\* Every commit keeps the chain's alerts those of the table, each once and after its batch.
LEMMA AlertChainStep ==
  TypeInv /\ PlaceInv /\ StageInv /\ TablesInv /\ AlertChain /\ BatchChain /\ [Next]_vars => AlertChain'
<1> SUFFICES ASSUME TypeInv, PlaceInv, StageInv, TablesInv, AlertChain, BatchChain, [Next]_vars
             PROVE  AlertChain'
  OBVIOUS
<1>0. chain \in Seq(ChainEntry)
  BY DEF TypeInv, AlertTypes
<1>1. ASSUME chain' = chain, alerts' = alerts, cut \subseteq cut' PROVE AlertChain'
  BY <1>1 DEF AlertChain, AlertsReported
<1>2. ASSUME NEW r \in Request, InsertFlows(r) \/ PublishTask(r) \/ PublishFails(r) \/ AbortFlows(r)
      PROVE  AlertChain'
  BY <1>1, <1>2 DEF InsertFlows, PublishTask, PublishFails, AbortFlows, dbVars, history
<1>3. ASSUME NEW r \in Request, CommitFlows(r) PROVE AlertChain'
  <2>1. chain' = Append(chain, Ingested(r)) /\ alerts' = alerts /\ cut' = cut
    BY <1>3 DEF CommitFlows, history
  <2>2. QED
    BY <1>0, <2>1, BatchAppended DEF AlertChain
<1>4. ASSUME NEW g \in Register, Registers(g) PROVE AlertChain'
  BY <1>1, <1>4, RegistersFrame DEF history
<1>5. ASSUME NEW w \in Worker, Moves(w) PROVE AlertChain'
  <2>1. cut \subseteq cut'
    BY <1>5 DEF Moves, FindFlow, NoHybridAlert, LookUpTechnique, InsertTechnique, TechniqueRefused,
       RaiseAlert, AuditAlert, FlushFails, SoftLimitSwallowed, RunHeuristics, Poison, history
  <2>2. QED
    BY <1>1, <1>5, <2>1, MovesFrame DEF dbVars
<1>6. ASSUME NEW w \in Worker, TakeTask(w) \/ Abandons(w) PROVE AlertChain'
  BY <1>1, <1>6, AbandonsFrame DEF TakeTask, dbVars, history
<1>7. ASSUME NEW w \in Worker, CommitTask(w) PROVE AlertChain'
  <2> DEFINE f == task[w]
             E == entries[w]
             more == found[w]
  <2>1. chain' = chain \o E /\ alerts' = alerts \cup more /\ cut' = cut
    BY <1>7 DEF CommitTask
  <2>2. /\ f \in flows /\ E \in Seq(ChainEntry)
        /\ \A i \in DOMAIN E : \E m \in Models : E[i] = Alerted(f, m) /\ <<f, m>> \in more
        /\ \A i, j \in DOMAIN E : E[i] = E[j] => i = j
        /\ \A a \in more : a \in cut \/ \E i \in DOMAIN E : E[i] = Alerted(a[1], a[2])
    BY <1>7, CommitBrings DEF CommitTask
  <2>3. f \notin analysed
    <3>1. f \in Range(task)
      BY DEF TypeInv, QueueTypes, Range
    <3>2. QED
      BY <3>1 DEF PlaceInv
  <2>4. \A g, m : <<g, m>> \in alerts => g # f
    <3>1. \A g, m : <<g, m>> \in alerts => g \in analysed
      BY DEF TablesInv
    <3>2. QED
      BY <2>3, <3>1
  <2>5. PICK r \in Request : f \in FlowsOf(r) /\ \E j \in DOMAIN chain : chain[j] = Ingested(r)
    BY <2>2, BatchOfFlow
  <2> HIDE DEF f, E, more
  <2>6. AlertsReported(chain, alerts, cut)
    BY DEF AlertChain
  <2>7. AlertsReported(chain \o E, alerts \cup more, cut)
    BY <1>0, <2>2, <2>4, <2>5, <2>6, TaskAppended
  <2>8. QED
    BY <2>1, <2>7 DEF AlertChain
<1>8. CASE UNCHANGED vars
  BY <1>1, <1>8 DEF vars, dbVars, history
<1>9. QED
  BY <1>2, <1>3, <1>4, <1>5, <1>6, <1>7, <1>8, StepCases

\* One record more for each batch that is committed.
LEMMA BatchChainStep == TypeInv /\ StageInv /\ BatchChain /\ [Next]_vars => BatchChain'
<1> SUFFICES ASSUME TypeInv, StageInv, BatchChain, [Next]_vars PROVE BatchChain'
  OBVIOUS
<1>0. chain \in Seq(ChainEntry) /\ rpc \in [Request -> {"idle", "enqueue", "committed", "aborted"}]
  BY DEF TypeInv, AlertTypes, QueueTypes
<1>1. ASSUME EntriesOf(chain', "ingested") = EntriesOf(chain, "ingested"), Committed' = Committed,
             \A i \in EntriesOf(chain, "ingested") : chain'[i] = chain[i]
      PROVE  BatchChain'
  BY <1>1 DEF BatchChain, BatchesReported
<1>2. ASSUME chain' = chain, rpc' = rpc PROVE BatchChain'
  BY <1>1, <1>2 DEF Committed
<1>3. ASSUME NEW r \in Request, InsertFlows(r) \/ PublishTask(r) \/ PublishFails(r) \/ AbortFlows(r)
      PROVE  BatchChain'
  <2>1. chain' = chain
    BY <1>3 DEF InsertFlows, PublishTask, PublishFails, AbortFlows, dbVars
  <2>2. Committed' = Committed
    BY <1>0, <1>3 DEF InsertFlows, PublishTask, PublishFails, AbortFlows, RequestAt, Committed
  <2>3. QED
    BY <1>1, <2>1, <2>2
<1>4. ASSUME NEW r \in Request, CommitFlows(r) PROVE BatchChain'
  <2> DEFINE E == <<Ingested(r)>>
             d == chain \o E
             old == EntriesOf(chain, "ingested")
             new == EntriesOf(d, "ingested") \ old
  <2>1. /\ chain' = Append(chain, Ingested(r)) /\ Ingested(r) \in ChainEntry
        /\ Committed' = Committed \cup {r} /\ r \notin Committed
    BY <1>0, <1>4 DEF CommitFlows, RequestAt, Committed, ChainEntry
  <2>2. E \in Seq(ChainEntry) /\ DOMAIN E = {1} /\ E[1] = Ingested(r) /\ E[1].kind = "ingested"
    <3>1. \A e \in ChainEntry : <<e>> \in Seq(ChainEntry)
      OBVIOUS
    <3>2. Ingested(r).kind = "ingested"
      BY RecordFacts
    <3>3. QED
      BY <2>1, <3>1, <3>2
  <2>3. chain' = d
    BY <1>0, <2>1, AppendIsConcat
  <2> HIDE DEF E
  <2>4. ComeAfter(chain, E, d, "ingested")
    BY <1>0, <2>2, ChainExtended
  <2> HIDE DEF d
  <2>5. /\ EntriesOf(d, "ingested") = old \cup new
        /\ \A i \in old : i \in DOMAIN chain /\ d[i] = chain[i]
        /\ \A i \in new : d[i] = Ingested(r)
        /\ \A i, j \in new : i = j
        /\ \E i \in new : TRUE
    BY <2>2, <2>4 DEF ComeAfter
  <2>6. PICK by \in Bijection(old, Committed) : \A i \in old : chain[i] = Ingested(by[i])
    BY DEF BatchChain, BatchesReported
  <2>7. PICK n \in new : new = {n} /\ n \notin old
    BY <2>5
  <2> HIDE DEF old, new
  <2> DEFINE with == [i \in old \cup {n} |-> IF i = n THEN r ELSE by[i]]
  <2>8. /\ by \in [old -> Committed] /\ \A a, b \in old : by[a] = by[b] => a = b
        /\ \A t \in Committed : \E i \in old : by[i] = t
    BY <2>6, Fun_BijectionProperties
  <2>9. /\ with \in [old \cup {n} -> Committed \cup {r}]
        /\ \A a, b \in old \cup {n} : with[a] = with[b] => a = b
        /\ \A t \in Committed \cup {r} : \E i \in old \cup {n} : with[i] = t
    BY <2>1, <2>7, <2>8
  <2>10. \A i \in old \cup {n} : d[i] = Ingested(with[i])
    BY <2>5, <2>6, <2>7
  <2> HIDE DEF with
  <2>11. with \in Bijection(old \cup {n}, Committed \cup {r})
    BY <2>9, Fun_IsBij
  <2>12. BatchesReported(d, Committed \cup {r})
    BY <2>5, <2>7, <2>10, <2>11 DEF BatchesReported
  <2>13. QED
    BY <2>1, <2>3, <2>12 DEF BatchChain
<1>5. ASSUME NEW g \in Register, Registers(g) PROVE BatchChain'
  BY <1>2, <1>5, RegistersFrame
<1>6. ASSUME NEW w \in Worker, TakeTask(w) \/ Moves(w) \/ Abandons(w) PROVE BatchChain'
  BY <1>2, <1>6, MovesFrame, AbandonsFrame DEF TakeTask, dbVars, requestVars
<1>7. ASSUME NEW w \in Worker, CommitTask(w) PROVE BatchChain'
  <2> DEFINE E == entries[w]
  <2>1. E \in Seq(ChainEntry) /\ \A j \in DOMAIN E : \E m \in Models : E[j] = Alerted(task[w], m)
    BY <1>7, CommitBrings DEF CommitTask
  <2>2. chain' = chain \o E /\ Committed' = Committed
    BY <1>7 DEF CommitTask, requestVars, Committed
  <2> HIDE DEF E
  <2>3. ComeAfter(chain, E, chain', "ingested")
    BY <1>0, <2>1, <2>2, ChainExtended
  <2>4. \A j \in DOMAIN E : E[j].kind # "ingested"
    <3> TAKE j \in DOMAIN E
    <3>1. PICK m \in Models : E[j] = Alerted(task[w], m)
      BY <2>1
    <3>2. E[j].kind = "alerted"
      BY <3>1, RecordFacts
    <3>3. QED
      BY <3>2
  <2>5. /\ EntriesOf(chain', "ingested") = EntriesOf(chain, "ingested")
        /\ \A i \in EntriesOf(chain, "ingested") : chain'[i] = chain[i]
    BY <2>3, <2>4 DEF ComeAfter
  <2>6. QED
    BY <1>1, <2>2, <2>5
<1>8. CASE UNCHANGED vars
  BY <1>2, <1>8 DEF vars, dbVars, requestVars
<1>9. QED
  BY <1>3, <1>4, <1>5, <1>6, <1>7, <1>8, StepCases

-----------------------------------------------------------------------------
(* The theorems.                                                           *)

\* The invariant holds of empty tables and an empty queue.
LEMMA InitInv == Init => IInv
<1> SUFFICES ASSUME Init PROVE IInv
  OBVIOUS
<1>1. QueueTypes
  BY DEF Init, QueueTypes
<1>2. TechniqueTypes
  <2>1. \A g \in Register : Len(Offer[g]) \in Nat
    BY OfferAssumption, LenProperties
  <2>2. \A g \in Register : 0 \in 0..Len(Offer[g])
    BY <2>1
  <2> DEFINE e == [at |-> "idle", asked |-> 0, absent |-> <<>>, held |-> {}]
  <2>3. e \in Registration /\ e.asked = 0 /\ e.absent = <<>> /\ e.held = {}
    BY DEF Registration
  <2>4. reg = [g \in Register |-> e] /\ techniques = {} /\ newtech = [w \in Worker |-> None]
    BY DEF Init
  <2> HIDE DEF e
  <2>5. \A g \in Register : reg[g] = e /\ <<>> \in Seq(Range(Offer[g]))
    BY <2>4
  <2>6. QED
    BY <2>2, <2>3, <2>4, <2>5 DEF TechniqueTypes
<1>3. AlertTypes
  BY DEF Init, AlertTypes
<1>4. TechInv
  BY DEF Init, TechInv
<1>5. PlaceInv
  <2>1. Range(<<>>) = {} /\ IsInjective(<<>>)
    BY DEF Range, IsInjective
  <2>2. Range(broker) = {} /\ analysed = {} /\ \A x \in Range(task) : x = None
    BY <2>1 DEF Init, Range
  <2>3. \A r \in Request : FlowsOf(r) \subseteq Flow
    BY BatchFacts
  <2>4. \A r \in Request : FlowsOf(r) \cap Published = {}
    BY <2>2, <2>3, NoneAssumption DEF Published
  <2>5. \A r \in Request : todo[r] = <<>>
    BY DEF Init
  <2>6. Range(broker) \cap (Range(task) \cup analysed) = {} /\ Range(task) \cap analysed = {}
    BY <2>2
  <2>7. \A v, w \in Worker : task[v] = None
    BY DEF Init
  <2>8. IsInjective(broker)
    BY <2>1 DEF Init
  <2>9. QED
    BY <2>1, <2>4, <2>5, <2>6, <2>7, <2>8 DEF PlaceInv
<1>6. StageInv
  BY DEF Init, StageInv, StageOf
<1>7. TablesInv
  BY DEF Init, TablesInv, Committed
<1>8. AlertChain
  BY DEF Init, AlertChain, AlertsReported, EntriesOf
<1>9. BatchChain
  <2>1. EntriesOf(chain, "ingested") = {} /\ Committed = {}
    BY DEF Init, EntriesOf, Committed
  <2> DEFINE by == [i \in {} |-> i]
  <2>2. /\ by \in [{} -> {}] /\ \A a, b \in {} : by[a] = by[b] => a = b
        /\ \A t \in {} : \E i \in {} : by[i] = t
    OBVIOUS
  <2>3. by \in Bijection({}, {})
    BY <2>2, Fun_IsBij
  <2>4. QED
    BY <2>1, <2>3 DEF BatchChain, BatchesReported
<1>10. QED
  BY <1>1, <1>2, <1>3, <1>4, <1>5, <1>6, <1>7, <1>8, <1>9 DEF IInv, TypeInv

\* Every step keeps the invariant.
LEMMA IInvStep == IInv /\ [Next]_vars => IInv'
BY QueueTypesStep, TechniqueTypesStep, AlertTypesStep, TechStep, PlaceStep, StageStep, TablesStep,
   AlertChainStep, BatchChainStep DEF IInv, TypeInv

\* The invariant holds in every reachable state.
LEMMA Invariance == Spec => []IInv
BY InitInv, IInvStep, PTL DEF Spec

\* What a worker holds is of its flow.
LEMMA RowsOfTask ==
  ASSUME TypeInv, StageInv, NEW w \in Worker
  PROVE  /\ found[w] \subseteq {task[w]} \X Models
         /\ Range(entries[w]) \subseteq {Alerted(task[w], m) : m \in Models}
<1>1. StageOf(w) /\ HybridModel \in Models
  BY DEF StageInv, Models
<1>2. Range(<<>>) = {}
  BY DEF Range
<1>3. CASE wpc[w] \notin {"heuristics", "commit"}
  BY <1>1, <1>2, <1>3 DEF StageOf, TypeInv, QueueTypes
<1>4. CASE wpc[w] = "heuristics"
  <2>1. AfterHybrid(task[w], found[w], entries[w], cut)
    BY <1>1, <1>4 DEF StageOf
  <2>2. Range(OfHybrid(task[w])) = {Alerted(task[w], HybridModel)}
    BY DEF Range, OfHybrid
  <2>3. QED
    BY <1>1, <1>2, <2>1, <2>2 DEF AfterHybrid
<1>5. CASE wpc[w] = "commit"
  <2>1. /\ \A a \in found[w] : \E m \in Models : a = <<task[w], m>>
        /\ \A i \in DOMAIN entries[w] : \E m \in Models : entries[w][i] = Alerted(task[w], m)
    BY <1>5, CommitBrings
  <2>2. QED
    BY <2>1 DEF Range
<1>6. QED
  BY <1>3, <1>4, <1>5

\* Every variable keeps its type; a worker without a task is idle, and what it
\* has inserted and not committed is of the flow whose task it runs.
THEOREM TypeCorrect == Spec => []TypeOK
<1>1. IInv => TypeOK
  <2> SUFFICES ASSUME IInv PROVE TypeOK
    OBVIOUS
  <2>1. TypeInv /\ StageInv
    BY DEF IInv
  <2>2. \A i \in DOMAIN chain :
          \/ \E r \in Request : chain[i] = Ingested(r)
          \/ \E a \in AlertRows : chain[i] = Alerted(a[1], a[2])
    <3>1. \A i \in DOMAIN chain : chain[i] \in ChainEntry
      BY <2>1, LenProperties, ElementOfSeq DEF TypeInv, AlertTypes
    <3>2. QED
      BY <3>1 DEF ChainEntry
  <2>3. \A w \in Worker : /\ found[w] \subseteq {task[w]} \X Models
                          /\ Range(entries[w]) \subseteq {Alerted(task[w], m) : m \in Models}
    BY <2>1, RowsOfTask
  <2>4. \A g \in Register :
          /\ reg[g].at \in {"idle", "open", "ended"} /\ reg[g].asked \in 0..Len(Offer[g])
          /\ reg[g].absent \in Seq(Range(Offer[g])) /\ reg[g].held \subseteq Range(Offer[g])
    BY <2>1 DEF TypeInv, TechniqueTypes, Registration
  <2>5. QED
    BY <2>1, <2>2, <2>3, <2>4 DEF TypeOK, TypeInv, QueueTypes, TechniqueTypes, AlertTypes
<1>2. QED
  BY <1>1, Invariance, PTL

\* A flow whose task committed has the alert of every heuristic model that
\* fires on it, and a flow whose task did not has no alert at all.
THEOREM WholeAnalyses == Spec => []WholeAnalysis
<1>1. IInv => WholeAnalysis
  <2> SUFFICES ASSUME TablesInv PROVE WholeAnalysis
    BY DEF IInv
  <2>1. \A f : \A m \in ModelsOf(f) : f \in analysed
    BY DEF TablesInv, ModelsOf
  <2>2. \A f \in analysed : \A m \in Range(Heuristics[f]) : m \in ModelsOf(f)
    <3> SUFFICES ASSUME NEW f \in analysed, NEW m \in Range(Heuristics[f]) PROVE m \in ModelsOf(f)
      OBVIOUS
    <3>1. <<f, m>> \in alerts /\ <<f, m>>[1] = f /\ <<f, m>>[2] = m
      BY DEF TablesInv
    <3>2. QED
      BY <3>1 DEF ModelsOf
  <2>3. QED
    BY <2>1, <2>2 DEF WholeAnalysis
<1>2. QED
  BY <1>1, Invariance, PTL

\* No two open transactions, of tasks or of requests, hold an uncommitted row
\* for the same technique, and none holds one for a technique that is committed.
THEOREM TechniquesUnique == Spec => []OneRowPerTechnique
<1>1. IInv => OneRowPerTechnique
  BY DEF IInv, TechInv, OneRowPerTechnique, HeldIn
<1>2. QED
  BY <1>1, Invariance, PTL

\* The chain reports each committed alert once and no other, but for those the
\* soft time limit cut off; it has one record for each batch that was
\* committed, and reports an alert of a flow after that flow's batch.
THEOREM AuditTellsTables == Spec => []AuditMatchesTables
<1> DEFINE A == Entries("alerted")
           row == [i \in A |-> <<chain[i].flow, chain[i].model>>]
<1>1. IInv => AuditMatchesTables
  <2> SUFFICES ASSUME IInv PROVE AuditMatchesTables
    OBVIOUS
  <2>1. /\ chain \in Seq(ChainEntry) /\ TablesInv
        /\ AlertsReported(chain, alerts, cut) /\ BatchesReported(chain, Committed)
    BY DEF IInv, TypeInv, AlertTypes, AlertChain, BatchChain
  <2>2. \A kind : EntriesOf(chain, kind) = Entries(kind)
    BY DEF EntriesOf, Entries
  <2>3. /\ \A i \in A : <<chain[i].flow, chain[i].model>> \in alerts
        /\ \A a \in alerts : a \in cut \/ \E i \in A : chain[i] = Alerted(a[1], a[2])
        /\ \A i, j \in A : chain[i] = chain[j] => i = j
        /\ \A i \in A : \E r \in Request :
             chain[i].flow \in FlowsOf(r) /\ \E j \in 1..(i - 1) : chain[j] = Ingested(r)
    BY <2>1, <2>2 DEF AlertsReported
  <2>4. \A i \in A : \E a \in AlertRows : chain[i] = Alerted(a[1], a[2])
    <3> TAKE i \in A
    <3>1. chain[i] \in ChainEntry /\ chain[i].kind = "alerted"
      BY <2>1, LenProperties, ElementOfSeq DEF Entries
    <3>2. QED
      BY <3>1, RecordFacts DEF ChainEntry
  <2>5. \A i \in A : chain[i] = Alerted(chain[i].flow, chain[i].model)
    BY <2>4, RecordFacts
  <2>6. AuditedAlerts \subseteq alerts
    BY <2>3 DEF AuditedAlerts
  <2>7. alerts \ AuditedAlerts \subseteq cut
    <3>1. \A a \in alerts : a \in AlertRows
      BY DEF IInv, TypeInv, AlertTypes
    <3>2. \A a \in AlertRows : a = <<a[1], a[2]>>
      BY DEF AlertRows
    <3>3. \A a \in AlertRows : \A i \in A : chain[i] = Alerted(a[1], a[2]) => a \in AuditedAlerts
      BY <3>2, RecordFacts DEF AuditedAlerts
    <3>4. QED
      BY <2>3, <3>1, <3>3
  <2>8. Cardinality(A) = Cardinality(AuditedAlerts)
    <3>1. IsFiniteSet(A)
      <4>1. A \subseteq 1..Len(chain) /\ Len(chain) \in Nat
        BY <2>1, LenProperties DEF Entries
      <4>2. IsFiniteSet(1..Len(chain))
        BY <4>1, FS_Interval
      <4>3. QED
        BY <4>1, <4>2, FS_Subset
    <3>2. row \in [A -> AuditedAlerts] /\ \A t \in AuditedAlerts : \E i \in A : row[i] = t
      BY DEF AuditedAlerts
    <3>3. \A i, j \in A : row[i] = row[j] => i = j
      <4> TAKE i, j \in A
      <4> HAVE row[i] = row[j]
      <4>1. chain[i].flow = chain[j].flow /\ chain[i].model = chain[j].model
        OBVIOUS
      <4>2. chain[i] = chain[j]
        BY <2>5, <4>1
      <4>3. QED
        BY <2>3, <4>2
    <3> HIDE DEF row, A
    <3>4. row \in Bijection(A, AuditedAlerts)
      BY <3>2, <3>3, Fun_IsBij
    <3>5. ExistsBijection(A, AuditedAlerts)
      BY <3>4 DEF ExistsBijection
    <3>6. QED
      BY <3>1, <3>5, FS_Bijection
  <2>9. /\ flows = UNION {FlowsOf(r) : r \in Committed}
        /\ \E by \in Bijection(Entries("ingested"), Committed) :
             \A i \in Entries("ingested") : chain[i] = Ingested(by[i])
    BY <2>1, <2>2 DEF TablesInv, BatchesReported
  <2>10. \A i \in Entries("ingested") : chain[i].named \subseteq flows
    <3>1. PICK by \in Bijection(Entries("ingested"), Committed) :
            \A i \in Entries("ingested") : chain[i] = Ingested(by[i])
      BY <2>9
    <3>2. \A i \in Entries("ingested") : by[i] \in Committed
      BY <3>1, Fun_BijectionProperties
    <3>3. \A i \in Entries("ingested") : chain[i].named \subseteq FlowsOf(by[i])
      BY <3>1, RecordFacts
    <3>4. QED
      BY <2>9, <3>2, <3>3
  <2>11. QED
    BY <2>3, <2>6, <2>7, <2>8, <2>9, <2>10 DEF AuditMatchesTables
<1>2. QED
  BY <1>1, Invariance, PTL

=============================================================================
