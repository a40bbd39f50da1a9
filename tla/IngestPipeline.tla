--------------------------- MODULE IngestPipeline ---------------------------
(***************************************************************************)
(* From an ingested flow to its alerts.  An API request inserts a batch of *)
(* flows and one audit record, publishes one Celery task per flow while    *)
(* its transaction is still open, and commits (endpoints/flows.py,         *)
(* services/flow_service.py).  A worker takes a task, looks the flow up,   *)
(* runs the hybrid detector inside a try block that swallows every         *)
(* exception, then the heuristic detectors, and commits all alerts and     *)
(* their audit records in one transaction (workers/tasks.py).  The         *)
(* techniques its alerts refer to are also registered by requests, one by  *)
(* one or all defaults at once (services/mitre_service.py).                *)
(*                                                                         *)
(* The database is its committed tables; the audit ledger is the abstract  *)
(* chain of module Ledger, to which a commit appends its records as a block*)
(* (AuditLedger shows that the real one implements it).                    *)
(***************************************************************************)
EXTENDS Integers, Sequences, SequencesExt

CONSTANTS
  Request,    \* API requests that ingest flows
  Batch,      \* Batch[r]: the flows r ingests, in the order of its list
  Flow,       \* flow identifiers, each ingested by one request
  Worker,     \* the execution slots of the Celery worker
  Heuristics, \* Heuristics[f]: the heuristic models that fire on f, in order
  Hybrid,     \* Hybrid[f]: does the ML + Sigma stage call f a threat?
  Technique,  \* Technique[f]: the MITRE technique that stage maps f to
  AuditedIds, \* how many flows of a batch its audit record names (50)
  Register,   \* API requests that register techniques
  Offer,      \* Offer[g]: those g registers, in order: the defaults, or one
  Faults,     \* the kinds of failure that may happen
  None        \* no flow, no technique

HybridModel == "hybrid"

\* The broker refuses a message; a request's handler or commit fails; the
\* hybrid stage's engines raise; a statement of a task fails; a worker process
\* is killed (crash, hard time limit); the soft time limit is raised in a task.
FaultKinds == {"broker", "request", "engine", "database", "kill", "softlimit"}

ASSUME BatchAssumption ==
  /\ Batch \in [Request -> Seq(Flow)]
  /\ \A r \in Request : Batch[r] # <<>>
  /\ \A r, q \in Request : \A i \in DOMAIN Batch[r], j \in DOMAIN Batch[q] :
       Batch[r][i] = Batch[q][j] => r = q /\ i = j
ASSUME DetectorAssumption ==
  /\ DOMAIN Heuristics = Flow
  /\ \A f \in Flow : /\ Heuristics[f] \in Seq(Range(Heuristics[f]))
                     /\ IsInjective(Heuristics[f]) /\ HybridModel \notin Range(Heuristics[f])
  /\ Hybrid \in [Flow -> BOOLEAN]
  /\ DOMAIN Technique = Flow /\ \A f \in Flow : Technique[f] # None
\* Transactions that insert the same techniques do so in the same order.
ASSUME OfferAssumption ==
  /\ DOMAIN Offer = Register
  /\ \A g \in Register : Offer[g] \in Seq(Range(Offer[g]))
  /\ \A g, h \in Register : Len(Offer[g]) = 1 \/ Len(Offer[h]) = 1 \/ Offer[g] = Offer[h]
ASSUME FaultsAssumption == Faults \subseteq FaultKinds
ASSUME AuditedIdsAssumption == AuditedIds \in Nat
ASSUME NoneAssumption == None \notin Flow

VARIABLES
  flows,      \* committed rows of the flows table
  alerts,     \* committed <<flow, model>> rows of the alerts table
  techniques, \* committed technique_id's of mitre_mappings
  chain,      \* committed audit records, in sequence order
  broker,     \* the Celery queue in Redis
  rpc,        \* rpc[r]: what request r does next
  todo,       \* todo[r]: flows r has still to publish a task for
  reg,        \* reg[g]: where g is, [at, asked, absent, held]
  wpc,        \* wpc[w]: what worker slot w does next
  task,       \* task[w]: the flow whose task w runs
  found,      \* found[w]: alerts w has inserted and not committed
  entries,    \* entries[w]: audit records w has inserted and not committed
  newtech,    \* newtech[w]: technique w has inserted and not committed
  poisoned,   \* poisoned[w]: w's session failed a flush and needs a rollback
  analysed,   \* history: flows whose task committed
  lost,       \* history: flows whose task was not published or came to nothing
  cut         \* history: alerts whose audit record the soft time limit cut off

dbVars      == <<flows, alerts, techniques, chain>>
requestVars == <<rpc, todo, reg>>
workerVars  == <<wpc, task, found, entries, newtech, poisoned>>
history    == <<analysed, lost, cut>>
vars == <<dbVars, broker, requestVars, workerVars, history>>

\* The audit record of a batch: its size, and the first of its flows.
FlowsOf(r)  == Range(Batch[r])
Ingested(r) == [kind |-> "ingested", size |-> Len(Batch[r]),
                named |-> {Batch[r][i] : i \in {j \in DOMAIN Batch[r] : j <= AuditedIds}}]
Alerted(f, m) == [kind |-> "alerted", flow |-> f, model |-> m]

Init ==
  /\ flows = {} /\ alerts = {} /\ techniques = {} /\ chain = <<>>
  /\ broker = <<>>
  /\ rpc = [r \in Request |-> "idle"]
  /\ todo = [r \in Request |-> <<>>]
  /\ reg = [g \in Register |-> [at |-> "idle", asked |-> 0, absent |-> <<>>, held |-> {}]]
  /\ wpc = [w \in Worker |-> "idle"]
  /\ task = [w \in Worker |-> None]
  /\ found = [w \in Worker |-> {}]
  /\ entries = [w \in Worker |-> <<>>]
  /\ newtech = [w \in Worker |-> None]
  /\ poisoned = [w \in Worker |-> FALSE]
  /\ analysed = {} /\ lost = {} /\ cut = {}

-----------------------------------------------------------------------------
(* Ingest requests.                                                        *)

RequestAt(r, from, to) ==
  /\ rpc[r] = from
  /\ rpc' = [rpc EXCEPT ![r] = to]

\* Fault: an off-by-one in the loop over created_flows.
InsertFlowsSkippingLast(r) ==
  /\ RequestAt(r, "idle", "enqueue")
  /\ todo' = [todo EXCEPT ![r] = SubSeq(Batch[r], 1, Len(Batch[r]) - 1)]
  /\ UNCHANGED <<dbVars, broker, reg, workerVars, history>>

\* create_flow / create_batch: flows and one audit record, flushed only.
InsertFlows(r) ==
  /\ RequestAt(r, "idle", "enqueue")
  /\ todo' = [todo EXCEPT ![r] = Batch[r]]
  /\ UNCHANGED <<dbVars, broker, reg, workerVars, history>>

\* detect_threats_for_flow_task.delay, before the commit.
PublishTask(r) ==
  /\ rpc[r] = "enqueue" /\ todo[r] # <<>>
  /\ broker' = Append(broker, Head(todo[r]))
  /\ todo' = [todo EXCEPT ![r] = Tail(@)]
  /\ UNCHANGED <<dbVars, rpc, reg, workerVars, history>>

\* .delay raises and the exception is dropped: nobody will publish it again.
PublishFails(r) ==
  /\ "broker" \in Faults
  /\ rpc[r] = "enqueue" /\ todo[r] # <<>>
  /\ lost' = lost \cup {Head(todo[r])}
  /\ todo' = [todo EXCEPT ![r] = Tail(@)]
  /\ UNCHANGED <<dbVars, broker, rpc, reg, workerVars, analysed, cut>>

\* The session dependency commits after the endpoint has returned.
CommitFlows(r) ==
  /\ todo[r] = <<>>
  /\ RequestAt(r, "enqueue", "committed")
  /\ flows' = flows \cup FlowsOf(r)
  /\ chain' = Append(chain, Ingested(r))
  /\ UNCHANGED <<alerts, techniques, broker, todo, reg, workerVars, history>>

\* An exception, a failed commit or a crash: the tasks stay in the queue.
AbortFlows(r) ==
  /\ "request" \in Faults
  /\ RequestAt(r, "enqueue", "aborted")
  /\ UNCHANGED <<dbVars, broker, todo, reg, workerVars, history>>

-----------------------------------------------------------------------------
(* Requests that register techniques: POST /mitre/seed and its twin on the *)
(* dashboard (seed_defaults), POST /mitre (create).                        *)

\* An open transaction has an uncommitted row for technique t.
Held(t) == (\E v \in Worker : newtech[v] = t) \/ (\E g \in Register : t \in reg[g].held)

AllAsked(g) == reg[g].at = "open" /\ reg[g].asked = Len(Offer[g])

EndRegistration(g) == reg' = [reg EXCEPT ![g] = [@ EXCEPT !.at = "ended", !.held = {}]]

\* One look-up per technique, before anything is inserted.
LookUpOffered(g) ==
  /\ reg[g].at # "ended" /\ reg[g].asked < Len(Offer[g])
  /\ LET t == Offer[g][reg[g].asked + 1]
     IN  reg' = [reg EXCEPT ![g].at = "open", ![g].asked = @ + 1,
                            ![g].absent = IF t \in techniques THEN @ ELSE Append(@, t)]
  /\ UNCHANGED <<dbVars, broker, rpc, todo, workerVars, history>>

\* One row of the flush; it waits for a transaction that holds the technique.
InsertOffered(g) ==
  /\ AllAsked(g) /\ reg[g].absent # <<>>
  /\ LET t == Head(reg[g].absent)
     IN  /\ t \notin techniques /\ ~Held(t)
         /\ reg' = [reg EXCEPT ![g].absent = Tail(@), ![g].held = @ \cup {t}]
  /\ UNCHANGED <<dbVars, broker, rpc, todo, workerVars, history>>

\* A technique was committed since its look-up: all of the flush is undone.
OfferRefused(g) ==
  /\ AllAsked(g) /\ reg[g].absent # <<>>
  /\ Head(reg[g].absent) \in techniques
  /\ EndRegistration(g)
  /\ UNCHANGED <<dbVars, broker, rpc, todo, workerVars, history>>

CommitOffered(g) ==
  /\ AllAsked(g) /\ reg[g].absent = <<>>
  /\ techniques' = techniques \cup reg[g].held
  /\ EndRegistration(g)
  /\ UNCHANGED <<flows, alerts, chain, broker, rpc, todo, workerVars, history>>

RegistrationFails(g) ==
  /\ "request" \in Faults
  /\ reg[g].at = "open"
  /\ EndRegistration(g)
  /\ UNCHANGED <<dbVars, broker, rpc, todo, workerVars, history>>

-----------------------------------------------------------------------------
(* Worker tasks.                                                           *)

WorkerAt(w, from, to) ==
  /\ wpc[w] = from
  /\ wpc' = [wpc EXCEPT ![w] = to]

\* Acknowledged as it is taken (task_acks_late is off): never redelivered.
TakeTask(w) ==
  /\ broker # <<>>
  /\ WorkerAt(w, "idle", "lookup")
  /\ task' = [task EXCEPT ![w] = Head(broker)]
  /\ broker' = Tail(broker)
  /\ UNCHANGED <<dbVars, requestVars, found, entries, newtech, poisoned,
                 history>>

\* The worker's database transaction is over.
DropRows(w) ==
  /\ found' = [found EXCEPT ![w] = {}]
  /\ entries' = [entries EXCEPT ![w] = <<>>]
  /\ newtech' = [newtech EXCEPT ![w] = None]

EndTask(w) ==
  /\ wpc' = [wpc EXCEPT ![w] = "idle"]
  /\ task' = [task EXCEPT ![w] = None]
  /\ poisoned' = [poisoned EXCEPT ![w] = FALSE]
  /\ DropRows(w)

\* Fault: the session is never rolled back, and its transaction stays open.
AbandonTaskUnrolled(w) ==
  /\ wpc' = [wpc EXCEPT ![w] = "idle"]
  /\ task' = [task EXCEPT ![w] = None]
  /\ lost' = lost \cup {task[w]}
  /\ UNCHANGED <<dbVars, broker, requestVars, found, entries, newtech, poisoned,
                 analysed, cut>>

\* The task ends with nothing committed; Celery does not run it again.
AbandonTask(w) ==
  /\ EndTask(w)
  /\ lost' = lost \cup {task[w]}
  /\ UNCHANGED <<dbVars, broker, requestVars, analysed, cut>>

\* The flow is committed: on to the hybrid stage.
FindFlow(w) ==
  /\ WorkerAt(w, "lookup", "hybrid")
  /\ task[w] \in flows
  /\ UNCHANGED <<dbVars, broker, requestVars, task, found, entries, newtech,
                 poisoned, history>>

\* "Flow not found": the task returns an error and is over.
FlowNotFound(w) ==
  /\ wpc[w] = "lookup" /\ task[w] \notin flows
  /\ AbandonTask(w)

\* The hybrid stage sees no threat, or its engines raise and the exception is
\* logged: nothing was inserted, the heuristics follow.
NoHybridAlert(w) ==
  /\ WorkerAt(w, "hybrid", "heuristics")
  /\ ~Hybrid[task[w]] \/ "engine" \in Faults
  /\ UNCHANGED <<dbVars, broker, requestVars, task, found, entries, newtech,
                 poisoned, history>>

\* A threat: look for its technique's row.
LookUpTechnique(w) ==
  /\ wpc[w] = "hybrid" /\ Hybrid[task[w]]
  /\ wpc' = [wpc EXCEPT ![w] = IF Technique[task[w]] \in techniques
                                 THEN "alert" ELSE "technique"]
  /\ UNCHANGED <<dbVars, broker, requestVars, task, found, entries, newtech,
                 poisoned, history>>

\* Fault: technique_id without its unique constraint.
InsertTechniqueAnyway(w) ==
  /\ WorkerAt(w, "technique", "alert")
  /\ newtech' = [newtech EXCEPT ![w] = Technique[task[w]]]
  /\ UNCHANGED <<dbVars, broker, requestVars, task, found, entries, poisoned,
                 history>>

\* It had none: insert one.  technique_id is UNIQUE, so the INSERT waits while
\* another transaction has an uncommitted row for the same technique.
InsertTechnique(w) ==
  /\ WorkerAt(w, "technique", "alert")
  /\ Technique[task[w]] \notin techniques /\ ~Held(Technique[task[w]])
  /\ newtech' = [newtech EXCEPT ![w] = Technique[task[w]]]
  /\ UNCHANGED <<dbVars, broker, requestVars, task, found, entries, poisoned,
                 history>>

\* A flush fails: the database transaction is rolled back at once, the stage's
\* handler swallows the exception, and the session refuses every later
\* statement, the reload of the expired flow included.
Poison(w) ==
  /\ wpc' = [wpc EXCEPT ![w] = "heuristics"]
  /\ DropRows(w)
  /\ poisoned' = [poisoned EXCEPT ![w] = TRUE]
  /\ UNCHANGED <<dbVars, broker, requestVars, task, history>>

\* Somebody else's row for the technique was committed since the lookup.
TechniqueRefused(w) ==
  /\ wpc[w] = "technique"
  /\ Technique[task[w]] \in techniques
  /\ Poison(w)

\* Fault: commit instead of flush after the alert.
RaiseAlertCommits(w) ==
  /\ WorkerAt(w, "alert", "audit")
  /\ alerts' = alerts \cup {<<task[w], HybridModel>>}
  /\ UNCHANGED <<flows, techniques, chain, broker, requestVars, task, found,
                 entries, newtech, poisoned, history>>

\* The alert row, then its audit record: two flushes of one transaction.
RaiseAlert(w) ==
  /\ WorkerAt(w, "alert", "audit")
  /\ found' = [found EXCEPT ![w] = @ \cup {<<task[w], HybridModel>>}]
  /\ UNCHANGED <<dbVars, broker, requestVars, task, entries, newtech, poisoned,
                 history>>

AuditAlert(w) ==
  /\ WorkerAt(w, "audit", "heuristics")
  /\ entries' = [entries EXCEPT ![w] = Append(@, Alerted(task[w], HybridModel))]
  /\ UNCHANGED <<dbVars, broker, requestVars, task, found, newtech, poisoned,
                 history>>

\* Fault: a SAVEPOINT around the failing flush keeps the session usable.
FlushFailsAlone(w) ==
  /\ "database" \in Faults
  /\ wpc[w] \in {"technique", "alert", "audit"}
  /\ wpc' = [wpc EXCEPT ![w] = "heuristics"]
  /\ UNCHANGED <<dbVars, broker, requestVars, task, found, entries, newtech,
                 poisoned, history>>

\* One of the three flushes of the hybrid stage fails.
FlushFails(w) ==
  /\ "database" \in Faults
  /\ wpc[w] \in {"technique", "alert", "audit"}
  /\ Poison(w)

\* The soft time limit is an Exception like any other: raised anywhere in the
\* hybrid stage it is swallowed, and the task goes on with what it has flushed.
SoftLimitSwallowed(w) ==
  /\ "softlimit" \in Faults
  /\ wpc[w] \in {"hybrid", "technique", "alert", "audit"}
  /\ wpc' = [wpc EXCEPT ![w] = "heuristics"]
  /\ cut' = IF wpc[w] = "audit" THEN cut \cup found[w] ELSE cut
  /\ UNCHANGED <<dbVars, broker, requestVars, task, found, entries, newtech,
                 poisoned, analysed, lost>>

\* The heuristic models that fire, each with its alert and its audit record.
RunHeuristics(w) ==
  /\ ~poisoned[w]
  /\ WorkerAt(w, "heuristics", "commit")
  /\ LET fired == Heuristics[task[w]]
     IN  /\ found' = [found EXCEPT ![w] = @ \cup {<<task[w], m>> : m \in Range(fired)}]
         /\ entries' = [entries EXCEPT ![w] =
                          @ \o [i \in DOMAIN fired |-> Alerted(task[w], fired[i])]]
  /\ UNCHANGED <<dbVars, broker, requestVars, task, newtech, poisoned, history>>

\* flow.features on a session that needs a rollback raises: the task fails.
PoisonedTaskFails(w) ==
  /\ wpc[w] = "heuristics" /\ poisoned[w]
  /\ AbandonTask(w)

\* An exception outside the hybrid stage: get_sync_session rolls back.
TaskFails(w) ==
  /\ Faults \cap {"database", "softlimit"} # {}
  /\ wpc[w] \in {"lookup", "heuristics", "commit"}
  /\ AbandonTask(w)

\* get_sync_session commits when the task returns.
CommitTask(w) ==
  /\ wpc[w] = "commit"
  /\ alerts' = alerts \cup found[w]
  /\ techniques' = techniques \cup ({newtech[w]} \ {None})
  /\ chain' = chain \o entries[w]
  /\ analysed' = analysed \cup {task[w]}
  /\ EndTask(w)
  /\ UNCHANGED <<flows, broker, requestVars, lost, cut>>

\* The process dies; the pool starts another one, the task is gone.
WorkerKilled(w) ==
  /\ "kill" \in Faults
  /\ wpc[w] # "idle"
  /\ AbandonTask(w)

-----------------------------------------------------------------------------
\* What a request and a worker do when nothing fails, and what may fail.
RequestStep(r) ==
  \/ PublishTask(r)
  \/ CommitFlows(r)

RequestFault(r) ==
  \/ PublishFails(r)
  \/ AbortFlows(r)

RegisterStep(g) ==
  \/ InsertOffered(g)
  \/ OfferRefused(g)
  \/ CommitOffered(g)

WorkerStep(w) ==
  \/ TakeTask(w)
  \/ FindFlow(w)
  \/ FlowNotFound(w)
  \/ NoHybridAlert(w)
  \/ LookUpTechnique(w)
  \/ InsertTechnique(w)
  \/ TechniqueRefused(w)
  \/ RaiseAlert(w)
  \/ AuditAlert(w)
  \/ RunHeuristics(w)
  \/ PoisonedTaskFails(w)
  \/ CommitTask(w)

WorkerFault(w) ==
  \/ FlushFails(w)
  \/ SoftLimitSwallowed(w)
  \/ TaskFails(w)
  \/ WorkerKilled(w)

\* Every request is over and the queue is empty.
Finished ==
  /\ \A r \in Request : rpc[r] \in {"committed", "aborted"}
  /\ \A g \in Register : reg[g].at = "ended"
  /\ broker = <<>> /\ \A w \in Worker : wpc[w] = "idle"
  /\ UNCHANGED vars

Next ==
  \/ \E r \in Request : InsertFlows(r) \/ RequestStep(r) \/ RequestFault(r)
  \/ \E g \in Register : LookUpOffered(g) \/ RegisterStep(g) \/ RegistrationFails(g)
  \/ \E w \in Worker : WorkerStep(w) \/ WorkerFault(w)
  \/ Finished

Spec == Init /\ [][Next]_vars

\* Requests and workers that have begun go on; no failure is ever bound to happen.
FairSpec ==
  /\ Spec
  /\ \A r \in Request : WF_vars(RequestStep(r))
  /\ \A g \in Register : WF_vars(RegisterStep(g))
  /\ \A w \in Worker : WF_vars(WorkerStep(w))

-----------------------------------------------------------------------------
(* Properties.                                                             *)

Models     == {HybridModel} \cup UNION {Range(Heuristics[f]) : f \in Flow}
AlertRows  == Flow \X Models

Techniques == Range(Technique) \cup UNION {Range(Offer[g]) : g \in Register}

TypeOK ==
  /\ flows \subseteq Flow /\ analysed \subseteq Flow
  /\ alerts \subseteq AlertRows
  /\ techniques \subseteq Techniques
  /\ \A i \in DOMAIN chain :
       \/ \E r \in Request : chain[i] = Ingested(r)
       \/ \E a \in AlertRows : chain[i] = Alerted(a[1], a[2])
  /\ broker \in Seq(Flow)
  /\ rpc \in [Request -> {"idle", "enqueue", "committed", "aborted"}]
  /\ \A r \in Request : todo[r] \in Seq(FlowsOf(r))
  /\ \A g \in Register :
       /\ reg[g].at \in {"idle", "open", "ended"} /\ reg[g].asked \in 0..Len(Offer[g])
       /\ reg[g].absent \in Seq(Range(Offer[g])) /\ reg[g].held \subseteq Range(Offer[g])
  /\ wpc \in [Worker -> {"idle", "lookup", "hybrid", "technique", "alert",
                         "audit", "heuristics", "commit"}]
  /\ task \in [Worker -> Flow \cup {None}]
  /\ \A w \in Worker : wpc[w] = "idle" <=> task[w] = None
  /\ \A w \in Worker : found[w] \subseteq {task[w]} \X Models
  /\ \A w \in Worker : Range(entries[w]) \subseteq {Alerted(task[w], m) : m \in Models}
  /\ newtech \in [Worker -> Range(Technique) \cup {None}]
  /\ poisoned \in [Worker -> BOOLEAN]
  /\ lost \subseteq Flow /\ cut \subseteq AlertRows

Entries(kind) == {i \in DOMAIN chain : chain[i].kind = kind}
AuditedAlerts == {<<chain[i].flow, chain[i].model>> : i \in Entries("alerted")}

\* The audit chain and the tables tell the same story whatever failed on the
\* way: the chain reports each alert once and none that was rolled back, an
\* alert it does not report was cut off by the soft time limit, its batches
\* are those of the committed requests, one record each, which brought the
\* committed flows, and what it says of a flow comes after the batch that
\* brought it, although the flow's task is published, and may run, before
\* that batch commits.
Committed == {r \in Request : rpc[r] = "committed"}
AuditMatchesTables ==
  /\ AuditedAlerts \subseteq alerts
  /\ alerts \ AuditedAlerts \subseteq cut
  /\ Cardinality(Entries("alerted")) = Cardinality(AuditedAlerts)
  /\ \E by \in Bijection(Entries("ingested"), Committed) :
       \A i \in Entries("ingested") : chain[i] = Ingested(by[i])
  /\ flows = UNION {FlowsOf(r) : r \in Committed}
  /\ \A i \in Entries("ingested") : chain[i].named \subseteq flows
  /\ \A i \in Entries("alerted") : \E r \in Request :
       /\ chain[i].flow \in FlowsOf(r)
       /\ \E j \in 1..(i - 1) : chain[j] = Ingested(r)

\* A task is all or nothing: a flow that was analysed has the alert of every
\* heuristic model that fires on it, and nothing of an analysis that failed,
\* in either stage, is ever visible.
ModelsOf(f) == {a[2] : a \in {b \in alerts : b[1] = f}}
WholeAnalysis ==
  \A f \in Flow :
    IF f \in analysed
      THEN Range(Heuristics[f]) \subseteq ModelsOf(f)
      ELSE ModelsOf(f) = {}

\* Tasks that find no row for a technique and requests that register it insert
\* it side by side: a technique is committed by one of them only, and no two
\* open transactions ever hold an uncommitted row for the same one.
HeldIn(x) == IF x \in Worker THEN {newtech[x]} \ {None} ELSE reg[x].held
OneRowPerTechnique ==
  \A x \in Worker \cup Register :
    /\ HeldIn(x) \cap techniques = {}
    /\ \A y \in Worker \cup Register : x # y => HeldIn(x) \cap HeldIn(y) = {}

\* Every task that a worker takes ends, and so does every request that has
\* begun to insert techniques: nobody waits for ever for a row of another
\* transaction, for they insert the rows they share in one order.
TasksEnd ==
  /\ \A w \in Worker : wpc[w] = "lookup" ~> wpc[w] = "idle"
  /\ \A g \in Register : AllAsked(g) ~> reg[g].at = "ended"

\* A flow that was committed is analysed, or its task was lost in one of the
\* ways the code has of losing it (not published, flow not found, failed,
\* killed): none is simply forgotten.
EveryFlowAccountedFor ==
  \A f \in Flow : f \in flows ~> f \in analysed \cup lost

\* "Persists extracted flow records and triggers asynchronous threat scoring":
\* without any failure every flow that was persisted is scored.  The code does
\* not keep this: a task may start before its flow's transaction commits, and
\* may find that another task has created its technique meanwhile.
EveryFlowScored == \A f \in Flow : f \in flows ~> f \in analysed

=============================================================================
