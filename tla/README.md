# A TLA+ model of the Cyber Defense Enclave backend

The program (`src/`) detects threats in unidirectional IP traffic: a FastAPI
process ingests flow records, Celery workers score them and raise alerts, a
WebSocket gateway pushes alerts to SOC dashboards, and every step leaves a record
in a hash-chained audit ledger. This directory holds TLA+ modules of the parts
whose correctness depends on the order in which several actors act or fail, TLC
instances that check them, and TLAPS proofs.

    tlasany M.tla                                   parse a module
    tlc -workers 2 -config MC_X.cfg MC_X.tla        check an instance
    tlapm XProofs.tla                               check the proofs

## 1. Inventory

| Component | State it keeps | Operations | Talks to |
|---|---|---|---|
| Audit ledger (`services/audit_service.py`, `models/audit.py`) | table `audit_logs`, one JSONL file per host, advisory lock 145261 | `append_async`, `append_sync`; `verify_chain_async`, `verify_file_ledger`, `verify_cross_consistency`, verify-all | called by every writer, inside its transaction |
| Sessions (`core/database.py`) | one transaction per request or task | commit on return, rollback on an exception | PostgreSQL (READ COMMITTED) |
| Flow ingestion (`endpoints/flows.py`, `flow_service.py`, two triggers of `dashboard_service.py`) | table `flows`, Celery queue in Redis | ingest one flow, a batch, a PCAP, a synthetic replay | ledger, broker |
| PCAP parsing, aggregation (`pcap_service.py`, `packet_extractor.py`, `scripts/pcap_replay.py`) | a window per 5-tuple, a baseline shared by the flows of a capture | `process_packet`, `flush_all`, `extract_features` | ingestion |
| Detection worker (`workers/tasks.py`, `core/celery_app.py`) | tables `alerts`, `mitre_mappings` | `detect_threats_for_flow_task`, `verify_audit_chain_task` | broker, ledger, ML and rule engines |
| MITRE service and mapper | `mitre_mappings`; a YAML mapping in memory, per process | seed, create, reload, look up | workers, requests |
| Sigma rules (`rules/`) | compiled rules, per process | load, reload, evaluate, evaluate concurrently with ML | API, worker |
| ML ensemble, severity matrix | loaded models | `evaluate_flow`, `compute_severity` | API, worker |
| Alert gateway (`core/websocket.py`, `endpoints/ws.py`, `core/redis.py`, `alert_service.create_alert`) | `active_clients` with their filters, a Redis subscription | connect, disconnect, update filter, broadcast, listen | dashboards, Redis, the requests that create alerts |
| Alert triage (`alert_service.update_alert`) | alert status and severity | PATCH an alert | ledger |
| SOC client (`frontend/src`) | a list of 50 alerts, a reconnect timer | subscribe, load, reconnect, simulate, triage | gateway, REST API |

What is hard in it, and what must hold:

* **Ledger.** Writers in several processes extend one chain; a swallowed lock
  failure, a task's swallowed soft time limit, a lost connection, a rollback or a crash
  may come between any two statements, and the file is not transactional. The chain must
  verify always, refuse no append that has the lock, never lose or reorder a committed
  record, and each transaction's records must appear all or not at all.
* **Ingestion and detection.** The task of a flow is published before the flow is
  committed; Celery acknowledges a message when it takes it; the hybrid stage
  swallows every exception, the failure of a flush and the soft time limit
  included. Tables and ledger must tell one story, an analysis must be all or
  nothing, and a flow must not be forgotten.
* **Captures.** Timestamps may go backwards; a window is cut by a silence, by its
  size, or by both at one packet; verdicts are given window by window, against a
  baseline which other flows move. No packet may be lost or counted twice, and a
  verdict must not depend on where the cuts fall more than it has to.
* **Rules and models.** A reload replaces, or clears in place, what a thread is reading,
  and a file without a usable rule replaces it by nothing; conditions are text that Python
  evaluates; the fusion of rules and models is written twice. An evaluation must be of one
  ruleset, a condition must mean what its author wrote, and both fusions must agree.
* **Gateway.** Coroutines of one event loop interleave at each `await`;
  registration goes by `client_id`; two paths broadcast each alert. Filters must
  be honoured in the order the dashboard sees them, one dead dashboard must not
  cost another its alerts, and nothing dead may stay registered.
* **Console.** Pushed frames, the initial load, simulated alerts and optimistic
  updates all write one list, alerts are pushed before they are committed, and
  `update_alert` reads without a lock. The ledger must tell the statuses in the
  table, and the screen what is stored.

## 2. Modules

| Module | Models | Relation |
|---|---|---|
| `Ledger` | what the ledger promises: a growing chain, one block per transaction | |
| `AuditLedger` | how the code keeps that promise | refines `Ledger`: `AuditLedgerRefinement`, after `AuditLedgerProofs` |
| `LedgerVerification` | verify-all beside the appends, and damage to either copy | extends `AuditLedger`; `LedgerVerificationProofs` extends `AuditLedgerRefinement` |
| `IngestPipeline` | ingest and seeding requests, the queue, worker tasks, their tables | uses the abstract ledger; `IngestPipelineProofs` |
| `AlertGateway` | dashboards, the WebSocket manager, the Redis listener | `AlertGatewayProofs` |
| `FlowFeatures` | the verdicts on one window of packets, as functions | |
| `FlowAggregator` | from a capture to stored flows | extends `FlowFeatures`; `FlowAggregatorProofs` |
| `SigmaRules` | filters, selections and conditions, and how conditions are written | |
| `ThreatScoring` | ensemble, severity matrix and both fusions, as functions | |
| `Detection` | rules, models and mappings at work in an API process and a worker | extends `ThreatScoring`; `DetectionProofs` |
| `SocConsole` | one console, the alerts it is pushed and loads, and their triage | `SocConsoleProofs` |
| `*Proofs`, `AuditLedgerRefinement` | inductive invariants, lemmas and theorems (section 4) | extend the module they are about |
| `MC_*` | instances for TLC; the `.cfg` files of one module share its constants | |

The modules meet where the code's parts do: `AuditLedger` refines `Ledger`, whose
blocks are the chain of `IngestPipeline`; `FlowAggregator` ends where a stored flow of
`IngestPipeline` begins; `Detection` says what that module's constants `Hybrid` and
`Technique` stand for; `AlertGateway` ends with the frames that begin `SocConsole`.

Definitions that begin with a comment `Fault:` are plausible bugs, each the
mutated form of the definition that follows it. They belong to no specification;
they show that the properties would notice.

### AuditLedger

A transaction `t` is one request or one task. `pc[t]` follows `append_async` /
`append_sync` statement by statement: `open` (in the caller's code), `lock`, `read`,
`insert`, `file`, back to `open`, until `Commit` or `Rollback`. `rows` is what is
committed, `pending[t]` what `t` has inserted; a statement sees both (`Visible`).
`holder` is the advisory lock, which ends with its transaction (`EndTransaction`)
and is re-entrant. The swallowed `except Exception: pass` around the lock statement is
entered in two ways. `LockRaises`: the statement itself fails, because the server has
dropped `t`'s transaction (`link[t] = "lost"`), and then the next statement raises
(`StatementRaises`). `LockInterrupted`: in a task (`Task`) `SoftTimeLimitExceeded`, which is
an `Exception`, is raised before the statement is sent; the transaction is alive and
appends without the lock (`unlocked` remembers the entries). Celery raises that signal once
in a task (`signalled`); raised elsewhere in `append_sync` it ends the append and the hybrid
stage swallows it (`AppendInterrupted`), or it ends the file write, which logs it. Raised
after the server has granted the lock and before `execute` returns, it has the outcome of
`AcquireLock`. An equal sequence number that another open transaction has inserted makes the
INSERT wait, as the unique index does, and refuses it (`Refused`) once that one has
committed. A task with an unlocked row and the lock's holder may so wait for each other
(`WaitsFor`); PostgreSQL ends one of the two (`DeadlockDetected`). `AppendLine` is the
write to the file of `t`'s host, `AppendLineFails` its swallowed failure. A signal in the
middle of a flush, which rolls it back, looks like `LoseConnection`.

The database is PostgreSQL, as configured. The tests run on SQLite
(`tests/test_api_and_websocket.py:42`), which has no advisory lock: there every append goes
through the swallowed failure with its transaction alive. SQLite has one writer at a time,
and its appends are outside the model.

`CommitUnacknowledged` commits and reports an error. A hash is the term of the
fields it is computed from, which is SHA-256 without collisions; `ValidChain` is the
loop of `verify_chain_async`.

Container replicas have a `logs/` directory of their own unless they are given a
common volume, so hosts are a parameter; requests of the same host share a file.

### LedgerVerification

It extends `AuditLedger`: the transactions take their steps (`LedgerStep`) while one
verify-all request reads the table, the file of its host (`Auditor`), the table and
the file again. Each read of the table is an `await`, so the four reads are four
steps and see different moments. `ChainCheck` is `verify_chain_async`, `FileCheck`
`verify_file_ledger`, `Matches` the cross check, `Verdict` the answer. `Damage` is one
act of somebody outside the program: a row edited, deleted or injected, a line edited,
deleted or made unreadable, at any time before the answer. `record` and `inner` in
`damage` remember which record it was and whether a committed one followed it. An
injected row is, beside an append without the lock, the other way an append meets the
unique constraint (`Refused`). A run stops when the
request is answered. `VerifyTypeOK` counts a replaced row as one missing genuine row.
Two damages, a damage that recomputes hashes, and a line that is JSON but no record
(no object, or a timestamp that is none, which `verify_file_ledger` raises on at
`audit_service.py:322`) are left out.

### IngestPipeline

`RequestStep` and `RequestFault` are an ingest request: flows and their audit record
are flushed (`InsertFlows`), one task is published per flow or the failure to
publish it swallowed, and then the session commits or aborts. FastAPI runs the
commit after the endpoint's return; nothing here depends on whether that is before
or after the response. A worker's `wpc` follows the task: `lookup`, `hybrid`
(decision), `technique`, `alert`, `audit` (the three flushes of the hybrid stage),
`heuristics`, `commit`. A failed flush poisons the session (`Poison`): its rows are
gone, the handler swallows the exception, and the reload of `flow.features`, expired
by the rollback, raises outside the handler. What the detectors decide is constant:
`Hybrid`, `Technique` and the sequence `Heuristics` per flow.

A registration `g` is `seed_defaults` or a `POST` of one technique. The session does
not flush by itself, so every look-up (`LookUpOffered`) comes before the one flush,
which inserts the rows that were absent one after the other (`InsertOffered`),
waiting where another open transaction has inserted the same key, and fails where it
is committed (`OfferRefused`). Workers insert one row each, so they and one seeder
never wait for each other in a circle.

Here the ledger is the abstract chain, to which a commit adds its block. That is
`ImplementsLedger` of AuditLedger, and it over-approximates: the real advisory lock
lets fewer of these steps interleave, and what the ledger does when the soft time limit
comes inside `append_sync` is in AuditLedger. The heuristic stage is one step because
nothing can see it before the commit and its failure is `TaskFails`. A message a
Celery worker has prefetched but not started counts as still in the broker. `lost` is
the history of flows whose task was lost, `cut` that of alerts whose record the soft
time limit cut off.

### AlertGateway

One API process, one event loop. A step runs from one suspension to the next; the
manager's `asyncio` lock is held only between suspensions and so is no variable. A
connection `s` is dialled, registered under `IdOf[s]` after `accept`, served, and
ended by `WebSocketDisconnect` or another exception. `inbox[s]` is what has reached
the dashboard. A broadcast takes a snapshot, serves its connections one by one
(TLC takes them in any order), consulting each filter when it gets there, collects
ids whose send failed, and removes them at its end. An alert's request does so after
it has published on Redis and before it commits; the listener does so with each
message. A filter is a severity, whether it names a MITRE tactic, and the alerts whose
behaviour it names; `Updated` changes the parts an update gives. `Passes` is `matches`:
the payload of an alert has no tactic (`websocket.py:53`, `alert_service.py:74`), so a
filter that names one lets nothing through. Only the frames a property
is about are kept: alerts, and the two that tell a dashboard its filter (`CONNECTED`,
`FILTER_UPDATED`).

### FlowFeatures and FlowAggregator

`FlowFeatures` has the verdicts of `extract_features` as functions of a window, a
sequence of packets `[ts, flags, ttl]`. Time is in ticks of 100 ms. The jitter test is
the code's inequality, multiplied out to integers. Of the entropy of inter-arrival
times only the comparison with 1.35 bits is kept. Times in one or two bins are below it,
up to five times in three bins or more are not, and of more times in more bins the outcome
is left open (`EntropyVerdicts`): an over-approximation, which concerns no window of at
most six packets and no periodic flow. The code computes the times from floating-point
seconds; a value that rounding puts on the other side of a bin's edge occupies a second
bin next to the first, which stays below 1.35 bits for times that are all equal.

`FlowAggregator` reads a capture record by record. `ReadPacket` is `process_packet`:
the window of the packet's 5-tuple is finalised first if it has been silent for longer
than the timeout, then the packet is added, then the window is finalised if it is
full. `SkipRecord` is a record dpkt cannot decode. A packet's number `no` is history: its
place among the decoded packets of the capture (`captured`), by which the properties tell
packets apart. `flows` keeps the dictionary's
insertion order, which `flush_all` and the shared baseline follow. The two users differ
in what they do with windows: an upload stores all or nothing at its end, a replay posts
each window that a packet closed, and keeps what `flush_all` returns to itself. `Valid`
is the schema's bound on durations. The baseline is an exponentially weighted mean and
variance of packets and bytes per second; `Exceeds` and `RateOf` give it over the
finalised windows. The size of a flow's packets is constant (`Size`). The limits
`Timeout` and `MaxPackets` belong to the use (`Upload`, `Replay`), as they are the
constructor's arguments.

### SigmaRules

A filter, a selection and a condition are functions: `EvaluateFilter`, `Filters`,
`EvaluateCondition`. A condition is text, a sequence of words with the parentheses that
stick to them, because `evaluate_boolean_condition` splits it at white space and hands
the rest to Python. The actions are not the program's but the author's: `WriteName`,
`Negate`, `Join` and `WriteQuantified` build every condition of at most `MaxWords` words
with the set of cases it is meant to hold in. `Reading` parses the text with Python's
precedences.

Conditions the author here does not write: `AND`, `OR` in capitals and `not(x)` without
a space, which the code does not recognise and treats like a syntax error (all
selections must hold), and a quantifier joined to something else (`1 of x and not y`),
of which the code takes the last word for its pattern.

### ThreatScoring and Detection

`ThreatScoring` has the fusion of the two models, the severity matrix, and the two
fusions with rule matches, on integers (hundredths; `Score` explains the rounding).
`WorkerAlert` is the alert of the hybrid part of the task. The alerts of its heuristics have
fixed levels and scores, which need not agree (HIGH with 8.5 and 8.8, MEDIUM with 6.8,
`tasks.py:170-171`, `254-255`, `292-293`), and no counterpart in the API; what is said of
severities and of the two fusions is not said of them.

`Detection` has an API process and a worker. `lists` are the list objects the API's engine
has created and `active` the one `self.rules` refers to; a running evaluation keeps the
index it began with (`StartJob`), so that `ReloadRules` can be told to replace the list,
or, with the file missing, to clear it in place under the loop (`EvaluateNext` is one turn
of it). A file that parses may give no rule at all (it is empty, has another shape, or
every rule in it was dropped), so `Ruleset` may hold the empty sequence, and a reload
installs it. `EvaluateRaises` is a rule whose evaluation raises (`Raises`, for instance on
`tags: null`, `rules/models.py:55`): the request is answered with an error. `queue` is the
thread pool's, a request has one or two jobs in it, and `Answer` fuses them on the event
loop. The mapper is created at its first use (`Mapper`), in the API before a hybrid
evaluation is awaited (`Send`), and reloaded in place. `Technique` looks a class up by key
or alias, where the last entry that has it wins, and then by similarity, where the first
does. `Analyse` is the hybrid part of a worker's task; nothing else runs in its process,
which creates its own engine and mapper and never sees a reload. The docstrings of the two
reloads (`rules/engine.py:55`, `endpoints/rules.py:52`) speak of the API's engine only.
The worker looks techniques up by class and does not use the rules' own ATT&CK tags.

### SocConsole

One browser and the API. `conn` and `timer` are the reconnecting client: a timer that
fires leaves `reconnectTimer` set, so that a close before the next `onopen` schedules
nothing. `list` is `alerts` of `App.tsx`, which `Receive` (a pushed frame), `Simulate`
and `ApplyLoad` (the answer of the initial load, which replaces it) write. Alerts are
created step by step up to the commit, with the broadcast in between and its echo
through Redis. `triage[t]` is one PATCH: the read without a lock, the flush that
waits for another open update of the row, the audit record, the commit; requests of the
console update the screen before they are sent, and nothing rolls that back.
`retryFailed`, `heard`, `listed`, `overwritten`, `pushedOut` and `excused` are history.
Only the status of an alert is kept; `normalizeAlert`, which gives a frame without
technique or flow made-up ones, is presentation.

## 3. Runs

Passing runs:

| Run | Instance | Distinct states |
|---|---|---|
| audit_ledger | 2 requests and a task on 2 hosts, the task appends twice; every failure | 209,914 |
| ledger_verification | a request, a task and a verify-all; every kind of damage, once | 2,037,709 |
| ingest_pipeline | a batch of 2 flows, a single flow, a seeding request, 2 workers; every failure | 159,881 |
| alert_gateway | 2 dashboards, an API alert and a worker alert, 1 filter update, of any part | 330,911 |
| flow_aggregator | captures of up to 6 records: 2 flows, windows of 3 packets; 1 flow, windows of 6 | 1,025,275 |
| sigma_conditions | conditions of up to 7 words over 3 selections | 80,587 |
| detection | 2 requests, 2 threads, a worker; 1 edit, 1 reload or restart | 595,845 |
| soc_console | 1 console, 2 alerts, 2 PATCH requests (3 of the 4), a list of 3 | 2,015,022 |

* **audit_ledger**. Three transactions are the least with one holding the
  lock, one waiting for it and one that reads later; two appends in one show the
  re-entrant lock and a block of more than one record. `ChainIntact`: the committed
  table verifies. `OnlyUnlockedClash`: where the lock was taken the unique constraint is
  redundant; an insert finds its number taken only if it, or the entry that has the number,
  went on without the lock after a swallowed soft time limit. The task's appends begin before,
  between and after those of the requests, so such an entry meets committed, open and later
  ones. `FileProjectsChain`: a file, restricted to committed records, is the
  chain restricted to what its host wrote. The restriction matters: a rollback leaves
  its line in the file, the two appends are not one. `AppendOnly`: later records have
  later numbers. `ImplementsLedger`: refinement of `Ledger`. `EveryTransactionEnds`.
* **ledger_verification**. A request that appends twice and a task, on the host that
  verifies: three records are the least in which damage has a record before and one after it,
  and two transactions let one be open while the other's lines and rows move.
  `DamageLocated`: the first bad number is the damaged one, and the file check notices
  too. `OnlyLoneCopiesLost`: what verify-all lets pass was the only copy there was; a
  chain without its last records is a valid chain, and only the file tells.
  `AlarmHasCause`: an alarm with no damage and nothing written meanwhile comes from a
  line without a committed row or a row without a line here. A third transaction, on
  another host, takes TLC beyond minutes; the part of these properties about rows
  of other hosts is proved (section 4).
* **ingest_pipeline**. Both threats of the batch have the same, not yet stored
  technique, which the seeding request offers too, as the second of two; the single
  flow has a heuristic alert only; an audit record names one flow where the code names 50,
  so that the batch exceeds it. `AuditMatchesTables`: what the ledger says was
  ingested and alerted is what the tables hold, except alerts whose record the soft
  limit cut off. `WholeAnalysis`, `OneRowPerTechnique`, `TasksEnd`,
  `EveryFlowAccountedFor`. One seeder is all there is: two that offer techniques in one
  order wait for each other in that order.
* **alert_gateway**. Enough for an update and a hang-up in the middle of a broadcast,
  and for both paths of one alert to overlap. `FilterHonoured`, `OncePerPath` (per path:
  an API alert may reach a dashboard from its request and again from the listener),
  `ServedIsListed`, `ApiAlertsArrive`.
* **flow_aggregator**. The upload and the script are each given two limits. With windows
  of three, records go back in time, on, or on after a silence longer than either timeout
  (`MixedGaps`); six of them fill two windows, or fill one and cut another by silence, and
  give the five earlier samples without which the baseline is silent.
  `WindowsPartitionFlows`, `StoredAsAnswered`, `BurstsExceedBaseline`. With windows of six,
  the code's least beacon, the gaps are two periods and the headers differ.
  `BeaconsFound`, `UncutFlowsJudgedWhole`.
* **sigma_conditions**. Seven words give room for a negated pair in parentheses
  beside a negated name. Three selections: a map, a list of maps, one without
  filters. `ConditionsMean`, `AbsenceMatchesNothing`.
* **detection**. One ruleset has a critical rule and the other none; one mapping file
  is whole and one breaks off; one flow is a threat to the models alone, one to the rules
  alone. The edit gives one of the files any other content, a rules file without a rule
  included, and the reload or restart falls in every stage of two requests; one rule raises
  on one flow. `MatchesOfOneRuleset`. `ReloadsKeepOneFile`: a running API loses its rules only
  to a file that is gone or gives no rule. That this disarms it, and that the reload answers
  with a success of 0 rules in either case as for a file that does not parse, is what the code
  does. `FusionsAgree` and `SeverityHasReason` are about the hybrid part of the task.
* **soc_console**. Two PATCH requests race for one alert, two alerts race for the load's
  one place and the list's three. `OfflineAfterFailedRetry`, `AuditTellsStatus`,
  `StatusOnScreenIsStored`, `SentOrListedIsShown`.

Runs that refute what a comment, a document or a test says of the code:

| Run | Claim | What happens |
|---|---|---|
| ingest_scored | every persisted flow is scored | the worker looks before the commit and drops the task |
| gateway_reconnect | a connected client is listed | the end of an old connection removes the new one under the same id |
| gateway_worker | worker alerts reach the dashboards through Redis | workers publish nothing |
| detection_score | a score is min(10, 10 C I A) | the code divides the criticality by 1.5 |

`EveryFlowScored` is checked with no failure at all, so that the run shows the one cause.

Where the code does less than a document says but not what a run could refute in one
property, a passing property says exactly what it does: `FileProjectsChain` (a rolled back
append leaves its line), `OnlyLoneCopiesLost` (the chain does not notice the loss of its
end), `AuditMatchesTables` (an alert without its record after the soft limit),
`OncePerPath` (two frames of one alert), `FilterHonoured` (no alert under a tactic filter,
which the endpoint offers, `endpoints/ws.py:46`), `FusionsAgree` (a report of rules alone
has the first rule's level, the alert LOW unless a rule is critical), `SeverityHasReason`
(with the code's score CRITICAL is unreachable for the models alone between standard
assets), `ConditionsMean` (a parenthesis set off by spaces), `StoredAsAnswered` (a replay
keeps the end of every flow to itself), `StatusOnScreenIsStored` and
`OfflineAfterFailedRetry`.

Bounds on counters are `MaxAppends`, `MaxUpdates`, `MaxRecords`, `MaxLost`, `MaxWords`,
`MaxEdits`, `MaxReloads`, `MaxRequests` and `MaxMocks`; every other set is finite because
the constants are, and each alert, request and connection acts once. `Keep`, `Page`,
`MaxPackets` and `AuditedIds` are the program's limits, made small.

### Fairness

`FairSpec` says that code which has begun and is not waiting goes on: a transaction's own
statements, an ingest request after its insert, a registration after its look-ups, a
worker slot, a coroutine that is ready. The database, the event loop and Celery's pool
schedule them. No failure, no new request, no dashboard and no network event is ever bound
to happen. For the ledger weak fairness of a transaction's step suffices for lock waiters
in the instance, since each transaction holds the lock at most once and ends; PostgreSQL
queues lock waiters besides. `DeadlockDetected` is fair too: its deadlock detector runs
after `deadlock_timeout`, and which of the two it ends is open. `FlowAggregator`,
`SigmaRules`, `Detection` and `SocConsole` state safety only: nothing in them waits for
another actor except a request for its thread and an update for a row lock.

## 4. Proofs

All theorems are `Spec => []Inv`, `Spec => [][A]_vars` or a refinement, for every value of the
constants that satisfies the `ASSUME`s of its module. Almost none of the properties
is inductive, so each proof module begins with the invariant that is, one named part per
variable or idea; a lemma `...Step` shows that a step keeps a part, action by action;
and the theorem follows from the invariance of the whole.

| Module | Theorems | Property |
|---|---|---|
| `AuditLedgerProofs` | `TypeCorrect`, `ChainAlwaysIntact`, `OnlyUnlockedClashes`, `LedgerIsAppendOnly` | `TypeOK`, `ChainIntact`, `OnlyUnlockedClash`, `AppendOnly` |
| `AuditLedgerRefinement` | `LedgerImplemented`, `FilesProjectTheChain` | `ImplementsLedger`, `FileProjectsChain` |
| `LedgerVerificationProofs` | `VerifyTypeCorrect`, `DamageIsLocated`, `LoneCopiesOnlyLost`, `AlarmsHaveCauses` | `VerifyTypeOK`, `DamageLocated`, `OnlyLoneCopiesLost`, `AlarmHasCause` |
| `IngestPipelineProofs` | `TypeCorrect`, `WholeAnalyses`, `TechniquesUnique`, `AuditTellsTables` | `TypeOK`, `WholeAnalysis`, `OneRowPerTechnique`, `AuditMatchesTables` |
| `AlertGatewayProofs` | `TypesCorrect`, `FiltersHonoured`, `AlertsComeOncePerPath`, `OwnIdsAreListed` | `TypeOK`, `FilterHonoured`, `OncePerPath`, `ServedIsListed` |
| `DetectionProofs` | `TypesCorrect`, `SeveritiesHaveReasons`, `OneRulesetPerAnswer`, `ReloadsAreWhole`, `TwoFusionsAgree` | `TypeOK`, `SeverityHasReason`, `MatchesOfOneRuleset`, `ReloadsKeepOneFile`, `FusionsAgree` |
| `FlowAggregatorProofs` | `TypesHold`, `WindowsPartition`, `StoredAsTheAnswerSays`, `BurstsExceed`, `UncutFlowsAreJudgedWhole`, `BeaconsAreFound` | `TypeOK`, `WindowsPartitionFlows`, `StoredAsAnswered`, `BurstsExceedBaseline`, `UncutFlowsJudgedWhole`, `BeaconsFound` |
| `SocConsoleProofs` | `TypesCorrect`, `RetriedUnlessRetryFailed`, `LedgerTellsStatus`, `SentOrListed`, `StatusesShownAreStored` | `TypeOK`, `OfflineAfterFailedRetry`, `AuditTellsStatus`, `SentOrListedIsShown`, `StatusOnScreenIsStored` |

**The chain** (`AuditLedgerProofs`). To know that a commit keeps the chain valid one must
know what the transaction's uncommitted rows look like, and that no one else has any. The
lock alone does not give the latter, since a task may append without it; the unique
constraint does for those appends. `IInv` is the conjunction of

* `TypeOK`, inductive by itself;
* `LockInv`: an entry under way, or inserted, is of the lock's holder or one whose lock
  statement was never sent;
* `WriterInv`: at most one transaction has uncommitted rows, and one of them has the number
  after the table's head (`Following`), which anybody else would have to insert next;
* `ChainInv`: what any transaction sees is a valid chain with a head, and uncommitted rows
  come after the committed ones;
* `DraftInv`: a live draft about to be inserted is the successor of what its transaction
  sees, or it is `Stale`: the number was committed meanwhile, so that it will be refused.
  If the draft's writer has the lock, it was an entry without it that took the number.

Lemmas about the operators carry it: the latest record is the head (`LatestIsHead`), the
successor is a record above all others and linked to one (`SuccessorIsRecord`,
`SuccessorContinues`), a chain extended by its successor is a chain with a head
(`SuccessorExtends`), what is inserted is a successor (`InsertsNext`) by the only writer there
is (`InsertsAlone`), and a commit makes the other drafts stale (`CommitMakesStale`).

**The abstract ledger and the files** (`AuditLedgerRefinement`). That a commit appends one
block to the abstract chain needs numbers: the table is numbered 1..n without a gap
(`TableInv`), the rows of a transaction are its entries 1, 2, ... numbered on from the
table (`BlockInv`), as many as it has appended (`CountInv`), and a transaction with a
committed row is over (`OnceInv`). With them (`RInv`) the row with number k is the k-th of
the chain (`ChainRow`), a commit maps to `Ledger`'s `Commit` (`CommitAppendsBlock`), and
every other step to a stutter. For the files (`FInv`), live records are those committed or
still to be: they stand in a file in the order of their numbers (`OrderInv`), each in its
host's file unless its write failed or is to come (`FiledInv`); and a draft is new to
every file because what its transaction left there belongs to earlier appends (`PastInv`),
whether or not those were rolled back.

**Verification** (`LedgerVerificationProofs`). Damage breaks `FInv`, so `VInv` has a part
that survives it: live rows have different numbers (`LiveInv`), drafts are records the
program makes (`CodeInv`), and so is everything but the damaged record (`SoundInv`).
`IntactInv` is `FInv` for as long as nothing is damaged. `DamageInv` remembers what the
damage leaves behind until it is read. An altered or injected row comes after a chain
(`Linked`). So does the gap of a deleted row: appends number on from the latest row, and
if a stale draft, which lost its number to the deleted row, fills the gap, it is linked to
the row before, and the row after names another hash (`FilledGapAt`). A deleted row or
line comes back nowhere. `ReadInv`, `LongInv`, `GenuineInv` and `QuietInv` compare what
was read with what there is, which has grown since. The argument for `DamageLocated` is
then about lists: two ascending listings of the same rows are one (`OneListing`), a row
that follows 1..k directly is listed in place k + 1 (`PlaceOf`), the chain before it
passes the loop of `verify_chain_async` (`LinkedPrefix`), and the loop reports the first
row that fails (`FirstBroken`). For `OnlyLoneCopiesLost` it is about hashes: equal hashes
are equal records (`SameHash`), so that a file that passes its check and has the m-th row
of a chain has all rows before it (`FileChain`), and the cross check finds what either
copy lacks (`Compared`, `LoneCopies`). For `AlarmHasCause`, a file that has every row and
nothing else is the table in its order (`FileIsTable`), which verifies. The part of these
properties about rows of other hosts, for which the run is too small, is proved here.

**Ingestion and workers** (`IngestPipelineProofs`). `TechInv` says that an uncommitted
technique is nobody else's, committed or not; that suffices for `OneRowPerTechnique`.
`PlaceInv`: a flow is still to be published, in the queue, with one worker, or analysed,
never in two of these places or twice in one. So two workers never commit alerts of one
flow. `StageInv`: what a worker has inserted is what the stages it has been through
insert, an alert lacking its record only between the two flushes or where the soft limit
came between them. `AlertChain` and `BatchChain` are `AuditMatchesTables` in the form a
commit preserves, the latter a bijection between the batches' records and the committed
requests.

**Gateway** (`AlertGatewayProofs`). Whom a broadcast still serves was registered once and
is not dialled again (`SnapshotInv`); the filter a broadcast consults is the one the
dashboard was last told of, for the registered and for those a snapshot still holds
(`FilterInv`). `OnceInv` says of each alert already in an inbox that the broadcast which
brought it is past or will not come: with `RedisInv`, an alert is in Redis or with the
listener once, after it was published. `OwnIdsAreListed` has the hypothesis `OwnIds`, that
no two sockets share a `client_id`. It is needed, as run gateway_reconnect shows, and it
is a hypothesis of this theorem alone, no assumption of the module.

**Captures** (`FlowAggregatorProofs`). `Inv` has three parts. `WindowsInv` describes the
windows: `Cuts` says that the finalised and the open ones divide the packets read so far,
which holds at every packet only together with what each window is by itself (`Sound`: packets
of one flow, as captured, in order, without a silence), with the order of a flow's windows
(`Before`), and with the reason why the next window of a flow begins where it does (`CutAt`),
for its last finalised window and its open one as for two finalised ones. A full window leaves
nothing open, so the reason for a window to come has to be kept until there is one: a flow
without an open window was last cut by the limit (`Continues`). `Judged` says what the
features of a finalised window are functions of, `BurstAt` which earlier windows it was
measured against. `PhaseInv` is what each phase has done, and `StoredInv` which windows are
flows: for an upload all or none, for a replay those that arrived, were valid and are not
their flow's last, unless full (`ClosedAt`).

`process_packet` is proved in two steps, the stale window that it may finalise
(`FinaliseWindows`, which `flush_all` needs for a whole dictionary) and the window that
the packet starts, extends or fills (`StartWindow`, `ExtendWindow`); the sequences that
the code builds on the way are reduced to the sets those lemmas speak of. That a capture
in order of time is never turned down needs that the timestamps of a window ascend; that a
lone packet exceeds no lone packet of its size, that both rates have a span of one.
`BeaconsFound` follows from `Cuts`: of a periodic flow no window is cut by a silence, so
all but the last are full, and one of them holds at least six packets if windows may,
which is the property's condition `MaxPackets[source] >= 6` (`pcap_service.py:168` has 500).
Its times are equal, so they fill one bin, and their sum is a product (`SumOver` is a
recursive function, and that one case is proved with its least counterexample).

**Rules, models and severities** (`DetectionProofs`). `ScoreFits` bounds the score through
the rounding division (`Quotient`), below CRITICAL for a standard asset and below MEDIUM
for a benign verdict; `AlertSeverity` and `ReportSeverity` carry that to the two fusions,
and `FusionsCompared` compares these. `RequestsInv` says what a request's record may be in
every stage, and `QueueInv` that a queued job belongs to a request that has neither been
answered nor lost, with all entries different. `LoopInv` follows the thread's loop: its
matches are those of the first rules of a list that was in force while it ran, or that
list was cleared under it; a list is only ever emptied. A rule that raises ends the loop
(`RaisesLoops`). `FilesInv`: what an engine or mapper holds is one file's, the mapper's
possibly only its beginning, and an engine is without rules only after a file without any.
`PoolInv` counts the jobs against the threads; it is the only part of `TypeOK` that needs
cardinalities.

**Console** (`SocConsoleProofs`). `ConnInv`: no timer is set or left over while the
connection is open. `ShownInv`: at each stage of the initial load, where the alerts are
that were pushed or listed. `AuditInv`: an old status that a request has read is one the
alert had, although another may commit before it. `StatusInv`: an alert without an excuse
that the console has not touched is NEW everywhere; otherwise its entries show what its
one open request asks for, which has read what is stored, or what is stored.

What the proofs assume: SHA-256 without collisions (a hash is the term of its fields);
that new flows, alerts and made-up alerts have ids of their own (`BatchAssumption`,
`AlertAssumption`, `MockAssumption`); that models return percentages and known classes
(`FlowsAssumption`); that rulesets, empty or not, and mapping files are sequences and
differ from the marks of a missing and of an unparsable file (`RulesAssumption`,
`FilesAssumption`); that the soft time limit is one of tasks, which may be any of the
transactions or none (`TaskAssumption`); that a packet carries flags and a TTL of eight
bits, and its flow has packets of one size (`HeaderAssumption`, `FlowAssumption`); that
the upload and the script have aggregators of their own (`UseAssumption`); that
two seeding requests offer the same techniques in the same order (`OfferAssumption`); that
the console's list has room for its first page (`SizeAssumption`: 50 places, 15 alerts
asked for).

Only model-checked are

* liveness: `EveryTransactionEnds`, `TasksEnd`, `EveryFlowAccountedFor`, `ApiAlertsArrive`.
  Fairness speaks of `ENABLED`, which the prover does not handle;
* `SigmaRules`: what a condition means is defined by recursion over its words
  (`RECURSIVE` operators), and so is what the author means;
* the claims that runs refute: a counterexample needs one instance.

## 5. Not modelled, and why

* Model training, feature vectors and SHAP explanations are numerical learning in
  libraries. (The docstring of the unsupervised model says it is trained on benign
  flows only; `fit` is given all of them. That is about data, not about behaviour.)
* dpkt decoding, payload entropy and size statistics are byte and real arithmetic.
* Dashboard and health pages and the read endpoints only query. Schemas, ORM classes
  and migrations are declarations; the unique constraints and the bound on durations
  that matter are in the modules. Connection pools and logging are left out.
* `sync_with_database` of the mapper is called by nothing.
* In the gateway ping, status and echo frames, and the end of the listener, which is
  stopped when all connections have ended.
* That `.delay` blocks the event loop while it retries a broker that is down
  (`flows.py:93`) is about time; the model has the failure, not its duration.
* String operators of filters (contains, cidr, regex), and flags computed from ports.
* In the console the detail panel, statistics and rendering; severity updates go the way
  of status updates.

## 6. Plan

Every invariant and action property that a passing run checks is proved, except the two
of `SigmaRules`. Worth adding next:

* conditions as trees instead of words, with `EvaluateCondition` as a recursive function on
  them, which would bring `ConditionsMean` within reach of a proof for a bounded depth;
* the training of models in two processes at once (`ml/trainer.py:249`), where each may
  read the files the other is writing;
* severity updates of alerts beside status updates, and two damages in one run of
  `LedgerVerification`.
