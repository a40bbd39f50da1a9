---------------------------- MODULE AuditLedger ----------------------------
(***************************************************************************)
(* The hash-chained audit ledger of app/services/audit_service.py, kept in *)
(* two places: the audit_logs table of PostgreSQL and, on every host, an   *)
(* append-only JSONL file.  Every API request (get_async_session) and every*)
(* Celery task (get_sync_session) is one database transaction that calls   *)
(* AuditService.append_async / append_sync any number of times before it   *)
(* commits.                                                                *)
(*                                                                         *)
(* The table is a set of rows under READ COMMITTED: a statement sees the   *)
(* committed rows and its own transaction's rows.  The hash of a record is *)
(* an injective term over the fields that SHA-256 is computed from, that   *)
(* is, SHA-256 without collisions.                                         *)
(***************************************************************************)
EXTENDS Integers, Sequences, FiniteSets

CONSTANTS
  Txn,         \* transactions, each of one request or one task execution
  Task,        \* those of Celery tasks, which have a soft time limit
  Host,        \* machines (or containers) with a logs/ directory of their own
  HostOf,      \* HostOf[t]: the host t's code runs on
  MaxAppends,  \* MaxAppends[t]: bound on the ledger entries t appends
  Nobody       \* "no transaction", the advisory lock's free value

ASSUME TxnAssumption == Nobody \notin Txn
ASSUME TaskAssumption == Task \subseteq Txn
ASSUME HostAssumption == HostOf \in [Txn -> Host]
ASSUME AppendsAssumption == MaxAppends \in [Txn -> Nat]

VARIABLES
  rows,      \* committed rows of audit_logs
  pending,   \* pending[t]: rows t has inserted and not committed
  holder,    \* who holds pg_advisory_xact_lock(145261)
  link,      \* link[t]: is t's database transaction still alive on the server?
  pc,        \* pc[t]: what t's code does next
  draft,     \* draft[t]: the AuditLog record t has computed
  count,     \* count[t]: how many appends t has begun
  file,      \* file[h]: the lines of h's logs/audit_ledger.jsonl
  signalled, \* the tasks that SoftTimeLimitExceeded was raised in
  unlocked,  \* history: bodies of entries whose lock statement was never sent
  unfiled    \* history: rows whose file write failed and was only logged

signals == <<signalled, unlocked>>
vars    == <<rows, pending, holder, link, pc, draft, count, file, signals, unfiled>>

Running  == {"open", "lock", "read", "insert", "file"}
Ended    == {"committed", "unacked", "aborted"}

Body     == Txn \X Nat
Genesis  == <<>>
Digest(seq, prev, body) == <<seq, prev, body>>
Record(seq, prev, body) ==
  [seq |-> seq, prev |-> prev, body |-> body, hash |-> Digest(seq, prev, body)]
NoRecord == [seq |-> 0, prev |-> Genesis, body |-> <<>>, hash |-> Genesis]

Writer(r) == r.body[1]

\* The rows a statement of t sees.
Visible(t) == rows \cup pending[t]

\* ORDER BY sequence_number DESC LIMIT 1
LatestOf(R) == CHOOSE r \in R : \A s \in R : s.seq <= r.seq

\* The body of the entry t is appending: its own number, never used twice.
BodyOf(t) == <<t, count[t]>>

\* The record that continues the chain R: one after its latest record.
Successor(R, body) ==
  IF R = {} THEN Record(1, Genesis, body)
  ELSE Record(LatestOf(R).seq + 1, LatestOf(R).hash, body)

\* Plausible faults, which the properties below must notice: numbering from
\* zero, and taking the chain's head from the file instead of the table.
NextRecordFromZero(t) ==
  IF Visible(t) = {} THEN Record(0, Genesis, BodyOf(t))
  ELSE Successor(Visible(t), BodyOf(t))
NextRecordFromFile(t) ==
  LET ledger == file[HostOf[t]]
  IN  Successor(IF ledger = <<>> THEN {} ELSE {ledger[Len(ledger)]}, BodyOf(t))

NextRecord(t) == Successor(Visible(t), BodyOf(t))

-----------------------------------------------------------------------------
Init ==
  /\ rows = {}
  /\ pending = [t \in Txn |-> {}]
  /\ holder = Nobody
  /\ link = [t \in Txn |-> "none"]
  /\ pc = [t \in Txn |-> "idle"]
  /\ draft = [t \in Txn |-> NoRecord]
  /\ count = [t \in Txn |-> 0]
  /\ file = [h \in Host |-> <<>>]
  /\ signalled = {} /\ unlocked = {}
  /\ unfiled = {}

Goto(t, from, to) ==
  /\ pc[t] = from
  /\ pc' = [pc EXCEPT ![t] = to]

\* Fault: a session-level lock, which the end of the transaction leaves held.
EndTransactionKeepsLock(t, fate) ==
  /\ link' = [link EXCEPT ![t] = fate]
  /\ pending' = [pending EXCEPT ![t] = {}]
  /\ UNCHANGED holder

\* The server forgets t's transaction: its rows go, its lock is released.
EndTransaction(t, fate) ==
  /\ link' = [link EXCEPT ![t] = fate]
  /\ pending' = [pending EXCEPT ![t] = {}]
  /\ holder' = IF holder = t THEN Nobody ELSE holder

\* The request or task opens its session.
Begin(t) ==
  /\ Goto(t, "idle", "open")
  /\ link' = [link EXCEPT ![t] = "alive"]
  /\ UNCHANGED <<rows, pending, holder, draft, count, file, unfiled, signals>>

\* Its code calls append_async / append_sync.
CallAppend(t) ==
  /\ count[t] < MaxAppends[t]
  /\ Goto(t, "open", "lock")
  /\ count' = [count EXCEPT ![t] = @ + 1]
  /\ UNCHANGED <<rows, pending, holder, link, draft, file, unfiled, signals>>

\* Fault: pg_try_advisory_xact_lock with its result ignored.
TryLock(t) ==
  /\ link[t] = "alive"
  /\ holder' = IF holder = Nobody THEN t ELSE holder
  /\ Goto(t, "lock", "read")
  /\ UNCHANGED <<rows, pending, link, draft, count, file, unfiled, signals>>

\* SELECT pg_advisory_xact_lock: waits for another holder, re-entrant for t.
AcquireLock(t) ==
  /\ link[t] = "alive"
  /\ holder \in {Nobody, t}
  /\ holder' = t
  /\ Goto(t, "lock", "read")
  /\ UNCHANGED <<rows, pending, link, draft, count, file, unfiled, signals>>

\* The lock statement raises: `except Exception: pass`.  The server has
\* dropped the transaction, and every later statement of it raises too.
LockRaises(t) ==
  /\ link[t] = "lost"
  /\ Goto(t, "lock", "read")
  /\ UNCHANGED <<rows, pending, holder, link, draft, count, file, unfiled, signals>>

\* SoftTimeLimitExceeded, raised once in a task, is an Exception: raised before
\* the lock statement is sent it goes the way of the statement's own failure,
\* and the transaction is alive and goes on, without the lock if it had none.
LockInterrupted(t) ==
  /\ t \in Task \ signalled
  /\ link[t] = "alive"
  /\ Goto(t, "lock", "read")
  /\ signalled' = signalled \cup {t}
  /\ unlocked' = IF holder = t THEN unlocked ELSE unlocked \cup {BodyOf(t)}
  /\ UNCHANGED <<rows, pending, holder, link, draft, count, file, unfiled>>

\* Read the chain's head, compute sequence number, previous hash and hash.
ReadLatest(t) ==
  /\ link[t] = "alive"
  /\ Goto(t, "read", "insert")
  /\ draft' = [draft EXCEPT ![t] = NextRecord(t)]
  /\ UNCHANGED <<rows, pending, holder, link, count, file, unfiled, signals>>

\* sequence_number is UNIQUE: an equal number that another open transaction
\* has inserted makes the INSERT wait for that transaction's outcome.
Taken(t, R) == \E r \in R : r.seq = draft[t].seq
Blocked(t)  == \E u \in Txn \ {t} : Taken(t, pending[u])

\* Fault: commit() instead of flush() inside append_sync.
InsertRowCommits(t) ==
  /\ link[t] = "alive"
  /\ ~Blocked(t) /\ ~Taken(t, Visible(t))
  /\ Goto(t, "insert", "file")
  /\ rows' = rows \cup {draft[t]}
  /\ UNCHANGED <<pending, holder, link, draft, count, file, unfiled, signals>>

InsertRow(t) ==
  /\ link[t] = "alive"
  /\ ~Blocked(t)
  /\ ~Taken(t, Visible(t))
  /\ Goto(t, "insert", "file")
  /\ pending' = [pending EXCEPT ![t] = @ \cup {draft[t]}]
  /\ UNCHANGED <<rows, holder, link, draft, count, file, unfiled, signals>>

\* The unique constraint refuses t's INSERT.
Refused(t) ==
  pc[t] = "insert" /\ link[t] = "alive" /\ ~Blocked(t) /\ Taken(t, Visible(t))

\* Fault: the file opened with mode "w" instead of "a".
AppendLineTruncates(t) ==
  /\ Goto(t, "file", "open")
  /\ file' = [file EXCEPT ![HostOf[t]] = <<draft[t]>>]
  /\ UNCHANGED <<rows, pending, holder, link, draft, count, unfiled, signals>>

\* append_entry_to_file, reached although the transaction is not committed.
AppendLine(t) ==
  /\ Goto(t, "file", "open")
  /\ file' = [file EXCEPT ![HostOf[t]] = Append(@, draft[t])]
  /\ UNCHANGED <<rows, pending, holder, link, draft, count, unfiled, signals>>

\* The write raises, or the soft time limit does before it: logged, and the
\* caller goes on.
AppendLineFails(t) ==
  /\ Goto(t, "file", "open")
  /\ unfiled' = unfiled \cup {draft[t]}
  /\ UNCHANGED <<rows, pending, holder, link, draft, count, file, signals>>

\* Raised outside the try blocks of append_sync, the soft time limit ends the
\* append; the task swallows it (tasks.py) and goes on with its transaction.
\* The entry is nowhere, and its number of an append is free.
AppendInterrupted(t) ==
  /\ t \in Task \ signalled
  /\ pc[t] \in {"lock", "read", "insert"}
  /\ pc' = [pc EXCEPT ![t] = "open"]
  /\ count' = [count EXCEPT ![t] = @ - 1]
  /\ signalled' = signalled \cup {t}
  /\ UNCHANGED <<rows, pending, holder, link, draft, file, unlocked, unfiled>>

\* The session's commit; the lock goes with the transaction.
CommitTo(t, outcome) ==
  /\ link[t] = "alive"
  /\ Goto(t, "open", outcome)
  /\ rows' = rows \cup pending[t]
  /\ EndTransaction(t, "none")
  /\ UNCHANGED <<draft, count, file, unfiled, signals>>

Commit(t) == CommitTo(t, "committed")

\* Committed on the server, but the acknowledgement never reached the client,
\* which reports an error for work that was done.
CommitUnacknowledged(t) == CommitTo(t, "unacked")

\* An exception in the handler after the append: session.rollback().
Rollback(t) ==
  /\ Goto(t, "open", "aborted")
  /\ EndTransaction(t, "none")
  /\ UNCHANGED <<rows, draft, count, file, unfiled, signals>>

\* A statement raises: the server has dropped the transaction, or refuses the
\* row.  Whoever catches it, nothing of the transaction is left to commit.
StatementRaises(t) ==
  /\ Refused(t) \/ (link[t] = "lost" /\ pc[t] \in {"read", "insert"})
  /\ pc' = [pc EXCEPT ![t] = "aborted"]
  /\ EndTransaction(t, "none")
  /\ UNCHANGED <<rows, draft, count, file, unfiled, signals>>

\* The server drops t's transaction (connection lost, statement cancelled):
\* t's code only learns of it at its next statement.
LoseConnection(t) ==
  /\ link[t] = "alive"
  /\ EndTransaction(t, "lost")
  /\ UNCHANGED <<rows, pc, draft, count, file, unfiled, signals>>

\* t waits for u: for the advisory lock, or for the fate of u's row of the
\* number t is about to insert.
WaitsFor(t, u) ==
  /\ link[t] = "alive" /\ u # t
  /\ \/ pc[t] = "lock" /\ holder = u
     \/ pc[t] = "insert" /\ Taken(t, pending[u])

\* An unlocked append's row makes the lock's holder wait, and its next append
\* waits for the lock: PostgreSQL finds the cycle and ends one of the two.
DeadlockDetected(t) ==
  /\ \E u \in Txn : WaitsFor(t, u) /\ WaitsFor(u, t)
  /\ LoseConnection(t)

\* The process that runs t dies.
Crash(t) ==
  /\ pc[t] \in Running
  /\ pc' = [pc EXCEPT ![t] = "aborted"]
  /\ EndTransaction(t, "none")
  /\ UNCHANGED <<rows, draft, count, file, unfiled, signals>>

\* What t's own code does; its begin, signals, losses and crashes come from
\* outside.
Step(t) ==
  \/ CallAppend(t)
  \/ AcquireLock(t)
  \/ LockRaises(t)
  \/ ReadLatest(t)
  \/ InsertRow(t)
  \/ AppendLine(t)
  \/ AppendLineFails(t)
  \/ Commit(t)
  \/ CommitUnacknowledged(t)
  \/ Rollback(t)
  \/ StatementRaises(t)

\* What comes from outside.
Fault(t) == LockInterrupted(t) \/ AppendInterrupted(t) \/ LoseConnection(t) \/ Crash(t)

\* All requests and tasks of the instance are over.
Finished == (\A t \in Txn : pc[t] \in Ended) /\ UNCHANGED vars

Next ==
  \/ \E t \in Txn : Begin(t) \/ Step(t) \/ Fault(t)
  \/ Finished

Spec == Init /\ [][Next]_vars
FairSpec ==
  /\ Spec
  /\ \A t \in Txn : WF_vars(Step(t))
  /\ WF_vars(\E t \in Txn : DeadlockDetected(t))

-----------------------------------------------------------------------------
(* Properties.                                                             *)

IsRecord(r) ==
  /\ DOMAIN r = {"seq", "prev", "body", "hash"}
  /\ r.seq \in Nat \ {0}
  /\ r.body \in Body
  /\ r.hash = Digest(r.seq, r.prev, r.body)

\* The records a file ledger holds.
Lines(ledger) == {ledger[i] : i \in DOMAIN ledger}

\* Every variable has its type; a draft exists when it is about to be used.
TypeOK ==
  /\ \A r \in rows : IsRecord(r)
  /\ \A t \in Txn : \A r \in pending[t] : IsRecord(r)
  /\ DOMAIN pending = Txn
  /\ holder \in Txn \cup {Nobody}
  /\ link \in [Txn -> {"none", "alive", "lost"}]
  /\ pc \in [Txn -> {"idle"} \cup Running \cup Ended]
  /\ DOMAIN draft = Txn
  /\ \A t \in Txn : pc[t] \in {"insert", "file"} => IsRecord(draft[t])
  /\ count \in [Txn -> Nat]
  /\ DOMAIN file = Host
  /\ \A h \in Host : /\ file[h] \in Seq(Lines(file[h]))
                     /\ \A r \in Lines(file[h]) : IsRecord(r)
  /\ signalled \subseteq Task /\ unlocked \subseteq Body
  /\ \A r \in unfiled : IsRecord(r)

\* The three checks of verify_chain_async, on the rows in sequence order:
\* no number twice and no gap below one, every record carries its
\* predecessor's hash (the first one the genesis hash), and its own hash is
\* the digest of its fields.
ValidChain(R) ==
  /\ \A r, s \in R : r.seq = s.seq => r = s
  /\ \A r \in R : r.hash = Digest(r.seq, r.prev, r.body)
  /\ \A r \in R :
       IF r.seq = 1 THEN r.prev = Genesis
       ELSE \E s \in R : s.seq = r.seq - 1 /\ r.prev = s.hash

\* The committed table verifies in every state, so verify_chain_async never
\* reports tampering that did not happen, however requests and workers
\* interleave, fail, lose their connection or crash.
ChainIntact == ValidChain(rows)

\* Two layers guard the chain, the lock and the unique constraint on
\* sequence_number, and where the lock was taken the second is redundant: an
\* insert finds its number taken, and waits or is refused, only if its own
\* lock statement was never sent, or that of the entry which has the number.
\* A task's soft time limit is the only way to that: no failure of the lock
\* statement itself leaves a transaction that can insert.
Clashing(t) ==
  {r \in rows \cup UNION {pending[u] : u \in Txn} : r.seq = draft[t].seq}
OnlyUnlockedClash ==
  \A t \in Txn : pc[t] = "insert" /\ link[t] = "alive" =>
    \A r \in Clashing(t) : draft[t].body \in unlocked \/ r.body \in unlocked

\* The table in sequence order.
ChainRows   == [i \in 1..Cardinality(rows) |-> CHOOSE r \in rows : r.seq = i]
ChainBodies == [i \in DOMAIN ChainRows |-> ChainRows[i].body]

\* A host's file, restricted to the records that were committed, is the
\* chain restricted to the records that host appended and managed to write:
\* none missing, none twice, none out of order, although the file is written
\* before the commit and nothing takes a line back after a rollback.
CommittedLines(h) == {i \in DOMAIN file[h] : file[h][i] \in rows}
FileProjectsChain ==
  \A h \in Host :
    /\ {file[h][i] : i \in CommittedLines(h)} =
         {r \in rows : HostOf[Writer(r)] = h /\ r \notin unfiled}
    /\ \A i, j \in CommittedLines(h) : i < j => file[h][i].seq < file[h][j].seq

\* A committed row is never changed or removed, and what is added later has
\* later numbers (AuditLog.sequence_number: "Strictly monotonic").
AppendOnly ==
  [][ /\ rows \subseteq rows'
      /\ \A r \in rows' \ rows, s \in rows : s.seq < r.seq ]_rows

\* Every transaction that has begun ends: nobody waits for ever, for the
\* advisory lock or for the outcome of a row with the same number.
EveryTransactionEnds ==
  \A t \in Txn : pc[t] = "open" ~> pc[t] \in Ended

\* The ledger implements its abstract specification: each transaction's
\* entries reach the chain in one block, in order, at most once.
Abstract == INSTANCE Ledger WITH chain <- ChainBodies
ImplementsLedger == Abstract!Spec
=============================================================================
