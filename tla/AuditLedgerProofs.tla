------------------------- MODULE AuditLedgerProofs -------------------------
(***************************************************************************)
(* Theorems about AuditLedger for every set of transactions and hosts and  *)
(* any number of appends per transaction.  The properties follow from IInv.*)
(* The lock alone does not give it, since a task's soft time limit may skip*)
(* the lock statement: at most one transaction has uncommitted rows,       *)
(* because the first of them has the number after the committed table's    *)
(* head, and whoever else would insert that number waits for the outcome.  *)
(* What each transaction sees is a valid chain with a head, and a draft    *)
(* either continues it or has a number that is taken by now.               *)
(***************************************************************************)
EXTENDS AuditLedger, SequenceTheorems, TLAPS

\* The records of a file after an append, and that it stays a sequence.
LEMMA AppendLines ==
  ASSUME NEW s, s \in Seq(Lines(s)), NEW e
  PROVE  /\ Append(s, e) \in Seq(Lines(Append(s, e)))
         /\ Lines(Append(s, e)) = Lines(s) \cup {e}
<1> DEFINE S == Lines(s) \cup {e}
           a == Append(s, e)
<1>1. s \in Seq(S)
  BY SeqMonotonic, Lines(s) \subseteq S
<1>2. /\ a \in Seq(S)
      /\ Len(a) = Len(s) + 1
      /\ \A i \in 1..Len(s) : a[i] = s[i]
      /\ a[Len(s) + 1] = e
  BY <1>1, AppendProperties
<1>3. DOMAIN a = 1..(Len(s) + 1) /\ DOMAIN s = 1..Len(s) /\ Len(s) \in Nat
  BY <1>1, <1>2, LenProperties
<1>4. Lines(a) = Lines(s) \cup {e}
  BY <1>2, <1>3 DEF Lines
<1>5. QED
  BY <1>2, <1>4

\* Records made by Record have the digest of their own fields, as _build_record gives them.
LEMMA RecordIsRecord ==
  ASSUME NEW n \in Nat \ {0}, NEW prev, NEW body \in Body
  PROVE  IsRecord(Record(n, prev, body))
BY DEF IsRecord, Record

-----------------------------------------------------------------------------
(* A chain has a head: a record with the highest number.                   *)
HasHead(R) == R = {} \/ \E r \in R : \A s \in R : s.seq <= r.seq

Good(R) == ValidChain(R) /\ HasHead(R) /\ \A r \in R : IsRecord(r)

\* The row that _latest reads has the greatest number there is.
LEMMA LatestIsHead ==
  ASSUME NEW R, Good(R), R # {}
  PROVE  LatestOf(R) \in R /\ \A s \in R : s.seq <= LatestOf(R).seq
BY DEF Good, HasHead, LatestOf

\* The record made after the latest row is a record with a number above all others.
LEMMA SuccessorIsRecord ==
  ASSUME NEW R, Good(R), NEW body \in Body
  PROVE  /\ IsRecord(Successor(R, body))
         /\ \A r \in R : r.seq < Successor(R, body).seq
<1>1. CASE R = {}
  BY <1>1, RecordIsRecord, 1 \in Nat \ {0} DEF Successor
<1>2. CASE R # {}
  <2> DEFINE n == LatestOf(R).seq + 1
  <2>1. LatestOf(R) \in R /\ \A s \in R : s.seq <= LatestOf(R).seq
    BY <1>2, LatestIsHead
  <2>2. n \in Nat \ {0} /\ \A r \in R : r.seq \in Nat
    BY <2>1 DEF Good, IsRecord
  <2>3. Successor(R, body) = Record(n, LatestOf(R).hash, body)
    BY <1>2 DEF Successor
  <2>4. Successor(R, body).seq = n
    BY <2>3 DEF Record
  <2>5. IsRecord(Successor(R, body))
    BY <2>2, <2>3, RecordIsRecord
  <2>6. QED
    BY <2>1, <2>2, <2>4, <2>5
<1>3. QED
  BY <1>1, <1>2

\* d is linked to the record before it in R.
Continues(d, R) ==
  IF d.seq = 1 THEN d.prev = Genesis ELSE \E s \in R : s.seq = d.seq - 1 /\ d.prev = s.hash

\* The record made after the latest row is linked to it.
LEMMA SuccessorContinues ==
  ASSUME NEW R, Good(R), NEW body
  PROVE  Continues(Successor(R, body), R)
<1>1. CASE R = {}
  BY <1>1 DEF Continues, Successor, Record
<1>2. CASE R # {}
  <2>1. LatestOf(R) \in R /\ LatestOf(R).seq \in Nat \ {0}
    BY <1>2, LatestIsHead DEF Good, IsRecord
  <2>2. /\ Successor(R, body).seq = LatestOf(R).seq + 1
        /\ Successor(R, body).prev = LatestOf(R).hash
    BY <1>2 DEF Successor, Record
  <2>3. QED
    BY <2>1, <2>2 DEF Continues
<1>3. QED
  BY <1>1, <1>2

\* Adding its successor to a valid chain gives a valid chain.
LEMMA SuccessorExtends ==
  ASSUME NEW R, Good(R), NEW body \in Body
  PROVE  Good(R \cup {Successor(R, body)})
<1> DEFINE d == Successor(R, body)
           S == R \cup {d}
<1>1. IsRecord(d) /\ \A r \in R : r.seq < d.seq
  BY SuccessorIsRecord
<1>2. \A r \in S : IsRecord(r)
  BY <1>1 DEF Good
<1>3. \A r \in R : r.seq \in Nat
  BY DEF Good, IsRecord
<1>4. d.seq \in Nat /\ d.hash = Digest(d.seq, d.prev, d.body)
  BY <1>1 DEF IsRecord
<1>5. HasHead(S)
  BY <1>1, <1>3, <1>4 DEF HasHead
<1>6. \A r, s \in S : r.seq = s.seq => r = s
  BY <1>1, <1>3, <1>4 DEF Good, ValidChain
<1>7. \A r \in S : r.hash = Digest(r.seq, r.prev, r.body)
  BY <1>4 DEF Good, ValidChain
<1>8. Continues(d, R)
  BY SuccessorContinues
<1>9. \A r \in S : IF r.seq = 1 THEN r.prev = Genesis
                   ELSE \E s \in S : s.seq = r.seq - 1 /\ r.prev = s.hash
  BY <1>8 DEF Good, ValidChain, Continues
<1>10. QED
  BY <1>2, <1>5, <1>6, <1>7, <1>9 DEF Good, ValidChain

-----------------------------------------------------------------------------
(* The inductive invariant.                                                *)

\* An entry was begun with the lock, which lasts as long as the transaction,
\* or without its lock statement.
LockInv ==
  \A t \in Txn :
    /\ link[t] = "alive" => pc[t] \in Running
    /\ pc[t] \in {"lock", "read", "insert", "file"} => count[t] >= 1
    /\ link[t] # "alive" => pending[t] = {} /\ holder # t
    /\ link[t] = "alive" /\ pc[t] \in {"read", "insert", "file"} =>
         holder = t \/ BodyOf(t) \in unlocked
    /\ pc[t] \in {"insert", "file"} => draft[t].body = BodyOf(t)
    /\ \A r \in pending[t] : holder = t \/ r.body \in unlocked

\* The number after the table's head.
Following == Successor(rows, <<>>).seq

\* At most one transaction has uncommitted rows, and one of them has the
\* number that anybody else would insert next.
WriterInv ==
  /\ \A t, u \in Txn : pending[t] # {} /\ pending[u] # {} => t = u
  /\ \A t \in Txn : pending[t] # {} => \E r \in pending[t] : r.seq = Following

\* What is committed, and what each transaction sees, is a chain with a head;
\* uncommitted rows come after the committed ones.
ChainInv ==
  /\ Good(rows)
  /\ \A t \in Txn : Good(Visible(t))
  /\ \A t \in Txn : \A r \in pending[t], s \in rows : s.seq < r.seq

\* The number of t's draft was committed after t computed it, by an entry
\* without the lock if t has it; the draft is linked to the row before.
Stale(t) ==
  /\ pending[t] = {}
  /\ Continues(draft[t], rows)
  /\ \E r \in rows : r.seq = draft[t].seq /\ (holder = t => r.body \in unlocked)

\* A draft about to be inserted continues what its writer sees, or is stale.
DraftInv ==
  \A t \in Txn :
    pc[t] = "insert" /\ link[t] = "alive" => draft[t] = NextRecord(t) \/ Stale(t)

IInv == TypeOK /\ LockInv /\ WriterInv /\ ChainInv /\ DraftInv

\* The invariant holds of the empty table.
LEMMA InitInv == Init => IInv
<1> SUFFICES ASSUME Init PROVE IInv
  OBVIOUS
<1>1. TypeOK
  <2>1. \A h \in Host : file[h] \in Seq(Lines(file[h])) /\ Lines(file[h]) = {}
    BY DEF Init, Lines
  <2>2. QED
    BY <2>1 DEF Init, TypeOK, Running, Ended
<1>2. LockInv
  BY TxnAssumption DEF Init, LockInv
<1>3. ChainInv
  BY DEF Init, ChainInv, Good, ValidChain, HasHead, Visible
<1>4. DraftInv
  BY DEF Init, DraftInv
<1>5. WriterInv
  BY DEF Init, WriterInv
<1>6. QED
  BY <1>1, <1>2, <1>3, <1>4, <1>5 DEF IInv

\* The record a transaction computes is a record, later than all it sees.
LEMMA NextIsRecord ==
  ASSUME IInv, NEW t \in Txn
  PROVE  IsRecord(NextRecord(t)) /\ \A r \in Visible(t) : r.seq < NextRecord(t).seq
<1>1. Good(Visible(t)) /\ BodyOf(t) \in Body
  BY DEF IInv, ChainInv, TypeOK, BodyOf, Body
<1>2. QED
  BY <1>1, SuccessorIsRecord DEF NextRecord

\* Type correctness is preserved.
LEMMA TypeStep == IInv /\ [Next]_vars => TypeOK'
<1> SUFFICES ASSUME IInv, [Next]_vars PROVE TypeOK'
  OBVIOUS
<1> USE DEF IInv, TypeOK, Goto, Running, Ended, signals
<1>1. ASSUME NEW t \in Txn, Begin(t) PROVE TypeOK'
  BY <1>1 DEF Begin
<1>2. ASSUME NEW t \in Txn, CallAppend(t) PROVE TypeOK'
  BY <1>2 DEF CallAppend
<1>3. ASSUME NEW t \in Txn, AcquireLock(t) PROVE TypeOK'
  BY <1>3 DEF AcquireLock
<1>4. ASSUME NEW t \in Txn, LockRaises(t) PROVE TypeOK'
  BY <1>4 DEF LockRaises
<1>5. ASSUME NEW t \in Txn, ReadLatest(t) PROVE TypeOK'
  <2>1. IsRecord(NextRecord(t))
    BY NextIsRecord
  <2>2. QED
    BY <1>5, <2>1 DEF ReadLatest
<1>6. ASSUME NEW t \in Txn, InsertRow(t) PROVE TypeOK'
  <2>1. IsRecord(draft[t])
    BY <1>6 DEF InsertRow
  <2>2. \A u \in Txn : \A r \in pending'[u] : IsRecord(r)
    BY <1>6, <2>1 DEF InsertRow
  <2>3. QED
    BY <1>6, <2>1, <2>2 DEF InsertRow
<1>7. ASSUME NEW t \in Txn, AppendLine(t) PROVE TypeOK'
  <2>1. IsRecord(draft[t])
    BY <1>7 DEF AppendLine
  <2>2. \A h \in Host : /\ file'[h] \in Seq(Lines(file'[h]))
                        /\ \A r \in Lines(file'[h]) : IsRecord(r)
    <3>1. TAKE h \in Host
    <3>2. CASE h = HostOf[t]
      <4>1. file'[h] = Append(file[h], draft[t])
        BY <1>7, <3>2 DEF AppendLine
      <4>2. QED
        BY <4>1, <2>1, AppendLines
    <3>3. CASE h # HostOf[t]
      BY <1>7, <3>3 DEF AppendLine
    <3>4. QED
      BY <3>2, <3>3
  <2>3. DOMAIN file' = Host
    BY <1>7 DEF AppendLine
  <2>4. UNCHANGED <<rows, pending, holder, link, draft, count, unfiled, signals>>
    BY <1>7 DEF AppendLine
  <2>5. pc' \in [Txn -> {"idle"} \cup Running \cup Ended]
    BY <1>7 DEF AppendLine
  <2>6. \A u \in Txn : pc'[u] \in {"insert", "file"} => IsRecord(draft'[u])
    BY <1>7 DEF AppendLine
  <2>7. QED
    BY <2>2, <2>3, <2>4, <2>5, <2>6
<1>8. ASSUME NEW t \in Txn, AppendLineFails(t) PROVE TypeOK'
  BY <1>8 DEF AppendLineFails
<1>9. ASSUME NEW t \in Txn, Commit(t) PROVE TypeOK'
  BY <1>9 DEF Commit, CommitTo, EndTransaction
<1>10. ASSUME NEW t \in Txn, CommitUnacknowledged(t) PROVE TypeOK'
  BY <1>10 DEF CommitUnacknowledged, CommitTo, EndTransaction
<1>11. ASSUME NEW t \in Txn, Rollback(t) PROVE TypeOK'
  BY <1>11 DEF Rollback, EndTransaction
<1>12. ASSUME NEW t \in Txn, StatementRaises(t) PROVE TypeOK'
  BY <1>12 DEF StatementRaises, EndTransaction
<1>13. ASSUME NEW t \in Txn, LoseConnection(t) PROVE TypeOK'
  BY <1>13 DEF LoseConnection, EndTransaction
<1>14. ASSUME NEW t \in Txn, Crash(t) PROVE TypeOK'
  BY <1>14 DEF Crash, EndTransaction
<1>15. ASSUME NEW t \in Txn, LockInterrupted(t) PROVE TypeOK'
  <2>1. signalled' \subseteq Task /\ unlocked' \subseteq Body
    BY <1>15 DEF LockInterrupted, BodyOf, Body
  <2>2. QED
    BY <1>15, <2>1 DEF LockInterrupted
<1>16. ASSUME NEW t \in Txn, AppendInterrupted(t) PROVE TypeOK'
  <2>1. count[t] >= 1
    BY <1>16 DEF AppendInterrupted, LockInv
  <2>2. count' \in [Txn -> Nat]
    BY <1>16, <2>1 DEF AppendInterrupted
  <2>3. QED
    BY <1>16, <2>2 DEF AppendInterrupted
<1>17. CASE UNCHANGED vars
  BY <1>17 DEF vars, signals
<1>18. QED
  BY <1>1, <1>2, <1>3, <1>4, <1>5, <1>6, <1>7, <1>8, <1>9, <1>10, <1>11,
     <1>12, <1>13, <1>14, <1>15, <1>16, <1>17 DEF Next, Step, Fault, Finished

\* Every step keeps that an entry has the lock, or no lock statement.
LEMMA LockStep == IInv /\ [Next]_vars => LockInv'
<1> SUFFICES ASSUME IInv, [Next]_vars PROVE LockInv'
  OBVIOUS
<1> USE TxnAssumption DEF IInv, TypeOK, LockInv, Goto, Running, Ended, signals, BodyOf
<1>1. ASSUME NEW t \in Txn, Begin(t) PROVE LockInv'
  BY <1>1 DEF Begin
<1>2. ASSUME NEW t \in Txn, CallAppend(t) PROVE LockInv'
  <2>1. /\ count'[t] >= 1 /\ pc'[t] = "lock"
        /\ \A u \in Txn \ {t} : count'[u] = count[u] /\ pc'[u] = pc[u]
        /\ UNCHANGED <<pending, holder, link, draft, unlocked>>
    BY <1>2 DEF CallAppend
  <2>2. QED
    BY <2>1
<1>3. ASSUME NEW t \in Txn, AcquireLock(t) PROVE LockInv'
  BY <1>3 DEF AcquireLock
<1>4. ASSUME NEW t \in Txn, LockRaises(t) PROVE LockInv'
  BY <1>4 DEF LockRaises
<1>5. ASSUME NEW t \in Txn, ReadLatest(t) PROVE LockInv'
  BY <1>5 DEF ReadLatest, NextRecord, Successor, Record
<1>6. ASSUME NEW t \in Txn, InsertRow(t) PROVE LockInv'
  BY <1>6 DEF InsertRow
<1>7. ASSUME NEW t \in Txn, AppendLine(t) PROVE LockInv'
  BY <1>7 DEF AppendLine
<1>8. ASSUME NEW t \in Txn, AppendLineFails(t) PROVE LockInv'
  BY <1>8 DEF AppendLineFails
<1>9. ASSUME NEW t \in Txn, Commit(t) PROVE LockInv'
  BY <1>9 DEF Commit, CommitTo, EndTransaction
<1>10. ASSUME NEW t \in Txn, CommitUnacknowledged(t) PROVE LockInv'
  BY <1>10 DEF CommitUnacknowledged, CommitTo, EndTransaction
<1>11. ASSUME NEW t \in Txn, Rollback(t) PROVE LockInv'
  BY <1>11 DEF Rollback, EndTransaction
<1>12. ASSUME NEW t \in Txn, StatementRaises(t) PROVE LockInv'
  BY <1>12 DEF StatementRaises, EndTransaction
<1>13. ASSUME NEW t \in Txn, LockInterrupted(t) PROVE LockInv'
  BY <1>13 DEF LockInterrupted
<1>14. ASSUME NEW t \in Txn, AppendInterrupted(t) PROVE LockInv'
  BY <1>14 DEF AppendInterrupted
<1>15. ASSUME NEW t \in Txn, LoseConnection(t) PROVE LockInv'
  BY <1>15 DEF LoseConnection, EndTransaction
<1>16. ASSUME NEW t \in Txn, Crash(t) PROVE LockInv'
  BY <1>16 DEF Crash, EndTransaction
<1>17. CASE UNCHANGED vars
  BY <1>17 DEF vars
<1>18. QED
  BY <1>1, <1>2, <1>3, <1>4, <1>5, <1>6, <1>7, <1>8, <1>9, <1>10, <1>11,
     <1>12, <1>13, <1>14, <1>15, <1>16, <1>17 DEF Next, Step, Fault, Finished

\* What is inserted continues what its writer sees: a stale draft's number is
\* taken, so the unique constraint refuses it.
LEMMA InsertsNext ==
  ASSUME IInv, NEW t \in Txn, InsertRow(t)
  PROVE  draft[t] = NextRecord(t)
BY DEF InsertRow, Goto, IInv, DraftInv, Stale, Taken, Visible

\* The record after the committed table has the number Following.
LEMMA NextFollows ==
  ASSUME NEW t \in Txn, pending[t] = {}
  PROVE  NextRecord(t) = Successor(rows, BodyOf(t)) /\ NextRecord(t).seq = Following
<1>1. Visible(t) = rows
  BY DEF Visible
<1>2. QED
  BY <1>1 DEF NextRecord, Following, Successor, Record

\* Who inserts has rows of its own, or nobody has.
LEMMA InsertsAlone ==
  ASSUME IInv, NEW t \in Txn, InsertRow(t)
  PROVE  \A u \in Txn \ {t} : pending[u] = {}
<1> SUFFICES ASSUME NEW u \in Txn \ {t}, pending[u] # {} PROVE FALSE
  OBVIOUS
<1>1. pending[t] = {}
  BY DEF IInv, WriterInv
<1>2. draft[t].seq = Following
  BY <1>1, InsertsNext, NextFollows
<1>3. \E r \in pending[u] : r.seq = Following
  BY DEF IInv, WriterInv
<1>4. QED
  BY <1>2, <1>3 DEF InsertRow, Blocked, Taken

\* Every step keeps that one transaction at most has uncommitted rows.
LEMMA WriterStep == IInv /\ [Next]_vars => WriterInv'
<1> SUFFICES ASSUME IInv, [Next]_vars PROVE WriterInv'
  OBVIOUS
<1>1. ASSUME UNCHANGED <<rows, pending>> PROVE WriterInv'
  BY <1>1 DEF IInv, WriterInv, Following
<1>2. ASSUME NEW t \in Txn, NEW fate, EndTransaction(t, fate), rows' = rows
      PROVE  WriterInv'
  <2>1. \A u \in Txn : pending'[u] \in {{}, pending[u]}
    BY <1>2 DEF EndTransaction, IInv, TypeOK
  <2>2. Following' = Following
    BY <1>2 DEF Following
  <2>3. QED
    BY <2>1, <2>2 DEF IInv, WriterInv
<1>3. ASSUME NEW t \in Txn, NEW outcome, CommitTo(t, outcome) PROVE WriterInv'
  <2>1. CASE pending[t] = {}
    BY <1>2, <1>3, <2>1 DEF CommitTo
  <2>2. CASE pending[t] # {}
    <3>1. \A u \in Txn : pending'[u] = {}
      BY <1>3, <2>2 DEF CommitTo, EndTransaction, IInv, TypeOK, WriterInv
    <3>2. QED
      BY <3>1 DEF WriterInv
  <2>3. QED
    BY <2>1, <2>2
<1>4. ASSUME NEW t \in Txn, InsertRow(t) PROVE WriterInv'
  <2>1. /\ rows' = rows
        /\ pending'[t] = pending[t] \cup {draft[t]}
        /\ \A u \in Txn \ {t} : pending'[u] = pending[u]
    BY <1>4 DEF InsertRow, IInv, TypeOK
  <2>2. \A u \in Txn \ {t} : pending'[u] = {}
    BY <1>4, <2>1, InsertsAlone
  <2>3. Following' = Following
    BY <2>1 DEF Following
  <2>4. \E r \in pending'[t] : r.seq = Following
    <3>1. CASE pending[t] = {}
      BY <1>4, <2>1, <3>1, InsertsNext, NextFollows
    <3>2. CASE pending[t] # {}
      BY <2>1, <3>2 DEF IInv, WriterInv
    <3>3. QED
      BY <3>1, <3>2
  <2>5. QED
    BY <2>2, <2>3, <2>4 DEF WriterInv
<1>5. ASSUME NEW t \in Txn,
             Begin(t) \/ CallAppend(t) \/ AcquireLock(t) \/ LockRaises(t)
               \/ ReadLatest(t) \/ AppendLine(t) \/ AppendLineFails(t)
               \/ LockInterrupted(t) \/ AppendInterrupted(t)
      PROVE  WriterInv'
  BY <1>1, <1>5 DEF Begin, CallAppend, AcquireLock, LockRaises, ReadLatest,
     AppendLine, AppendLineFails, LockInterrupted, AppendInterrupted
<1>6. ASSUME NEW t \in Txn, Commit(t) \/ CommitUnacknowledged(t) PROVE WriterInv'
  BY <1>3, <1>6 DEF Commit, CommitUnacknowledged
<1>7. ASSUME NEW t \in Txn,
             Rollback(t) \/ StatementRaises(t) \/ LoseConnection(t) \/ Crash(t)
      PROVE  WriterInv'
  BY <1>2, <1>7 DEF Rollback, StatementRaises, LoseConnection, Crash
<1>8. CASE UNCHANGED vars
  BY <1>1, <1>8 DEF vars
<1>9. QED
  BY <1>4, <1>5, <1>6, <1>7, <1>8 DEF Next, Step, Fault, Finished

\* A step by t that neither adds to nor removes from the table or t's own
\* uncommitted rows keeps every view.
LEMMA ChainFrame == IInv /\ UNCHANGED <<rows, pending>> => ChainInv'
BY DEF IInv, ChainInv, Visible

\* The end of a transaction without commit: its view shrinks to the table.
LEMMA EndKeepsChain ==
  ASSUME IInv, NEW t \in Txn, NEW fate, EndTransaction(t, fate), rows' = rows
  PROVE  ChainInv'
<1>1. \A u \in Txn : pending'[u] \in {{}, pending[u]}
  BY DEF EndTransaction, IInv, TypeOK
<1>2. \A u \in Txn : Visible(u)' \in {rows, Visible(u)}
  BY <1>1 DEF Visible
<1>3. QED
  BY <1>1, <1>2 DEF IInv, ChainInv

\* A commit keeps every transaction's view a valid chain: others have no rows of their own.
LEMMA CommitKeepsChain ==
  ASSUME IInv, NEW t \in Txn, NEW outcome, CommitTo(t, outcome)
  PROVE  ChainInv'
<1>1. CASE pending[t] = {}
  <2>1. rows' = rows
    BY <1>1 DEF CommitTo
  <2>2. QED
    BY <2>1, EndKeepsChain DEF CommitTo
<1>2. CASE pending[t] # {}
  <2>1. rows' = Visible(t)
    BY DEF CommitTo, Visible
  <2>2. \A u \in Txn : pending'[u] = {}
    BY <1>2 DEF CommitTo, EndTransaction, IInv, TypeOK, WriterInv
  <2>3. \A u \in Txn : Visible(u)' = rows'
    BY <2>2 DEF Visible
  <2>4. Good(rows')
    BY <2>1 DEF IInv, ChainInv
  <2>5. QED
    BY <2>2, <2>3, <2>4 DEF ChainInv
<1>3. QED
  BY <1>1, <1>2

\* An insert keeps every view a valid chain: the draft is its transaction's successor.
LEMMA InsertKeepsChain ==
  ASSUME IInv, NEW t \in Txn, InsertRow(t)
  PROVE  ChainInv'
<1>1. draft[t] = NextRecord(t)
  BY InsertsNext
<1>2. /\ rows' = rows
      /\ pending' = [pending EXCEPT ![t] = @ \cup {draft[t]}]
      /\ DOMAIN pending = Txn
  BY DEF InsertRow, IInv, TypeOK
<1>3. Visible(t)' = Visible(t) \cup {NextRecord(t)}
  BY <1>1, <1>2 DEF Visible
<1>4. Good(Visible(t)')
  <2>1. Good(Visible(t)) /\ BodyOf(t) \in Body
    BY DEF IInv, ChainInv, TypeOK, BodyOf, Body
  <2>2. QED
    BY <1>3, <2>1, SuccessorExtends DEF NextRecord
<1>5. \A u \in Txn \ {t} : pending'[u] = pending[u] /\ Visible(u)' = Visible(u)
  BY <1>2 DEF Visible
<1>6. \A r \in pending'[t], s \in rows' : s.seq < r.seq
  BY <1>1, <1>2, NextIsRecord DEF IInv, ChainInv, Visible
<1>7. QED
  BY <1>2, <1>4, <1>5, <1>6 DEF IInv, ChainInv

\* Every step keeps every transaction's view of the table a valid chain with a head.
LEMMA ChainStep == IInv /\ [Next]_vars => ChainInv'
<1> SUFFICES ASSUME IInv, [Next]_vars PROVE ChainInv'
  OBVIOUS
<1>1. ASSUME NEW t \in Txn,
             Begin(t) \/ CallAppend(t) \/ AcquireLock(t) \/ LockRaises(t)
               \/ ReadLatest(t) \/ AppendLine(t) \/ AppendLineFails(t)
               \/ LockInterrupted(t) \/ AppendInterrupted(t)
      PROVE  ChainInv'
  BY <1>1, ChainFrame DEF Begin, CallAppend, AcquireLock, LockRaises, ReadLatest,
     AppendLine, AppendLineFails, LockInterrupted, AppendInterrupted
<1>2. ASSUME NEW t \in Txn, InsertRow(t) PROVE ChainInv'
  BY <1>2, InsertKeepsChain
<1>3. ASSUME NEW t \in Txn, Commit(t) \/ CommitUnacknowledged(t) PROVE ChainInv'
  BY <1>3, CommitKeepsChain DEF Commit, CommitUnacknowledged
<1>4. ASSUME NEW t \in Txn,
             Rollback(t) \/ StatementRaises(t)
               \/ LoseConnection(t) \/ Crash(t)
      PROVE  ChainInv'
  BY <1>4, EndKeepsChain DEF Rollback, StatementRaises,
     LoseConnection, Crash
<1>5. CASE UNCHANGED vars
  BY <1>5, ChainFrame DEF vars
<1>6. QED
  BY <1>1, <1>2, <1>3, <1>4, <1>5 DEF Next, Step, Fault, Finished

\* A commit by another takes the number of a fresh draft, and leaves a stale
\* one stale; without the lock if the draft's writer has it.
LEMMA CommitMakesStale ==
  ASSUME IInv, NEW u \in Txn, NEW t \in Txn \ {u}, NEW outcome, CommitTo(t, outcome),
         pending[t] # {}, pc[u] = "insert", link[u] = "alive"
  PROVE  Stale(u)'
<1>1. /\ rows' = rows \cup pending[t]
      /\ UNCHANGED <<draft, unlocked>>
      /\ pending'[u] = pending[u] /\ (holder' = u => holder = u)
  BY TxnAssumption DEF CommitTo, EndTransaction, IInv, TypeOK, signals
<1>2. pending[u] = {}
  BY DEF IInv, WriterInv
<1>3. CASE Stale(u)
  BY <1>1, <1>3 DEF Stale, Continues
<1>4. CASE draft[u] = NextRecord(u)
  <2>1. draft[u] = Successor(rows, BodyOf(u)) /\ draft[u].seq = Following
    BY <1>2, <1>4, NextFollows
  <2>2. Continues(draft[u], rows)
    BY <2>1, SuccessorContinues DEF IInv, ChainInv
  <2>3. Continues(draft[u], rows')
    BY <1>1, <2>2 DEF Continues
  <2>4. PICK r \in pending[t] : r.seq = Following
    BY DEF IInv, WriterInv
  <2>5. holder = u => r.body \in unlocked
    BY DEF IInv, LockInv
  <2>6. QED
    BY <1>1, <1>2, <2>1, <2>3, <2>4, <2>5 DEF Stale
<1>5. QED
  BY <1>3, <1>4 DEF IInv, DraftInv

\* Every step leaves a draft that is about to be inserted fresh or stale.
LEMMA DraftStep == IInv /\ [Next]_vars => DraftInv'
<1> SUFFICES ASSUME IInv, [Next]_vars, NEW u \in Txn,
                    pc'[u] = "insert", link'[u] = "alive"
             PROVE  draft'[u] = NextRecord(u)' \/ Stale(u)'
  BY DEF DraftInv
<1> DEFINE Frame == /\ UNCHANGED <<draft[u], count[u], pending[u], pc[u], link[u]>>
                    /\ holder' = u => holder = u
                    /\ unlocked \subseteq unlocked'
<1>1. ASSUME Frame, rows' = rows
      PROVE  draft'[u] = NextRecord(u)' \/ Stale(u)'
  <2>1. CASE draft[u] = NextRecord(u)
    BY <1>1, <2>1 DEF NextRecord, Visible, BodyOf
  <2>2. CASE Stale(u)
    BY <1>1, <2>2 DEF Stale
  <2>3. QED
    BY <1>1, <2>1, <2>2 DEF IInv, DraftInv
<1>2. ASSUME NEW t \in Txn, t # u, Begin(t) \/ Step(t) \/ Fault(t) PROVE Frame
  BY <1>2, TxnAssumption DEF Begin, Step, CallAppend, AcquireLock, LockRaises, ReadLatest,
     InsertRow, AppendLine, AppendLineFails, Commit,
     CommitUnacknowledged, CommitTo, Rollback, StatementRaises, Fault, LockInterrupted,
     AppendInterrupted, LoseConnection, Crash, EndTransaction, Goto, IInv, TypeOK, signals
<1>3. ASSUME NEW t \in Txn, Begin(t) \/ Step(t) \/ Fault(t)
      PROVE  rows' = rows \/ \E outcome : CommitTo(t, outcome) /\ pending[t] # {}
  BY <1>3 DEF Begin, Step, CallAppend, AcquireLock, LockRaises, ReadLatest,
     InsertRow, AppendLine, AppendLineFails, Commit, CommitUnacknowledged, CommitTo,
     Rollback, StatementRaises, Fault, LockInterrupted, AppendInterrupted,
     LoseConnection, Crash
<1>4. ASSUME NEW t \in Txn, t # u, Begin(t) \/ Step(t) \/ Fault(t)
      PROVE  draft'[u] = NextRecord(u)' \/ Stale(u)'
  <2>1. Frame
    BY <1>2, <1>4
  <2>2. ASSUME NEW outcome, CommitTo(t, outcome), pending[t] # {} PROVE Stale(u)'
    BY <1>4, <2>1, <2>2, CommitMakesStale
  <2>3. QED
    BY <1>1, <1>3, <1>4, <2>1, <2>2
<1>5. CASE ReadLatest(u)
  BY <1>5 DEF ReadLatest, IInv, TypeOK, NextRecord, Visible, BodyOf
<1>6. CASE Begin(u) \/ CallAppend(u) \/ AcquireLock(u) \/ LockRaises(u)
             \/ InsertRow(u) \/ AppendLine(u)
             \/ AppendLineFails(u) \/ Commit(u) \/ CommitUnacknowledged(u)
             \/ Rollback(u) \/ StatementRaises(u) \/ Fault(u)
  <2>1. pc'[u] # "insert" \/ link'[u] # "alive"
    BY <1>6 DEF Begin, CallAppend, AcquireLock, LockRaises, InsertRow,
       AppendLine, AppendLineFails, Commit, CommitUnacknowledged,
       CommitTo, Rollback, StatementRaises, Fault, LockInterrupted, AppendInterrupted,
       LoseConnection, Crash, EndTransaction, Goto, IInv, TypeOK
  <2>2. QED
    BY <2>1
<1>7. CASE UNCHANGED vars
  BY <1>1, <1>7 DEF vars, signals
<1>8. QED
  BY <1>4, <1>5, <1>6, <1>7 DEF Next, Step, Finished

-----------------------------------------------------------------------------
(* The theorems.                                                           *)

\* The invariant holds in every reachable state.
LEMMA Invariance == Spec => []IInv
<1>1. IInv /\ [Next]_vars => IInv'
  BY TypeStep, LockStep, WriterStep, ChainStep, DraftStep DEF IInv
<1>2. QED
  BY InitInv, <1>1, PTL DEF Spec

\* Every variable keeps its type, whatever fails and in whatever order.
THEOREM TypeCorrect == Spec => []TypeOK
<1>1. IInv => TypeOK
  BY DEF IInv
<1>2. QED
  BY <1>1, Invariance, PTL

\* verify_chain_async accepts the committed table in every reachable state,
\* for any number of concurrent requests and tasks.
THEOREM ChainAlwaysIntact == Spec => []ChainIntact
<1>1. IInv => ChainIntact
  BY DEF IInv, ChainInv, Good, ChainIntact
<1>2. QED
  BY <1>1, Invariance, PTL

\* A number that an insert finds taken has an entry without its lock
\* statement on one of the two sides: a task's soft time limit is the only way
\* to the unique constraint, for any number of requests and tasks and whatever
\* else fails.
THEOREM OnlyUnlockedClashes == Spec => []OnlyUnlockedClash
<1>1. IInv => OnlyUnlockedClash
  <2> SUFFICES ASSUME IInv, NEW t \in Txn, pc[t] = "insert", link[t] = "alive",
                      NEW r \in Clashing(t), draft[t].body \notin unlocked
               PROVE  r.body \in unlocked
    BY DEF OnlyUnlockedClash
  <2>1. holder = t
    BY DEF IInv, LockInv
  <2>2. CASE draft[t] = NextRecord(t)
    <3>1. r \notin Visible(t)
      <4>1. \A s \in Visible(t) : s.seq < draft[t].seq /\ s.seq \in Nat
        BY <2>2, NextIsRecord DEF IInv, ChainInv, Good, IsRecord
      <4>2. draft[t].seq = r.seq
        BY DEF Clashing
      <4>3. QED
        BY <4>1, <4>2
    <3>2. PICK u \in Txn \ {t} : r \in pending[u]
      BY <3>1 DEF Clashing, Visible
    <3>3. QED
      BY <2>1, <3>2 DEF IInv, LockInv
  <2>3. CASE Stale(t)
    <3>1. CASE r \in rows
      <4>1. \A s \in rows : s.seq = r.seq => s = r
        BY <3>1 DEF IInv, ChainInv, Good, ValidChain
      <4>2. draft[t].seq = r.seq
        BY DEF Clashing
      <4>3. QED
        BY <2>1, <2>3, <4>1, <4>2 DEF Stale
    <3>2. ASSUME NEW u \in Txn, r \in pending[u] PROVE r.body \in unlocked
      <4>1. u # t
        BY <2>3, <3>2 DEF Stale
      <4>2. QED
        BY <2>1, <3>2, <4>1 DEF IInv, LockInv
    <3>3. QED
      BY <3>1, <3>2 DEF Clashing
  <2>4. QED
    BY <2>2, <2>3 DEF IInv, DraftInv
<1>2. QED
  BY <1>1, Invariance, PTL

\* Committed rows stay, and later rows have later numbers.
THEOREM LedgerIsAppendOnly == Spec => AppendOnly
<1>1. IInv /\ [Next]_vars =>
        [ /\ rows \subseteq rows'
          /\ \A r \in rows' \ rows, s \in rows : s.seq < r.seq ]_rows
  <2> SUFFICES ASSUME IInv, Next, rows' # rows
               PROVE  /\ rows \subseteq rows'
                      /\ \A r \in rows' \ rows, s \in rows : s.seq < r.seq
    BY DEF vars
  <2>1. PICK t \in Txn : Commit(t) \/ CommitUnacknowledged(t)
    BY DEF Next, Finished, vars, Begin, Step, CallAppend, AcquireLock, LockRaises,
       ReadLatest, InsertRow, AppendLine, AppendLineFails,
       Rollback, StatementRaises, Fault, LockInterrupted, AppendInterrupted,
       LoseConnection, Crash
  <2>2. rows' = rows \cup pending[t]
    BY <2>1 DEF Commit, CommitUnacknowledged, CommitTo
  <2>3. QED
    BY <2>2 DEF IInv, ChainInv
<1>2. QED
  BY <1>1, Invariance, PTL DEF Spec, AppendOnly
=============================================================================
