----------------------- MODULE AuditLedgerRefinement -----------------------
(***************************************************************************)
(* AuditLedger implements Ledger, and every host's file is the projection  *)
(* of the chain, for any set of transactions and hosts and any number of   *)
(* appends.  Beyond IInv of AuditLedgerProofs the refinement needs to know *)
(* where a transaction's rows stand: the committed table has the numbers   *)
(* 1..n without a gap, and the rows that are not committed, all of one     *)
(* transaction, have the numbers after n and are its entries 1, 2, ... in  *)
(* this order.                                                             *)
(***************************************************************************)
EXTENDS AuditLedgerProofs, FiniteSetTheorems

Appending == {"lock", "read", "insert"}

\* How many entries are committed, and how many t has inserted.
Size   == Cardinality(rows)
Own(t) == Cardinality(pending[t])

\* The table is numbered without a gap.
TableInv == IsFiniteSet(rows) /\ \A n \in Int : n \in 1..Size <=> \E r \in rows : r.seq = n

\* The uncommitted rows of t are its entries, numbered on from the table.
BlockInv ==
  \A t \in Txn :
    /\ IsFiniteSet(pending[t])
    /\ \A n \in Int : n \in 1..Own(t) <=> \E r \in pending[t] : r.seq = Size + n
    /\ \A r \in pending[t] : r.body = <<t, r.seq - Size>>

\* What t has begun to append is what it has inserted, but for the last one.
CountInv ==
  \A t \in Txn :
    /\ count[t] <= MaxAppends[t]
    /\ pc[t] = "idle" => count[t] = 0
    /\ link[t] = "alive" => count[t] = IF pc[t] \in Appending THEN Own(t) + 1 ELSE Own(t)

\* A transaction with a committed row is over.
OnceInv == \A r \in rows : pc[Writer(r)] \in {"committed", "unacked"}

RInv == IInv /\ TableInv /\ BlockInv /\ CountInv /\ OnceInv

-----------------------------------------------------------------------------
(* What the invariant must say of the files.                               *)

\* Rows that are committed or may still be.
Live == rows \cup UNION {pending[t] : t \in Txn}

\* A record that t has left behind, in a file or unfiled, was made before
\* the append t is in.
Past(r) ==
  /\ r.body[2] <= count[Writer(r)]
  /\ pc[Writer(r)] \in Appending \cup {"file"} => r.body[2] < count[Writer(r)]

\* A draft carries its append's number until it is filed; when it is filed it
\* is the last row its transaction sees.
DraftedInv ==
  \A t \in Txn :
    /\ pc[t] \in {"insert", "file"} => draft[t].body = BodyOf(t)
    /\ pc[t] = "file" /\ link[t] = "alive" =>
         draft[t] \in pending[t] /\ \A s \in Visible(t) : s.seq <= draft[t].seq

PastInv ==
  /\ \A h \in Host : \A r \in Lines(file[h]) : HostOf[Writer(r)] = h /\ Past(r)
  /\ \A r \in unfiled : Past(r)

\* Live records stand in a file in the order of their numbers, each once.
OrderInv ==
  \A h \in Host : \A i, j \in DOMAIN file[h] :
    file[h][i] \in Live /\ file[h][j] \in Live /\ i < j => file[h][i].seq < file[h][j].seq

\* A live record is in its host's file unless its write failed or is to come.
BeingFiled(r) == pc[Writer(r)] = "file" /\ r = draft[Writer(r)]
FiledInv ==
  \A r \in Live : ~BeingFiled(r) => (r \in unfiled <=> r \notin Lines(file[HostOf[Writer(r)]]))

FInv == RInv /\ DraftedInv /\ PastInv /\ OrderInv /\ FiledInv

-----------------------------------------------------------------------------
(* The table and the uncommitted rows: RInv is inductive.                  *)

\* Without uncommitted rows t has no own entries, and the other way round.
LEMMA OwnCounts ==
  ASSUME RInv, NEW t \in Txn
  PROVE  Size \in Nat /\ Own(t) \in Nat /\ (Own(t) = 0 <=> pending[t] = {})
BY FS_CardinalityType, FS_EmptySet DEF RInv, TableInv, BlockInv, Size, Own

\* The next record of t is one after everything it sees.
LEMMA NextNumber ==
  ASSUME RInv, NEW t \in Txn, link[t] = "alive", pc[t] = "insert"
  PROVE  NextRecord(t).seq = Size + Own(t) + 1 /\ NextRecord(t).body = <<t, Own(t) + 1>>
<1>1. NextRecord(t).body = <<t, Own(t) + 1>>
  BY DEF RInv, CountInv, Appending, NextRecord, Successor, Record, BodyOf
<1>2. Size \in Nat /\ Own(t) \in Nat /\ (Own(t) = 0 <=> pending[t] = {})
  BY OwnCounts
<1>3. \A n \in Int : n \in 1..Size <=> \E r \in rows : r.seq = n
  BY DEF RInv, TableInv
<1>4. \A n \in Int : n \in 1..Own(t) <=> \E r \in pending[t] : r.seq = Size + n
  BY DEF RInv, BlockInv
<1>5. \A r \in Visible(t) : r.seq \in Nat \ {0}
  BY DEF RInv, IInv, ChainInv, Good, IsRecord
<1>6. \A r \in Visible(t) : r.seq <= Size + Own(t)
  <2>1. \A r \in rows : r.seq <= Size
    BY <1>2, <1>3, <1>5 DEF Visible
  <2>2. \A r \in pending[t] : r.seq - Size \in Int /\ r.seq = Size + (r.seq - Size)
    BY <1>2, <1>5 DEF Visible
  <2>3. \A r \in pending[t] : r.seq - Size \in 1..Own(t)
    BY <2>2, <1>4
  <2>4. \A r \in pending[t] : r.seq <= Size + Own(t)
    BY <2>3, <1>2, <1>5 DEF Visible
  <2>5. QED
    BY <2>1, <2>4, <1>2, <1>5 DEF Visible
<1>7. CASE Visible(t) = {}
  <2>1. Size = 0 /\ Own(t) = 0
    BY <1>7, FS_EmptySet DEF Visible, Size, Own
  <2>2. QED
    BY <1>1, <1>7, <2>1 DEF NextRecord, Successor, Record
<1>8. CASE Visible(t) # {}
  <2>1. LatestOf(Visible(t)) \in Visible(t)
        /\ \A s \in Visible(t) : s.seq <= LatestOf(Visible(t)).seq
    BY <1>8, LatestIsHead DEF RInv, IInv, ChainInv
  <2>2. \E r \in Visible(t) : r.seq = Size + Own(t)
    <3>1. CASE Own(t) = 0
      <4>1. Size \in 1..Size
        BY <1>2, <1>3, <1>5, <1>6, <1>8, <3>1
      <4>2. QED
        BY <1>2, <1>3, <3>1, <4>1 DEF Visible
    <3>2. CASE Own(t) # 0
      BY <1>2, <1>4, <3>2 DEF Visible
    <3>3. QED
      BY <3>1, <3>2
  <2>3. LatestOf(Visible(t)).seq = Size + Own(t)
    BY <1>2, <1>5, <1>6, <2>1, <2>2
  <2>4. NextRecord(t).seq = LatestOf(Visible(t)).seq + 1
    BY <1>8 DEF NextRecord, Successor, Record
  <2>5. QED
    BY <1>1, <2>3, <2>4
<1>9. QED
  BY <1>7, <1>8

\* What a commit makes of the table's size.
LEMMA CommitSize ==
  ASSUME RInv, NEW t \in Txn, rows' = rows \cup pending[t]
  PROVE  IsFiniteSet(rows') /\ Size' = Size + Own(t)
<1>1. IsFiniteSet(rows) /\ IsFiniteSet(pending[t])
  BY DEF RInv, TableInv, BlockInv
<1>2. rows \cap pending[t] = {}
  BY DEF RInv, IInv, ChainInv, Good, IsRecord
<1>3. IsFiniteSet({}) /\ Cardinality({}) = 0
  BY FS_EmptySet
<1>4. Cardinality(rows) \in Nat /\ Cardinality(pending[t]) \in Nat
  BY <1>1, FS_CardinalityType
<1>5. IsFiniteSet(rows')
      /\ Cardinality(rows') = Cardinality(rows) + Cardinality(pending[t]) - Cardinality({})
  BY <1>1, <1>2, FS_Union
<1>6. QED
  BY <1>3, <1>4, <1>5 DEF Size, Own

\* Every action but a commit leaves the table alone.
LEMMA OnlyCommitsWrite ==
  ASSUME [Next]_vars
  PROVE  rows' = rows \/ \E t \in Txn : Commit(t) \/ CommitUnacknowledged(t)
BY DEF Next, Finished, vars, Begin, Step, CallAppend, AcquireLock, LockRaises,
   ReadLatest, InsertRow, AppendLine, AppendLineFails, Rollback, StatementRaises,
   Fault, LockInterrupted, AppendInterrupted, LoseConnection, Crash

\* Every step keeps the committed table numbered without a gap.
LEMMA TableStep == RInv /\ [Next]_vars => TableInv'
<1> SUFFICES ASSUME RInv, [Next]_vars PROVE TableInv'
  OBVIOUS
<1>1. CASE rows' = rows
  BY <1>1 DEF RInv, TableInv, Size
<1>2. ASSUME NEW t \in Txn, Commit(t) \/ CommitUnacknowledged(t) PROVE TableInv'
  <2>1. rows' = rows \cup pending[t]
    BY <1>2 DEF Commit, CommitUnacknowledged, CommitTo
  <2>2. IsFiniteSet(rows') /\ Size' = Size + Own(t)
    BY <2>1, CommitSize
  <2>3. Size \in Nat /\ Own(t) \in Nat
    BY OwnCounts
  <2>4. \A n \in Int : n \in 1..Size <=> \E r \in rows : r.seq = n
    BY DEF RInv, TableInv
  <2>5. \A n \in Int : n - Size \in 1..Own(t) <=> \E r \in pending[t] : r.seq = n
    <3>1. \A n \in Int : n - Size \in Int /\ Size + (n - Size) = n
      BY <2>3
    <3>2. QED
      BY <3>1 DEF RInv, BlockInv
  <2>6. \A n \in Int : n \in 1..Size' <=> n \in 1..Size \/ n - Size \in 1..Own(t)
    BY <2>2, <2>3
  <2>7. \A n \in Int : n \in 1..Size' <=> \E r \in rows' : r.seq = n
    BY <2>1, <2>4, <2>5, <2>6
  <2>8. QED
    BY <2>2, <2>7 DEF TableInv
<1>3. QED
  BY <1>1, <1>2, OnlyCommitsWrite

\* The end of a transaction takes its uncommitted rows with it.
LEMMA EndKeepsBlocks ==
  ASSUME RInv, NEW t \in Txn, NEW fate, EndTransaction(t, fate), rows' = rows
  PROVE  BlockInv'
<1>1. Size' = Size
  BY DEF Size
<1>2. \A u \in Txn : pending'[u] \in {{}, pending[u]}
  BY DEF EndTransaction, RInv, IInv, TypeOK
<1>3. \A u \in Txn : pending'[u] = {} => IsFiniteSet(pending'[u]) /\ Own(u)' = 0
  BY FS_EmptySet DEF Own
<1>4. \A u \in Txn : pending'[u] = pending[u] => Own(u)' = Own(u)
  BY DEF Own
<1>5. QED
  BY <1>1, <1>2, <1>3, <1>4 DEF RInv, BlockInv

\* A commit leaves every transaction's uncommitted rows numbered on from the table.
LEMMA CommitKeepsBlocks ==
  ASSUME RInv, NEW t \in Txn, NEW outcome, CommitTo(t, outcome)
  PROVE  BlockInv'
<1>1. CASE pending[t] = {}
  BY <1>1, EndKeepsBlocks DEF CommitTo
<1>2. CASE pending[t] # {}
  <2>1. \A u \in Txn : pending'[u] = {}
    BY <1>2 DEF CommitTo, EndTransaction, RInv, IInv, TypeOK, WriterInv
  <2>2. QED
    BY <2>1, FS_EmptySet DEF BlockInv, Own
<1>3. QED
  BY <1>1, <1>2

\* An insert adds its transaction's next entry, with the next number.
LEMMA InsertKeepsBlocks ==
  ASSUME RInv, NEW t \in Txn, InsertRow(t)
  PROVE  BlockInv' /\ Own(t)' = Own(t) + 1
<1> DEFINE d == draft[t]
<1>1. /\ rows' = rows
      /\ pending' = [pending EXCEPT ![t] = @ \cup {d}]
      /\ DOMAIN pending = Txn
  BY DEF InsertRow, RInv, IInv, TypeOK
<1>2. d.seq = Size + Own(t) + 1 /\ d.body = <<t, Own(t) + 1>>
  <2>1. d = NextRecord(t)
    BY InsertsNext DEF RInv
  <2>2. QED
    BY <2>1, NextNumber DEF InsertRow, Goto
<1>3. Size' = Size /\ Size \in Nat /\ Own(t) \in Nat
  BY <1>1, OwnCounts DEF Size
<1>4. IsFiniteSet(pending[t])
      /\ (\A n \in Int : n \in 1..Own(t) <=> \E r \in pending[t] : r.seq = Size + n)
      /\ (\A r \in pending[t] : r.body = <<t, r.seq - Size>>)
  BY DEF RInv, BlockInv
<1> HIDE DEF d
<1>5. pending'[t] = pending[t] \cup {d}
  BY <1>1
<1>6. d \notin pending[t]
  <2>1. Own(t) + 1 \notin 1..Own(t) /\ Own(t) + 1 \in Int
    BY <1>3
  <2>2. d.seq = Size + (Own(t) + 1)
    BY <1>2, <1>3
  <2>3. QED
    BY <1>4, <2>1, <2>2
<1>7. IsFiniteSet(pending'[t]) /\ Own(t)' = Own(t) + 1
  <2>1. IsFiniteSet(pending[t])
    BY <1>4
  <2>2. IsFiniteSet(pending[t] \cup {d})
        /\ Cardinality(pending[t] \cup {d}) = Cardinality(pending[t]) + 1
    BY <1>6, <2>1, FS_AddElement
  <2>3. QED
    BY <1>5, <2>2 DEF Own
<1>8. \A n \in Int : n \in 1..Own(t)' <=> \E r \in pending'[t] : r.seq = Size' + n
  <2>1. \A n \in Int : n \in 1..Own(t)' <=> n \in 1..Own(t) \/ n = Own(t) + 1
    BY <1>3, <1>7
  <2>2. \A n \in Int : n = Own(t) + 1 <=> d.seq = Size + n
    BY <1>2, <1>3
  <2>3. QED
    BY <1>3, <1>4, <1>5, <2>1, <2>2
<1>9. \A r \in pending'[t] : r.body = <<t, r.seq - Size'>>
  <2>1. d.seq - Size = Own(t) + 1
    BY <1>2, <1>3
  <2>2. QED
    BY <1>2, <1>3, <1>4, <1>5, <2>1
<1>10. \A u \in Txn \ {t} : pending'[u] = pending[u] /\ Own(u)' = Own(u)
  BY <1>1 DEF Own
<1>11. QED
  BY <1>3, <1>7, <1>8, <1>9, <1>10 DEF RInv, BlockInv

\* Every step keeps the uncommitted rows numbered on from the table.
LEMMA BlockStep == RInv /\ [Next]_vars => BlockInv'
<1> SUFFICES ASSUME RInv, [Next]_vars PROVE BlockInv'
  OBVIOUS
<1>1. ASSUME UNCHANGED <<rows, pending>> PROVE BlockInv'
  BY <1>1 DEF RInv, BlockInv, Size, Own
<1>2. ASSUME NEW t \in Txn,
             Begin(t) \/ CallAppend(t) \/ AcquireLock(t) \/ LockRaises(t)
               \/ ReadLatest(t) \/ AppendLine(t) \/ AppendLineFails(t)
               \/ LockInterrupted(t) \/ AppendInterrupted(t)
      PROVE  BlockInv'
  BY <1>1, <1>2 DEF Begin, CallAppend, AcquireLock, LockRaises, ReadLatest,
     AppendLine, AppendLineFails, LockInterrupted, AppendInterrupted
<1>3. ASSUME NEW t \in Txn, InsertRow(t) PROVE BlockInv'
  BY <1>3, InsertKeepsBlocks
<1>4. ASSUME NEW t \in Txn, Commit(t) \/ CommitUnacknowledged(t) PROVE BlockInv'
  BY <1>4, CommitKeepsBlocks DEF Commit, CommitUnacknowledged
<1>5. ASSUME NEW t \in Txn,
             Rollback(t) \/ StatementRaises(t) \/ LoseConnection(t) \/ Crash(t)
      PROVE  BlockInv'
  BY <1>5, EndKeepsBlocks DEF Rollback, StatementRaises, Fault, LockInterrupted,
       AppendInterrupted, LoseConnection, Crash
<1>6. CASE UNCHANGED vars
  BY <1>1, <1>6 DEF vars
<1>7. QED
  BY <1>2, <1>3, <1>4, <1>5, <1>6 DEF Next, Step, Fault, Finished

\* Only an insert adds to a transaction's own rows, and it moves on to its file.
LEMMA CountStep == RInv /\ [Next]_vars => CountInv'
<1> SUFFICES ASSUME RInv, [Next]_vars PROVE CountInv'
  OBVIOUS
<1> USE DEF RInv, IInv, TypeOK, LockInv, CountInv, Goto, Running, Ended, Appending
<1>1. ASSUME NEW t \in Txn, Begin(t) PROVE CountInv'
  <2>1. Own(t) = 0 /\ \A u \in Txn : Own(u)' = Own(u)
    BY <1>1, OwnCounts DEF Begin, Own
  <2>2. count[t] = 0
    BY <1>1 DEF Begin
  <2>3. QED
    BY <1>1, <2>1, <2>2 DEF Begin
<1>2. ASSUME NEW t \in Txn, CallAppend(t) PROVE CountInv'
  <2>1. \A u \in Txn : Own(u)' = Own(u)
    BY <1>2 DEF CallAppend, Own
  <2>2. count'[t] = count[t] + 1 /\ count[t] + 1 <= MaxAppends[t] /\ pc'[t] = "lock"
    <3>1. count[t] \in Nat /\ MaxAppends[t] \in Nat /\ count[t] < MaxAppends[t]
      BY <1>2, AppendsAssumption DEF CallAppend
    <3>2. count'[t] = count[t] + 1 /\ pc'[t] = "lock"
      BY <1>2 DEF CallAppend
    <3>3. QED
      BY <3>1, <3>2
  <2>3. link[t] = "alive" => count[t] = Own(t)
    BY <1>2 DEF CallAppend
  <2>4. \A u \in Txn \ {t} : count'[u] = count[u] /\ pc'[u] = pc[u]
    BY <1>2 DEF CallAppend
  <2>5. link' = link
    BY <1>2 DEF CallAppend
  <2>6. QED
    BY <2>1, <2>2, <2>3, <2>4, <2>5
<1>3. ASSUME NEW t \in Txn,
             AcquireLock(t) \/ LockRaises(t) \/ LockInterrupted(t) \/ ReadLatest(t)
               \/ AppendLine(t) \/ AppendLineFails(t)
      PROVE  CountInv'
  <2>1. \A u \in Txn : Own(u)' = Own(u)
    BY <1>3 DEF AcquireLock, LockRaises, LockInterrupted, ReadLatest, AppendLine,
       AppendLineFails, Own
  <2>2. QED
    BY <1>3, <2>1 DEF AcquireLock, LockRaises, LockInterrupted, ReadLatest, AppendLine,
       AppendLineFails
<1>4. ASSUME NEW t \in Txn, InsertRow(t) PROVE CountInv'
  <2>1. Own(t)' = Own(t) + 1
    BY <1>4, InsertKeepsBlocks
  <2>2. \A u \in Txn \ {t} : Own(u)' = Own(u)
    BY <1>4 DEF InsertRow, Own
  <2>3. QED
    BY <1>4, <2>1, <2>2 DEF InsertRow
<1>5. ASSUME NEW t \in Txn,
             Commit(t) \/ CommitUnacknowledged(t) \/ Rollback(t)
               \/ StatementRaises(t) \/ LoseConnection(t) \/ Crash(t)
      PROVE  CountInv'
  <2>1. \A u \in Txn \ {t} : Own(u)' = Own(u)
    BY <1>5 DEF Commit, CommitUnacknowledged, CommitTo, Rollback, StatementRaises,
       Fault, LockInterrupted, AppendInterrupted, LoseConnection, Crash, EndTransaction,
       Own
  <2>2. link'[t] # "alive" /\ pc'[t] # "idle" /\ UNCHANGED count
    BY <1>5 DEF Commit, CommitUnacknowledged, CommitTo, Rollback, StatementRaises,
       Fault, LockInterrupted, AppendInterrupted, LoseConnection, Crash, EndTransaction
  <2>3. \A u \in Txn \ {t} : link'[u] = link[u] /\ pc'[u] = pc[u]
    BY <1>5 DEF Commit, CommitUnacknowledged, CommitTo, Rollback, StatementRaises,
       Fault, LockInterrupted, AppendInterrupted, LoseConnection, Crash, EndTransaction
  <2>4. QED
    BY <2>1, <2>2, <2>3
<1>6. ASSUME NEW t \in Txn, AppendInterrupted(t) PROVE CountInv'
  <2>1. \A u \in Txn : Own(u)' = Own(u)
    BY <1>6 DEF AppendInterrupted, Own
  <2>2. /\ count'[t] = count[t] - 1 /\ pc'[t] = "open" /\ pc[t] \in Appending
        /\ \A u \in Txn \ {t} : count'[u] = count[u] /\ pc'[u] = pc[u]
        /\ link' = link
    BY <1>6 DEF AppendInterrupted
  <2>3. count[t] - 1 <= MaxAppends[t]
    BY AppendsAssumption
  <2>4. link[t] = "alive" => count'[t] = Own(t)
    BY <2>2, OwnCounts
  <2>5. QED
    BY <2>1, <2>2, <2>3, <2>4
<1>7. CASE UNCHANGED vars
  BY <1>7 DEF vars, Own
<1>8. QED
  BY <1>1, <1>2, <1>3, <1>4, <1>5, <1>6, <1>7 DEF Next, Step, Fault, Finished

\* A transaction that is over stays over, and a commit ends its own.
LEMMA OnceStep == RInv /\ [Next]_vars => OnceInv'
<1> SUFFICES ASSUME RInv, [Next]_vars PROVE OnceInv'
  OBVIOUS
<1> DEFINE Over(u) == pc[u] \in {"committed", "unacked"}
<1>1. \A u \in Txn : Over(u) => Over(u)'
  BY DEF Next, Finished, vars, Begin, Step, CallAppend, AcquireLock, LockRaises,
     ReadLatest, InsertRow, AppendLine, AppendLineFails, Commit,
     CommitUnacknowledged, CommitTo, Rollback, StatementRaises, Refused,
     Fault, LockInterrupted, AppendInterrupted, LoseConnection, Crash, EndTransaction,
     Goto, Running, RInv, IInv, TypeOK
<1>2. \A r \in rows : Writer(r) \in Txn /\ Over(Writer(r))
  BY DEF RInv, OnceInv, IInv, TypeOK, IsRecord, Body, Writer
<1>3. CASE rows' = rows
  BY <1>1, <1>2, <1>3 DEF OnceInv
<1>4. ASSUME NEW t \in Txn, Commit(t) \/ CommitUnacknowledged(t) PROVE OnceInv'
  <2>1. rows' = rows \cup pending[t] /\ Over(t)'
    BY <1>4 DEF Commit, CommitUnacknowledged, CommitTo, Goto, RInv, IInv, TypeOK
  <2>2. \A r \in pending[t] : Writer(r) = t
    BY DEF RInv, BlockInv, Writer
  <2>3. QED
    BY <1>1, <1>2, <2>1, <2>2 DEF OnceInv
<1>5. QED
  BY <1>3, <1>4, OnlyCommitsWrite

\* What the refinement needs holds of the empty table.
LEMMA InitRInv == Init => RInv
<1> SUFFICES ASSUME Init PROVE RInv
  OBVIOUS
<1>1. IInv
  BY InitInv
<1>2. rows = {} /\ Size = 0 /\ IsFiniteSet({})
  BY FS_EmptySet DEF Init, Size
<1>3. \A t \in Txn : pending[t] = {} /\ Own(t) = 0
  BY FS_EmptySet DEF Init, Own
<1>4. TableInv
  BY <1>2 DEF TableInv
<1>5. BlockInv
  <2> SUFFICES ASSUME NEW t \in Txn
               PROVE  /\ IsFiniteSet(pending[t])
                      /\ \A n \in Int : n \in 1..Own(t) <=> \E r \in pending[t] : r.seq = Size + n
                      /\ \A r \in pending[t] : r.body = <<t, r.seq - Size>>
    BY Zenon DEF BlockInv
  <2>1. pending[t] = {} /\ Own(t) = 0
    BY ONLY <1>3, t \in Txn, Zenon
  <2>2. \A n \in Int : n \notin 1..0
    OBVIOUS
  <2>3. QED
    BY ONLY <1>2, <2>1, <2>2, Zenon
<1>6. CountInv
  BY AppendsAssumption DEF Init, CountInv
<1>7. OnceInv
  BY <1>2 DEF OnceInv
<1>8. QED
  BY <1>1, <1>4, <1>5, <1>6, <1>7 DEF RInv

\* Every step keeps what the refinement needs.
LEMMA RInvStep == RInv /\ [Next]_vars => RInv'
<1>1. RInv /\ [Next]_vars => IInv'
  BY TypeStep, LockStep, WriterStep, ChainStep, DraftStep DEF RInv, IInv
<1>2. QED
  BY <1>1, TableStep, BlockStep, CountStep, OnceStep DEF RInv

\* What the refinement needs holds in every reachable state.
LEMMA RInvariance == Spec => []RInv
BY InitRInv, RInvStep, PTL DEF Spec

-----------------------------------------------------------------------------
(* The refinement.                                                         *)

\* The table in order: row i has number i, and the bodies are a sequence.
RowsInOrder == \A i \in 1..Size : ChainRows[i] \in rows /\ ChainRows[i].seq = i
BodiesInOrder ==
  /\ ChainBodies \in Seq(Body) /\ Len(ChainBodies) = Size
  /\ \A i \in 1..Size : ChainBodies[i] = ChainRows[i].body

\* The n-th row of the chain is the committed row with number n.
LEMMA ChainRow == RInv => RowsInOrder
<1> SUFFICES ASSUME RInv, NEW i \in 1..Size
             PROVE  ChainRows[i] \in rows /\ ChainRows[i].seq = i
  BY DEF RowsInOrder
<1>1. \E r \in rows : r.seq = i
  BY OwnCounts DEF RInv, TableInv
<1>2. ChainRows[i] = CHOOSE r \in rows : r.seq = i
  BY DEF ChainRows, Size
<1>3. QED
  BY <1>1, <1>2

\* The chain's bodies are a sequence, as long as the table has rows.
LEMMA ChainIsSeq == RInv => BodiesInOrder
<1> SUFFICES ASSUME RInv PROVE BodiesInOrder
  OBVIOUS
<1>1. Size \in Nat
  BY FS_CardinalityType DEF RInv, TableInv, Size
<1>2. DOMAIN ChainRows = 1..Size
  BY DEF ChainRows, Size
<1>3. ChainBodies = [i \in 1..Size |-> ChainRows[i].body]
  BY <1>2 DEF ChainBodies
<1>4. \A i \in 1..Size : ChainRows[i].body \in Body
  BY ChainRow DEF RowsInOrder, RInv, IInv, TypeOK, IsRecord
<1>5. ChainBodies \in [1..Size -> Body]
  BY <1>3, <1>4
<1>6. QED
  BY <1>1, <1>3, <1>5 DEF BodiesInOrder

\* The same of the state a step leads to.
LEMMA NextInOrder == RInv' => RowsInOrder' /\ BodiesInOrder'
BY ChainRow, ChainIsSeq, PTL

\* Writing no row changes nothing of the chain.
LEMMA Stutters == rows' = rows => ChainBodies' = ChainBodies
BY DEF ChainBodies, ChainRows

\* A commit of uncommitted rows is one step of the abstract ledger.
LEMMA CommitAppendsBlock ==
  ASSUME RInv, RInv', NEW t \in Txn, NEW outcome, CommitTo(t, outcome), pending[t] # {}
  PROVE  Abstract!AppendBlock(t)
<1> DEFINE n == Own(t)
           block == Abstract!Block(t, n)
<1>1. rows' = rows \cup pending[t] /\ link[t] = "alive" /\ pc[t] = "open"
  BY DEF CommitTo, Goto
<1>2. Size' = Size + n /\ Size \in Nat /\ n \in Nat /\ n # 0
  BY <1>1, CommitSize, OwnCounts
<1>3. n \in 1..MaxAppends[t]
  <2>1. count[t] = n /\ count[t] <= MaxAppends[t] /\ MaxAppends[t] \in Nat
    BY <1>1, AppendsAssumption DEF RInv, CountInv, Appending
  <2>2. QED
    BY <1>2, <2>1
<1>4. \A i \in DOMAIN ChainBodies : ChainBodies[i][1] # t
  <2>1. \A i \in 1..Size : ChainRows[i] \in rows
    BY ChainRow DEF RowsInOrder
  <2>2. \A r \in rows : r.body[1] # t
    BY <1>1 DEF RInv, OnceInv, Writer
  <2>3. QED
    BY <1>2, <2>1, <2>2, ChainIsSeq, LenProperties DEF BodiesInOrder
<1>views. RowsInOrder /\ RowsInOrder' /\ BodiesInOrder /\ BodiesInOrder'
  BY ChainRow, ChainIsSeq, NextInOrder
<1>5. \A i \in 1..Size : ChainRows'[i] = ChainRows[i]
  <2>1. TAKE i \in 1..Size
  <2>2. i \in 1..Size'
    BY <1>2
  <2>3. ChainRows[i] \in rows /\ ChainRows[i].seq = i
    BY ChainRow DEF RowsInOrder
  <2>4. ChainRows'[i] \in rows' /\ ChainRows'[i].seq = i
    BY <2>2, <1>views DEF RowsInOrder
  <2>5. \A r, s \in rows' : r.seq = s.seq => r = s
    BY DEF RInv, IInv, ChainInv, Good, ValidChain
  <2>6. QED
    BY <1>1, <2>3, <2>4, <2>5
<1>6. \A k \in 1..n : ChainRows'[Size + k].body = <<t, k>>
  <2>1. TAKE k \in 1..n
  <2>2. Size + k \in 1..Size' /\ Size + k > Size
    BY <1>2
  <2>3. ChainRows'[Size + k] \in rows' /\ ChainRows'[Size + k].seq = Size + k
    BY <2>2, <1>views DEF RowsInOrder
  <2>4. \A r \in rows : r.seq # Size + k
    BY <1>2, <2>2 DEF RInv, TableInv
  <2>5. ChainRows'[Size + k] \in pending[t]
    BY <1>1, <2>3, <2>4
  <2>6. ChainRows'[Size + k].body = <<t, (Size + k) - Size>>
    BY <2>3, <2>5 DEF RInv, BlockInv
  <2>7. (Size + k) - Size = k
    BY <1>2
  <2>8. QED
    BY <2>6, <2>7
<1>7. block \in Seq(Body) /\ Len(block) = n /\ \A k \in 1..n : block[k] = <<t, k>>
  <2>1. block = [k \in 1..n |-> <<t, k>>]
    BY DEF Abstract!Block
  <2>2. block \in [1..n -> Body]
    BY <2>1, <1>2 DEF Body
  <2>3. QED
    BY <1>2, <2>1, <2>2
<1> HIDE DEF n, block
<1>8. ChainBodies \in Seq(Body) /\ Len(ChainBodies) = Size
      /\ \A i \in 1..Size : ChainBodies[i] = ChainRows[i].body
  BY <1>views DEF BodiesInOrder
<1>9. ChainBodies' \in Seq(Body) /\ Len(ChainBodies') = Size'
      /\ \A i \in 1..Size' : ChainBodies'[i] = ChainRows'[i].body
  BY <1>views DEF BodiesInOrder
<1>10. /\ ChainBodies \o block \in Seq(Body)
       /\ Len(ChainBodies \o block) = Size + n
       /\ \A i \in 1..(Size + n) :
            (ChainBodies \o block)[i] = IF i <= Size THEN ChainBodies[i] ELSE block[i - Size]
  BY <1>7, <1>8, ConcatProperties
<1>11. \A i \in 1..(Size + n) : ChainBodies'[i] = (ChainBodies \o block)[i]
  <2>1. TAKE i \in 1..(Size + n)
  <2>2. CASE i <= Size
    BY <1>2, <1>5, <1>8, <1>9, <1>10, <2>2
  <2>3. CASE ~(i <= Size)
    <3>1. i - Size \in 1..n /\ Size + (i - Size) = i
      BY <1>2, <2>3
    <3>2. ChainBodies'[i] = <<t, i - Size>>
      BY <1>2, <1>6, <1>9, <3>1
    <3>3. (ChainBodies \o block)[i] = block[i - Size]
      BY <1>10, <2>3
    <3>4. QED
      BY <1>7, <3>1, <3>2, <3>3
  <2>4. QED
    BY <2>2, <2>3
<1>12. ChainBodies' = ChainBodies \o block
  <2>1. Len(ChainBodies') = Len(ChainBodies \o block)
    BY ONLY <1>2, <1>9, <1>10, Zenon
  <2>2. \A i \in 1..Len(ChainBodies') : ChainBodies'[i] = (ChainBodies \o block)[i]
    BY ONLY <1>2, <1>9, <1>11, Zenon
  <2>3. ASSUME NEW p \in Seq(Body), NEW q \in Seq(Body), Len(p) = Len(q),
               \A i \in 1..Len(p) : p[i] = q[i]
        PROVE  p = q
    BY ONLY <2>3, p \in Seq(Body), q \in Seq(Body), SeqEqual
  <2>4. QED
    BY ONLY <1>9, <1>10, <2>1, <2>2, <2>3, Zenon
<1>13. QED
  BY <1>3, <1>4, <1>12 DEF Abstract!AppendBlock, n, block

\* The ledger of audit_service.py implements the ledger its users are
\* promised: whatever fails and however writers interleave, the chain grows by
\* whole transactions only, each at most once, its entries in their order.
THEOREM LedgerImplemented == Spec => ImplementsLedger
<1>1. Init => Abstract!Init
  <2> SUFFICES ASSUME Init PROVE ChainBodies = <<>>
    BY DEF Abstract!Init
  <2>1. Size = 0
    BY FS_EmptySet DEF Init, Size
  <2>2. RInv
    BY InitRInv
  <2>3. ChainBodies \in Seq(Body) /\ Len(ChainBodies) = 0
    BY <2>1, <2>2, ChainIsSeq DEF BodiesInOrder
  <2>4. QED
    BY <2>3, EmptySeq
<1>2. RInv /\ RInv' /\ [Next]_vars => [Abstract!Next]_ChainBodies
  <2> SUFFICES ASSUME RInv, RInv', [Next]_vars PROVE [Abstract!Next]_ChainBodies
    OBVIOUS
  <2>1. CASE rows' = rows
    BY <2>1, Stutters
  <2>2. ASSUME NEW t \in Txn, NEW outcome, CommitTo(t, outcome)
        PROVE  [Abstract!Next]_ChainBodies
    <3>1. CASE pending[t] = {}
      BY <2>2, <3>1, Stutters DEF CommitTo
    <3>2. CASE pending[t] # {}
      BY <2>2, <3>2, CommitAppendsBlock DEF Abstract!Next
    <3>3. QED
      BY <3>1, <3>2
  <2>3. QED
    BY <2>1, <2>2, OnlyCommitsWrite DEF Commit, CommitUnacknowledged
<1>3. QED
  BY <1>1, <1>2, RInvariance, PTL DEF Spec, ImplementsLedger, Abstract!Spec

-----------------------------------------------------------------------------
(* The files.                                                              *)

\* A live row belongs to a transaction that is over, if it is committed, or
\* to the transaction that may still commit it.
LEMMA LiveRows ==
  ASSUME RInv
  PROVE  /\ \A r \in rows : Writer(r) \in Txn /\ pc[Writer(r)] \in {"committed", "unacked"}
         /\ \A t \in Txn : \A r \in pending[t] : Writer(r) = t /\ link[t] = "alive"
         /\ \A r \in Live : IsRecord(r) /\ Writer(r) \in Txn /\ r.body[2] \in Nat
BY DEF RInv, IInv, TypeOK, LockInv, BlockInv, OnceInv, IsRecord, Body, Writer, Live

\* A record left behind stays one: no append takes an earlier number.
LEMMA PastStays ==
  ASSUME pc \in [Txn -> {"idle"} \cup Running \cup Ended], count \in [Txn -> Nat],
         [Next]_vars, NEW r, IsRecord(r), Past(r)
  PROVE  Past(r)'
<1>1. Writer(r) \in Txn /\ r.body[2] \in Nat
  BY DEF IsRecord, Body, Writer
<1>2. count[Writer(r)] \in Nat
  BY <1>1
<1> DEFINE w == Writer(r)
<1>3. ASSUME NEW t \in Txn, CallAppend(t) PROVE Past(r)'
  <2>1. count'[w] = count[w] + 1 \/ (count'[w] = count[w] /\ pc'[w] = pc[w])
    BY <1>1, <1>3 DEF CallAppend, Goto
  <2>2. QED
    BY <1>1, <1>2, <2>1 DEF Past
<1>4. ASSUME UNCHANGED count[w], pc'[w] \in Appending \cup {"file"} =>
                                   pc[w] \in Appending \cup {"file"}
      PROVE  Past(r)'
  BY <1>4 DEF Past
<1>5. ASSUME NEW t \in Txn,
             Begin(t) \/ AcquireLock(t) \/ LockRaises(t) \/ LockInterrupted(t)
               \/ ReadLatest(t) \/ InsertRow(t)
               \/ AppendLine(t) \/ AppendLineFails(t) \/ Commit(t)
               \/ CommitUnacknowledged(t) \/ Rollback(t) \/ StatementRaises(t)
               \/ LoseConnection(t) \/ Crash(t)
      PROVE  Past(r)'
  <2>1. count' = count
    BY <1>5 DEF Begin, AcquireLock, LockRaises, ReadLatest, InsertRow, AppendLine,
       AppendLineFails, Commit, CommitUnacknowledged, CommitTo, Rollback,
       StatementRaises, Fault, LockInterrupted, AppendInterrupted, LoseConnection, Crash
  <2>2. pc'[w] \in Appending \cup {"file"} => pc[w] \in Appending \cup {"file"}
    BY <1>1, <1>5 DEF Begin, AcquireLock, LockRaises, ReadLatest, InsertRow,
       AppendLine, AppendLineFails, Commit, CommitUnacknowledged, CommitTo, Rollback,
       StatementRaises, Fault, LockInterrupted, AppendInterrupted, LoseConnection,
       Crash, Goto, Appending
  <2>3. QED
    BY <1>4, <2>1, <2>2
<1>6. ASSUME NEW t \in Txn, AppendInterrupted(t) PROVE Past(r)'
  <2>1. \/ count'[w] = count[w] - 1 /\ pc[w] \in Appending /\ pc'[w] = "open"
        \/ count'[w] = count[w] /\ pc'[w] = pc[w]
    BY <1>1, <1>6 DEF AppendInterrupted, Appending
  <2>2. QED
    BY <1>1, <1>2, <2>1 DEF Past, Appending
<1>7. CASE UNCHANGED vars
  BY <1>4, <1>7 DEF vars
<1>8. QED
  BY <1>3, <1>5, <1>6, <1>7 DEF Next, Step, Fault, Finished

\* What t is about to insert, or to write to its file, was left nowhere yet.
LEMMA DraftIsNew ==
  ASSUME FInv, NEW t \in Txn, pc[t] \in {"insert", "file"}
  PROVE  /\ Writer(draft[t]) = t /\ IsRecord(draft[t])
         /\ draft[t] \notin unfiled
         /\ \A h \in Host : draft[t] \notin Lines(file[h])
<1>1. draft[t].body = <<t, count[t]>> /\ IsRecord(draft[t]) /\ count[t] \in Nat
  BY DEF FInv, DraftedInv, BodyOf, RInv, IInv, TypeOK
<1>2. ~Past(draft[t])
  BY <1>1 DEF Past, Writer, Appending
<1>3. QED
  BY <1>1, <1>2 DEF FInv, PastInv, Writer

\* While t's live draft goes to the file, t's view is all that is live.
LEMMA DraftIsLast ==
  ASSUME FInv, NEW t \in Txn, pc[t] = "file", draft[t] \in Live
  PROVE  draft[t] \in Visible(t) /\ \A s \in Live : s \in Visible(t) /\ s.seq <= draft[t].seq
<1>1. Writer(draft[t]) = t
  BY DraftIsNew
<1>2. draft[t] \in pending[t] /\ link[t] = "alive"
  BY <1>1, LiveRows DEF FInv, Live
<1>3. \A s \in Live : s \in Visible(t)
  BY <1>2 DEF FInv, RInv, IInv, WriterInv, Live, Visible
<1>4. QED
  BY <1>2, <1>3 DEF FInv, DraftedInv, Visible

\* Every step keeps drafts numbered by their append, and the filed draft the last row seen.
LEMMA DraftedStep == FInv /\ [Next]_vars => DraftedInv'
<1> SUFFICES ASSUME FInv, [Next]_vars, NEW u \in Txn
             PROVE  /\ pc'[u] \in {"insert", "file"} => draft'[u].body = BodyOf(u)'
                    /\ pc'[u] = "file" /\ link'[u] = "alive" =>
                         draft'[u] \in pending'[u]
                         /\ \A s \in Visible(u)' : s.seq <= draft'[u].seq
  BY DEF DraftedInv
<1> USE DEF FInv, RInv, IInv, TypeOK, DraftedInv, Goto
<1>1. CASE ReadLatest(u)
  BY <1>1 DEF ReadLatest, NextRecord, Successor, Record, BodyOf
<1>2. CASE InsertRow(u)
  <2>1. draft[u] = NextRecord(u) /\ draft' = draft /\ count' = count /\ rows' = rows
        /\ pending'[u] = pending[u] \cup {draft[u]}
    BY <1>2, InsertsNext DEF InsertRow
  <2>2. draft[u].seq \in Nat /\ \A r \in Visible(u) : r.seq \in Nat /\ r.seq < draft[u].seq
    BY <2>1, NextIsRecord DEF ChainInv, Good, IsRecord
  <2>3. Visible(u)' = Visible(u) \cup {draft[u]}
    BY <2>1 DEF Visible
  <2>4. draft[u].body = BodyOf(u)
    BY <1>2 DEF InsertRow
  <2>5. QED
    BY <2>1, <2>2, <2>3, <2>4 DEF BodyOf
<1>3. CASE Begin(u) \/ CallAppend(u) \/ AcquireLock(u) \/ LockRaises(u)
             \/ LockInterrupted(u) \/ AppendInterrupted(u) \/ AppendLine(u)
             \/ AppendLineFails(u) \/ Commit(u) \/ CommitUnacknowledged(u) \/ Rollback(u)
             \/ StatementRaises(u) \/ Crash(u)
  BY <1>3 DEF Begin, CallAppend, AcquireLock, LockRaises, LockInterrupted,
     AppendInterrupted, AppendLine, AppendLineFails, Commit, CommitUnacknowledged,
     CommitTo, Rollback, StatementRaises, Crash
<1>4. CASE LoseConnection(u)
  BY <1>4 DEF LoseConnection, EndTransaction, BodyOf
<1>5. ASSUME UNCHANGED <<draft[u], count[u], pc[u], link[u], pending[u]>>,
             pc[u] = "file" /\ link[u] = "alive" => rows' = rows
      PROVE  /\ pc'[u] \in {"insert", "file"} => draft'[u].body = BodyOf(u)'
             /\ pc'[u] = "file" /\ link'[u] = "alive" =>
                  draft'[u] \in pending'[u]
                  /\ \A s \in Visible(u)' : s.seq <= draft'[u].seq
  BY <1>5 DEF BodyOf, Visible
<1>6. ASSUME NEW t \in Txn, t # u, Begin(t) \/ Step(t) \/ Fault(t)
      PROVE  /\ UNCHANGED <<draft[u], count[u], pc[u], link[u], pending[u]>>
             /\ pc[u] = "file" /\ link[u] = "alive" => rows' = rows
  <2>1. UNCHANGED <<draft[u], count[u], pc[u], link[u], pending[u]>>
    BY <1>6 DEF Begin, Step, CallAppend, AcquireLock, LockRaises, ReadLatest, InsertRow,
       AppendLine, AppendLineFails, Commit, CommitUnacknowledged, CommitTo, Rollback,
       StatementRaises, Fault, LockInterrupted, AppendInterrupted, LoseConnection,
       Crash, EndTransaction
  <2>2. pc[u] = "file" /\ link[u] = "alive" => pending[t] = {}
    BY <1>6 DEF WriterInv
  <2>3. rows' \in {rows, rows \cup pending[t]}
    BY <1>6 DEF Begin, Step, CallAppend, AcquireLock, LockRaises, ReadLatest, InsertRow,
       AppendLine, AppendLineFails, Commit, CommitUnacknowledged, CommitTo, Rollback,
       StatementRaises, Fault, LockInterrupted, AppendInterrupted, LoseConnection, Crash
  <2>4. QED
    BY <2>1, <2>2, <2>3
<1>7. CASE UNCHANGED vars
  BY <1>5, <1>7 DEF vars
<1>8. QED
  BY <1>1, <1>2, <1>3, <1>4, <1>5, <1>6, <1>7 DEF Next, Step, Fault, Finished

\* The lines of t's host after AppendLine.
LEMMA LineAppended ==
  ASSUME RInv, NEW t \in Txn, AppendLine(t)
  PROVE  LET h == HostOf[t]
             n == Len(file[h])
         IN  /\ n \in Nat /\ DOMAIN file[h] = 1..n /\ DOMAIN file'[h] = 1..(n + 1)
             /\ \A i \in 1..n : file'[h][i] = file[h][i]
             /\ file'[h][n + 1] = draft[t]
             /\ Lines(file'[h]) = Lines(file[h]) \cup {draft[t]}
             /\ \A g \in Host \ {h} : file'[g] = file[g]
<1> DEFINE h == HostOf[t]
           s == file[h]
           S == Lines(s) \cup {draft[t]}
<1>1. h \in Host /\ s \in Seq(Lines(s))
  BY HostAssumption DEF RInv, IInv, TypeOK
<1>2. file'[h] = Append(s, draft[t]) /\ \A g \in Host \ {h} : file'[g] = file[g]
  BY <1>1 DEF AppendLine, RInv, IInv, TypeOK
<1>3. s \in Seq(S)
  BY <1>1, SeqMonotonic, Lines(s) \subseteq S
<1>4. /\ Append(s, draft[t]) \in Seq(S)
      /\ Len(Append(s, draft[t])) = Len(s) + 1
      /\ \A i \in 1..Len(s) : Append(s, draft[t])[i] = s[i]
      /\ Append(s, draft[t])[Len(s) + 1] = draft[t]
  BY <1>3, AppendProperties
<1>5. Len(s) \in Nat /\ DOMAIN s = 1..Len(s)
      /\ DOMAIN Append(s, draft[t]) = 1..(Len(s) + 1)
  BY <1>3, <1>4, LenProperties
<1>6. Lines(Append(s, draft[t])) = S
  BY <1>1, AppendLines
<1>7. QED
  BY <1>2, <1>4, <1>5, <1>6

\* Every step leaves only earlier appends' records in files and among unwritten lines.
LEMMA PastStep == FInv /\ [Next]_vars => PastInv'
<1> SUFFICES ASSUME FInv, [Next]_vars PROVE PastInv'
  OBVIOUS
<1>1. \A h \in Host : \A r \in Lines(file[h]) : HostOf[Writer(r)] = h /\ Past(r)'
  BY PastStays DEF FInv, PastInv, RInv, IInv, TypeOK
<1>2. \A r \in unfiled : Past(r)'
  BY PastStays DEF FInv, PastInv, RInv, IInv, TypeOK
<1>3. ASSUME NEW t \in Txn, AppendLine(t) \/ AppendLineFails(t)
      PROVE  \A r : r = draft[t] => HostOf[Writer(r)] = HostOf[t] /\ Past(r)'
  <2>1. draft[t].body = <<t, count[t]>> /\ count[t] \in Nat
    BY <1>3 DEF AppendLine, AppendLineFails, Goto, FInv, DraftedInv, BodyOf, RInv, IInv, TypeOK
  <2>2. count' = count /\ pc'[t] = "open"
    BY <1>3 DEF AppendLine, AppendLineFails, Goto, FInv, RInv, IInv, TypeOK
  <2>3. QED
    BY <2>1, <2>2 DEF Past, Writer, Appending
<1>4. ASSUME NEW t \in Txn, AppendLine(t) PROVE PastInv'
  <2>1. Lines(file'[HostOf[t]]) = Lines(file[HostOf[t]]) \cup {draft[t]}
        /\ \A g \in Host \ {HostOf[t]} : file'[g] = file[g]
    BY <1>4, LineAppended DEF FInv
  <2>2. unfiled' = unfiled
    BY <1>4 DEF AppendLine
  <2>3. QED
    BY <1>1, <1>2, <1>3, <1>4, <2>1, <2>2 DEF PastInv
<1>5. ASSUME NEW t \in Txn, AppendLineFails(t) PROVE PastInv'
  BY <1>1, <1>2, <1>3, <1>5 DEF AppendLineFails, PastInv
<1>6. CASE UNCHANGED <<file, unfiled>>
  BY <1>1, <1>2, <1>6 DEF PastInv
<1>7. QED
  BY <1>4, <1>5, <1>6 DEF Next, Finished, vars, Begin, Step, CallAppend, AcquireLock,
     LockRaises, ReadLatest, InsertRow, Commit, CommitUnacknowledged, CommitTo,
     Rollback, StatementRaises, Fault, LockInterrupted, AppendInterrupted,
     LoseConnection, Crash

\* Only an insert brings a row to life, and its file line is still to come.
LEMMA LiveStep ==
  ASSUME DOMAIN pending = Txn, [Next]_vars
  PROVE  Live' \subseteq Live
         \/ \E t \in Txn : InsertRow(t) /\ Live' \subseteq Live \cup {draft[t]}
<1>1. ASSUME UNCHANGED <<rows, pending>> PROVE Live' \subseteq Live
  BY <1>1 DEF Live
<1>2. ASSUME NEW t \in Txn, NEW fate, EndTransaction(t, fate), rows' = rows
      PROVE  Live' \subseteq Live
  <2>1. \A u \in Txn : pending'[u] \subseteq pending[u]
    BY <1>2 DEF EndTransaction
  <2>2. QED
    BY <1>2, <2>1 DEF Live
<1>3. ASSUME NEW t \in Txn, NEW outcome, CommitTo(t, outcome) PROVE Live' \subseteq Live
  <2>1. \A u \in Txn : pending'[u] \subseteq pending[u]
    BY <1>3 DEF CommitTo, EndTransaction
  <2>2. rows' = rows \cup pending[t]
    BY <1>3 DEF CommitTo
  <2>3. QED
    BY <2>1, <2>2 DEF Live
<1>4. ASSUME NEW t \in Txn, InsertRow(t) PROVE Live' \subseteq Live \cup {draft[t]}
  <2>1. \A u \in Txn : pending'[u] \subseteq pending[u] \cup {draft[t]}
    BY <1>4 DEF InsertRow
  <2>2. rows' = rows
    BY <1>4 DEF InsertRow
  <2>3. QED
    BY <2>1, <2>2 DEF Live
<1>5. QED
  BY <1>1, <1>2, <1>3, <1>4 DEF Next, Finished, vars, Begin, Step, CallAppend,
     AcquireLock, LockRaises, ReadLatest, AppendLine, AppendLineFails, Commit,
     CommitUnacknowledged, Rollback, StatementRaises, Fault, LockInterrupted,
     AppendInterrupted, LoseConnection, Crash

\* Every step keeps live records in a file in the order of their numbers.
LEMMA OrderStep == FInv /\ [Next]_vars => OrderInv'
<1> SUFFICES ASSUME FInv, [Next]_vars PROVE OrderInv'
  OBVIOUS
<1>1. \A h \in Host : \A i \in DOMAIN file[h] : file[h][i] \in Live' => file[h][i] \in Live
  <2>1. \A h \in Host : \A i \in DOMAIN file[h] : file[h][i] \in Lines(file[h])
    BY DEF Lines
  <2>2. ASSUME NEW t \in Txn, InsertRow(t)
        PROVE  \A h \in Host : draft[t] \notin Lines(file[h])
    BY <2>2, DraftIsNew DEF InsertRow, Goto
  <2>3. QED
    BY <2>1, <2>2, LiveStep DEF FInv, RInv, IInv, TypeOK
<1>2. CASE file' = file
  BY <1>1, <1>2 DEF FInv, OrderInv
<1>3. ASSUME NEW t \in Txn, AppendLine(t) PROVE OrderInv'
  <2> DEFINE h == HostOf[t]
             n == Len(file[h])
             d == draft[t]
  <2>1. /\ n \in Nat /\ DOMAIN file[h] = 1..n /\ DOMAIN file'[h] = 1..(n + 1)
        /\ \A i \in 1..n : file'[h][i] = file[h][i]
        /\ file'[h][n + 1] = d
        /\ \A g \in Host \ {h} : file'[g] = file[g]
    BY <1>3, LineAppended DEF FInv
  <2>2. h \in Host /\ Live' = Live
    BY <1>3, HostAssumption DEF AppendLine, Live
  <2>3. \A i \in 1..n : file[h][i] \in Live /\ d \in Live => file[h][i].seq < d.seq
    <3> SUFFICES ASSUME NEW i \in 1..n, file[h][i] \in Live, d \in Live
                 PROVE  file[h][i].seq < d.seq
      OBVIOUS
    <3>1. d \in Visible(t) /\ file[h][i] \in Visible(t) /\ file[h][i].seq <= d.seq
      BY <1>3, DraftIsLast DEF AppendLine, Goto
    <3>2. file[h][i] # d
      <4>1. file[h][i] \in Lines(file[h])
        BY <2>1 DEF Lines
      <4>2. QED
        BY <1>3, <2>2, <4>1, DraftIsNew DEF AppendLine, Goto
    <3>3. d.seq # file[h][i].seq /\ d.seq \in Nat /\ file[h][i].seq \in Nat
      BY <3>1, <3>2 DEF FInv, RInv, IInv, ChainInv, Good, ValidChain, IsRecord
    <3>4. QED
      BY <3>1, <3>3
  <2>4. \A i, j \in 1..(n + 1) :
          file'[h][i] \in Live /\ file'[h][j] \in Live /\ i < j
            => file'[h][i].seq < file'[h][j].seq
    <3>1. \A i, j \in 1..(n + 1) : i < j => i \in 1..n /\ (j \in 1..n \/ j = n + 1)
      BY <2>1
    <3>2. QED
      BY <2>1, <2>2, <2>3, <3>1 DEF FInv, OrderInv
  <2>5. QED
    BY <2>1, <2>2, <2>4 DEF FInv, OrderInv
<1>4. QED
  BY <1>2, <1>3 DEF Next, Finished, vars, Begin, Step, CallAppend, AcquireLock,
     LockRaises, ReadLatest, InsertRow, AppendLineFails, Commit, CommitUnacknowledged,
     CommitTo, Rollback, StatementRaises, Fault, LockInterrupted, AppendInterrupted,
     LoseConnection, Crash

\* A record that is live after a step and was being filed, is still or is filed.
LEMMA BeingFiledStays ==
  ASSUME FInv, [Next]_vars, NEW r \in Live', r \in Live, BeingFiled(r), ~BeingFiled(r)'
  PROVE  LET t == Writer(r) IN r = draft[t] /\ (AppendLine(t) \/ AppendLineFails(t))
<1> DEFINE w == Writer(r)
<1>1. w \in Txn /\ pc[w] = "file" /\ r = draft[w] /\ r \notin rows
  BY LiveRows DEF FInv, BeingFiled
<1>2. pc'[w] # "file" \/ draft'[w] # draft[w]
  BY <1>1 DEF BeingFiled
<1>3. AppendLine(w) \/ AppendLineFails(w) \/ Crash(w)
  BY <1>1, <1>2 DEF Next, Finished, vars, Begin, Step, CallAppend, AcquireLock, LockRaises,
     ReadLatest, InsertRow, AppendLine, AppendLineFails, Commit, CommitUnacknowledged,
     CommitTo, Rollback, StatementRaises, Refused, Fault, LockInterrupted,
     AppendInterrupted, LoseConnection, Crash, Goto, FInv, RInv,
     IInv, TypeOK
<1>4. ~Crash(w)
  <2> SUFFICES ASSUME Crash(w) PROVE FALSE
    OBVIOUS
  <2>1. rows' = rows /\ pending'[w] = {} /\ \A u \in Txn \ {w} : pending'[u] = pending[u]
    BY <1>1 DEF Crash, EndTransaction, FInv, RInv, IInv, TypeOK
  <2>2. \A u \in Txn \ {w} : r \notin pending[u]
    BY LiveRows DEF FInv
  <2>3. QED
    BY <1>1, <2>1, <2>2 DEF Live
<1>5. QED
  BY <1>1, <1>3, <1>4

\* Every step keeps each live record in its host's file, or noted as not written there.
LEMMA FiledStep == FInv /\ [Next]_vars => FiledInv'
<1> SUFFICES ASSUME FInv, [Next]_vars,
                    NEW r \in Live', ~BeingFiled(r)'
             PROVE  r \in unfiled' <=> r \notin Lines(file'[HostOf[Writer(r)]])
  BY DEF FiledInv
<1> DEFINE w == Writer(r)
           h == HostOf[w]
<1>1. r \in Live
  <2>1. ASSUME NEW t \in Txn, InsertRow(t), r = draft[t] PROVE FALSE
    <3>1. pc'[t] = "file" /\ draft' = draft
      BY <2>1 DEF InsertRow, Goto, FInv, RInv, IInv, TypeOK
    <3>2. Writer(draft[t]) = t
      BY <2>1, DraftIsNew DEF InsertRow, Goto
    <3>3. QED
      BY <2>1, <3>1, <3>2 DEF BeingFiled
  <2>2. QED
    BY <2>1, LiveStep DEF FInv, RInv, IInv, TypeOK
<1>2. w \in Txn /\ h \in Host
  BY <1>1, LiveRows, HostAssumption DEF FInv
<1>3. ASSUME NEW t \in Txn, AppendLine(t)
      PROVE  r \in unfiled' <=> r \notin Lines(file'[h])
  <2>1. Lines(file'[HostOf[t]]) = Lines(file[HostOf[t]]) \cup {draft[t]}
        /\ (\A g \in Host \ {HostOf[t]} : file'[g] = file[g]) /\ unfiled' = unfiled
    BY <1>3, LineAppended DEF FInv, AppendLine
  <2>2. Writer(draft[t]) = t /\ draft[t] \notin unfiled
    BY <1>3, DraftIsNew DEF AppendLine, Goto
  <2>3. CASE r = draft[t]
    BY <2>1, <2>2, <2>3
  <2>4. CASE r # draft[t]
    <3>1. ~BeingFiled(r)
      <4> SUFFICES ASSUME BeingFiled(r) PROVE FALSE
        OBVIOUS
      <4>1. r = draft[w] /\ (AppendLine(w) \/ AppendLineFails(w))
        BY <1>1, BeingFiledStays
      <4>2. w # t
        BY <4>1, <2>4
      <4>3. QED
        BY <1>2, <1>3, <4>1, <4>2 DEF AppendLine, AppendLineFails, Goto, FInv, RInv, IInv, TypeOK
    <3>2. r \in unfiled <=> r \notin Lines(file[h])
      BY <1>1, <3>1 DEF FInv, FiledInv
    <3>3. QED
      BY <1>2, <2>1, <2>4, <3>2
  <2>5. QED
    BY <2>3, <2>4
<1>4. ASSUME NEW t \in Txn, AppendLineFails(t)
      PROVE  r \in unfiled' <=> r \notin Lines(file'[h])
  <2>1. file' = file /\ unfiled' = unfiled \cup {draft[t]}
    BY <1>4 DEF AppendLineFails
  <2>2. CASE r = draft[t]
    <3>1. r \notin Lines(file[h])
      BY <1>2, <1>4, <2>2, DraftIsNew DEF AppendLineFails, Goto
    <3>2. QED
      BY <2>1, <2>2, <3>1
  <2>3. CASE r # draft[t]
    <3>1. ~BeingFiled(r)
      <4> SUFFICES ASSUME BeingFiled(r) PROVE FALSE
        OBVIOUS
      <4>1. r = draft[w] /\ (AppendLine(w) \/ AppendLineFails(w))
        BY <1>1, BeingFiledStays
      <4>2. w # t
        BY <4>1, <2>3
      <4>3. QED
        BY <1>2, <1>4, <4>1, <4>2 DEF AppendLine, AppendLineFails, Goto, FInv, RInv, IInv, TypeOK
    <3>2. r \in unfiled <=> r \notin Lines(file[h])
      BY <1>1, <3>1 DEF FInv, FiledInv
    <3>3. QED
      BY <2>1, <2>3, <3>2
  <2>4. QED
    BY <2>2, <2>3
<1>5. ASSUME UNCHANGED <<file, unfiled>>, ~AppendLine(w), ~AppendLineFails(w)
      PROVE  r \in unfiled' <=> r \notin Lines(file'[h])
  <2>1. ~BeingFiled(r)
    BY <1>1, <1>5, BeingFiledStays
  <2>2. QED
    BY <1>1, <1>5, <2>1 DEF FInv, FiledInv
<1>6. (UNCHANGED <<file, unfiled>>) \/ \E t \in Txn : AppendLine(t) \/ AppendLineFails(t)
  BY DEF Next, Finished, vars, Begin, Step, CallAppend, AcquireLock, LockRaises,
     ReadLatest, InsertRow, Commit, CommitUnacknowledged, CommitTo, Rollback,
     StatementRaises, Fault, LockInterrupted, AppendInterrupted, LoseConnection, Crash
<1>7. QED
  BY <1>2, <1>3, <1>4, <1>5, <1>6

\* What the files need holds of the empty table and files.
LEMMA InitFInv == Init => FInv
<1> SUFFICES ASSUME Init PROVE FInv
  OBVIOUS
<1>1. RInv
  BY InitRInv
<1>2. DraftedInv
  BY DEF Init, DraftedInv
<1>3. \A h \in Host : DOMAIN file[h] = {} /\ Lines(file[h]) = {}
  BY DEF Init, Lines
<1>4. PastInv /\ OrderInv
  BY <1>3 DEF Init, PastInv, OrderInv
<1>5. Live = {}
  BY DEF Init, Live
<1>6. FiledInv
  BY <1>5 DEF FiledInv
<1>7. QED
  BY <1>1, <1>2, <1>4, <1>6 DEF FInv

\* Every step keeps what the files need.
LEMMA FInvStep == FInv /\ [Next]_vars => FInv'
  BY RInvStep, DraftedStep, PastStep, OrderStep, FiledStep DEF FInv

\* What the files need holds in every reachable state.
LEMMA FInvariance == Spec => []FInv
  BY InitFInv, FInvStep, PTL DEF Spec

\* What the files need is enough for FileProjectsChain.
LEMMA FilesProject == FInv => FileProjectsChain
<1> SUFFICES ASSUME FInv, NEW h \in Host
             PROVE  /\ {file[h][i] : i \in CommittedLines(h)} =
                         {r \in rows : HostOf[Writer(r)] = h /\ r \notin unfiled}
                    /\ \A i, j \in CommittedLines(h) : i < j => file[h][i].seq < file[h][j].seq
  BY DEF FileProjectsChain
<1>1. {file[h][i] : i \in CommittedLines(h)} = Lines(file[h]) \cap rows
  BY DEF CommittedLines, Lines
<1>2. \A r \in rows : r \in Live /\ ~BeingFiled(r)
  BY LiveRows DEF FInv, Live, BeingFiled
<1>3. \A r \in rows : r \in Lines(file[h]) <=> HostOf[Writer(r)] = h /\ r \notin unfiled
  BY <1>2 DEF FInv, FiledInv, PastInv
<1>4. \A i, j \in CommittedLines(h) : i < j => file[h][i].seq < file[h][j].seq
  BY <1>2 DEF FInv, OrderInv, CommittedLines
<1>5. QED
  BY <1>1, <1>3, <1>4

\* A host's file, restricted to committed records, is the chain restricted to
\* what that host appended and managed to write, in the chain's order: the
\* file, written before the commit and never taken back, loses no record that
\* is committed, and repeats and reorders none.
THEOREM FilesProjectTheChain == Spec => []FileProjectsChain
  BY FilesProject, FInvariance, PTL
=============================================================================
