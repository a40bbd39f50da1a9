---------------------- MODULE LedgerVerificationProofs ----------------------
(***************************************************************************)
(* verify-all, for any set of transactions and hosts and any number of     *)
(* appends.  As long as nothing is damaged the table and the files are     *)
(* those of AuditLedger, with its invariant FInv.  Damage breaks FInv, so  *)
(* the invariant has a part that survives it (LiveInv, CodeInv, SoundInv), *)
(* remembers what the damage left behind until it is read (DamageInv), and *)
(* relates what was read to what there is (ReadInv).                       *)
(***************************************************************************)
EXTENDS LedgerVerification, AuditLedgerRefinement, SequenceTheorems, FunctionTheorems,
        WellFoundedInduction

\* A record as the program makes them: its hash tells all of it.
Made(r) == IsRecord(r) /\ r = Record(r.seq, r.prev, r.body)

\* The numbers of live rows: finitely many, and no number twice.
LiveInv ==
  /\ IsFiniteSet(rows) /\ \A t \in Txn : IsFiniteSet(pending[t])
  /\ \A r \in Live : r.seq \in Nat \ {0}
  /\ \A r, s \in Live : r.seq = s.seq => r = s

\* The state of the program's code, which damage does not touch.
CodeInv ==
  /\ DOMAIN pending = Txn /\ DOMAIN draft = Txn /\ DOMAIN link = Txn
  /\ pc \in [Txn -> {"idle"} \cup Running \cup Ended] /\ count \in [Txn -> Nat]
  /\ \A t \in Txn : pc[t] \in {"insert", "file"} => Made(draft[t]) /\ draft[t].body = BodyOf(t)
  /\ \A t \in Txn : pc[t] \in Appending \cup {"file"} => count[t] >= 1
  /\ DOMAIN file = Host
  /\ \A h \in Host : file[h] \in Seq(Lines(file[h]))

\* The lines of the file that verify-all reads.
Ledger == Lines(file[Auditor])

\* Rows and lines are records, but for the damaged one.
SoundInv ==
  /\ damage.kind \notin {"row_edited", "row_injected"} => \A r \in Live : Made(r)
  /\ damage.kind \notin {"line_edited", "line_unreadable"} => \A r \in Ledger : Made(r)

\* Without damage the ledger is as its own proofs say; appends count from one.
IntactInv ==
  damage = NoDamage =>
    /\ FInv
    /\ \A r \in Live \cup Ledger : r.body[2] >= 1

\* The first k records of R are there, and chained.
Linked(R, k) ==
  \A n \in 1..k : \E r \in R :
    /\ r.seq = n /\ IsRecord(r)
    /\ IF n = 1 THEN r.prev = Genesis ELSE \E q \in R : q.seq = n - 1 /\ r.prev = q.hash

\* What the damage leaves behind in the table.  An altered or injected row
\* comes after a chain, and so does the gap of a deleted one.  The deleted row
\* comes back nowhere; a stale draft may fill its gap, with another row, which
\* is linked to the row before it but not to the one after it.
Victim == damage.record
EditedInv ==
  damage.kind = "row_edited" =>
    IsRecord(Victim) /\ Victim.body[2] >= 1 /\ Altered(Victim) \in rows
    /\ Linked(rows, Victim.seq - 1)
InjectedInv ==
  damage.kind = "row_injected" =>
    Victim \in rows /\ Victim.hash = Genesis /\ Linked(rows, Victim.seq - 1)
DeletedInv ==
  damage.kind = "row_deleted" =>
    /\ Made(Victim) /\ Victim \notin Live
    /\ pc[Writer(Victim)] \in {"committed", "unacked"}
    /\ Unshared(Victim) \/ Victim \in Ledger
GapInv ==
  damage.kind = "row_deleted" /\ damage.inner =>
    /\ Linked(rows, Victim.seq - 1)
    /\ \E s \in rows : s.seq = Victim.seq + 1 /\ s.prev = Victim.hash
    /\ \A q \in Live : q.seq = Victim.seq => Continues(q, rows)
    /\ \A t \in Txn : pc[t] = "insert" /\ link[t] = "alive" /\ draft[t].seq = Victim.seq =>
         Continues(draft[t], rows)

\* What it leaves behind in the file.  A line deleted between two committed
\* ones leaves the later of them; the deleted line of a row is not written again.
LineBadInv ==
  damage.kind \in {"line_edited", "line_unreadable"} =>
    \E r \in Ledger : r = Unreadable \/ r.hash # Digest(r.seq, r.prev, r.body)
LineGoneInv ==
  damage.kind = "line_deleted" =>
    Made(Victim) /\ Past(Victim) /\ (Victim \in Live => Victim \notin Ledger)
LineGapInv ==
  damage.kind = "line_deleted" /\ damage.inner =>
    Victim \in rows /\ \E s \in rows \cap Ledger : Victim.seq < s.seq /\ Linked(rows, s.seq)

DamageInv ==
  /\ damage.kind \in Damages \cup {"none"}
  /\ damage.kind = "none" => damage = NoDamage
  /\ EditedInv /\ InjectedInv /\ DeletedInv /\ GapInv
  /\ LineBadInv /\ LineGoneInv /\ LineGapInv

\* What has been read, and how it compares with what there is.
ReadInv ==
  /\ vpc \in {"idle", "file", "again", "cross", "done"}
  /\ vpc = "idle" => table = <<>> /\ lines = <<>> /\ table2 = <<>> /\ lines2 = <<>>
  /\ \A s \in {table, table2} : s \in Seq(ToSet(s)) /\ Ascending(s)
  /\ vpc \in {"cross", "done"} /\ damage.when = "idle" => ToSet(table2) \subseteq rows
  /\ vpc = "done" => lines2 = file[Auditor]
  /\ quiet \in BOOLEAN
Gone == IF damage.kind = "line_deleted" THEN 1 ELSE 0
LongInv ==
  \A s \in {lines, lines2} : s \in Seq(ToSet(s)) /\ Len(s) <= Len(file[Auditor]) + Gone
GenuineInv ==
  /\ damage = NoDamage => genuine \subseteq rows
  /\ genuine \ rows \subseteq {damage.record}

\* With nothing written since the first read all reads agree.
QuietInv ==
  damage = NoDamage /\ quiet =>
    /\ vpc # "idle" => table = InOrder(rows)
    /\ vpc \in {"again", "cross", "done"} => lines = file[Auditor]
    /\ vpc \in {"cross", "done"} => table2 = InOrder(rows)

VInv == /\ LiveInv /\ CodeInv /\ SoundInv /\ IntactInv /\ DamageInv /\ ReadInv /\ LongInv
        /\ GenuineInv /\ QuietInv /\ DamageLocated

-----------------------------------------------------------------------------
(* Lists of rows in the order of their numbers.                            *)

Numbered(R) ==
  /\ IsFiniteSet(R) /\ \A r \in R : r.seq \in Nat \ {0}
  /\ \A r, s \in R : r.seq = s.seq => r = s
Before(R, n) == {r \in R : r.seq < n}

\* A listing is a sequence that has every row once.
LEMMA ListingFacts ==
  ASSUME NEW R, IsFiniteSet(R), NEW s \in Listings(R)
  PROVE  /\ Cardinality(R) \in Nat /\ s \in [1..Cardinality(R) -> R]
         /\ s \in Seq(R) /\ Len(s) = Cardinality(R) /\ DOMAIN s = 1..Cardinality(R)
         /\ \A i, j \in DOMAIN s : s[i] = s[j] => i = j
         /\ \A r \in R : \E i \in DOMAIN s : s[i] = r
         /\ ToSet(s) = R
<1> DEFINE n == Cardinality(R)  D == 1..n
<1>1. n \in Nat
  BY FS_CardinalityType
<1>2. s \in Bijection(D, R)
  BY DEF Listings
<1> HIDE DEF D
<1>3. s \in [D -> R] /\ (\A i, j \in D : s[i] = s[j] => i = j)
      /\ (\A r \in R : \E i \in D : s[i] = r)
  BY <1>2 DEF Bijection, Injection, Surjection, IsInjective
<1>4. s \in Seq(R) /\ Len(s) = n /\ DOMAIN s = D
  BY <1>1, <1>3 DEF D
<1>5. ToSet(s) = R
  BY <1>3, <1>4 DEF ToSet
<1>6. QED
  BY <1>1, <1>3, <1>4, <1>5 DEF D

\* The place of a row in an ascending listing is the number of rows before it.
LEMMA Rank ==
  ASSUME NEW R, Numbered(R), NEW s \in Listings(R), Ascending(s), NEW j \in DOMAIN s
  PROVE  IsFiniteSet(Before(R, s[j].seq)) /\ Cardinality(Before(R, s[j].seq)) = j - 1
<1> DEFINE n == Cardinality(R)
           D == 1..(j - 1)
           B == Before(R, s[j].seq)
           f == [i \in D |-> s[i]]
<1>1. /\ n \in Nat /\ s \in [1..n -> R] /\ DOMAIN s = 1..n
      /\ \A i, k \in 1..n : s[i] = s[k] => i = k
      /\ \A r \in R : \E i \in 1..n : s[i] = r
  <2>1. IsFiniteSet(R)
    BY ONLY Numbered(R), Zenon DEF Numbered
  <2>2. /\ n \in Nat /\ s \in [1..n -> R] /\ DOMAIN s = 1..n
        /\ \A i, k \in DOMAIN s : s[i] = s[k] => i = k
        /\ \A r \in R : \E i \in DOMAIN s : s[i] = r
    BY ONLY <2>1, s \in Listings(R), ListingFacts, Zenon
  <2>3. QED
    BY ONLY <2>2, Zenon
<1>2. j \in 1..n /\ D \subseteq 1..n /\ (\A i \in D : i < j) /\ \A i \in 1..n : i < j => i \in D
  BY <1>1
<1>3. \A r \in R : r.seq \in Nat
  BY DEF Numbered
<1>4. \A i \in D : s[i] \in R /\ s[i].seq < s[j].seq
  BY <1>1, <1>2 DEF Ascending
<1>5. \A i \in D : s[i] \in B
  BY <1>4 DEF Before
<1>6. ASSUME NEW r \in B PROVE \E i \in D : s[i] = r
  <2>1. r \in R /\ r.seq < s[j].seq
    BY DEF Before
  <2>2. PICK i \in 1..n : s[i] = r
    BY <1>1, <2>1
  <2>3. i # j /\ ~(s[j].seq < r.seq)
    BY <1>1, <1>2, <1>3, <2>1, <2>2
  <2>4. ~(j < i)
    BY <1>1, <1>2, <2>2, <2>3 DEF Ascending
  <2>5. i < j
    BY <1>1, <1>2, <2>3, <2>4
  <2>6. QED
    BY <1>2, <2>2, <2>5
<1>7. \A i, k \in D : s[i] = s[k] => i = k
  BY <1>1, <1>2
<1>8. IsFiniteSet(D) /\ Cardinality(D) = j - 1
  <2>1. PICK m \in Nat : m = j - 1
    BY <1>1, <1>2
  <2>2. IsFiniteSet(1..m) /\ Cardinality(1..m) = m
    BY FS_Interval
  <2>3. QED
    BY <2>1, <2>2
<1> HIDE DEF D, B
<1>9. f \in Bijection(D, B)
  BY <1>5, <1>6, <1>7 DEF Bijection, Injection, Surjection, IsInjective
<1>10. IsFiniteSet(B) /\ Cardinality(B) = Cardinality(D)
  BY <1>8, <1>9, FS_Bijection DEF ExistsBijection
<1>11. QED
  BY <1>8, <1>10 DEF B

\* So two ascending listings of the same rows are one.
LEMMA OneListing ==
  ASSUME NEW R, Numbered(R), NEW s \in Listings(R), NEW u \in Listings(R), Ascending(s),
         Ascending(u)
  PROVE  s = u
<1> DEFINE n == Cardinality(R)
<1>1. /\ n \in Nat /\ s \in [1..n -> R] /\ DOMAIN s = 1..n
      /\ \A r \in R : \E i \in 1..n : s[i] = r
  <2>1. IsFiniteSet(R)
    BY DEF Numbered
  <2>2. /\ n \in Nat /\ s \in [1..n -> R] /\ DOMAIN s = 1..n
        /\ \A r \in R : \E i \in DOMAIN s : s[i] = r
    BY <2>1, ListingFacts
  <2>3. QED
    BY <2>2
<1>2. u \in [1..n -> R] /\ DOMAIN u = 1..n
  BY ListingFacts DEF Numbered
<1>3. ASSUME NEW j \in 1..n PROVE s[j] = u[j]
  <2>1. PICK i \in 1..n : s[i] = u[j]
    BY <1>1, <1>2, <1>3
  <2>2. Cardinality(Before(R, s[i].seq)) = i - 1
    BY <1>1, Rank
  <2>3. Cardinality(Before(R, u[j].seq)) = j - 1
    BY <1>2, Rank
  <2>4. i = j
    BY <1>1, <2>1, <2>2, <2>3
  <2>5. QED
    BY <2>1, <2>4
<1>4. QED
  BY <1>1, <1>2, <1>3

\* There is one: InOrder lists every finite set of rows without equal numbers.
LEMMA OrderExists ==
  ASSUME NEW R, Numbered(R)
  PROVE  InOrder(R) \in Listings(R) /\ Ascending(InOrder(R))
<1> DEFINE n == Cardinality(R)
           D == 1..n
           rank(r) == Cardinality(Before(R, r.seq)) + 1
           f == [r \in R |-> rank(r)]
<1>1. IsFiniteSet(R) /\ n \in Nat /\ (\A r \in R : r.seq \in Nat)
      /\ \A r, s \in R : r.seq = s.seq => r = s
  BY FS_CardinalityType DEF Numbered
<1>2. ASSUME NEW r \in R
      PROVE  IsFiniteSet(Before(R, r.seq)) /\ Cardinality(Before(R, r.seq)) \in 0..(n - 1)
  <2> DEFINE B == Before(R, r.seq)
  <2>1. B \in SUBSET R /\ r \notin B
    BY <1>1 DEF Before
  <2> HIDE DEF B
  <2>2. IsFiniteSet(B) /\ Cardinality(B) <= n /\ (n = Cardinality(B) => R = B)
    BY <1>1, <2>1, FS_Subset
  <2>3. Cardinality(B) # n /\ Cardinality(B) \in Nat
    BY <2>1, <2>2, FS_CardinalityType
  <2>4. QED
    BY <1>1, <2>2, <2>3 DEF B
<1>3. ASSUME NEW r \in R, NEW q \in R, r.seq < q.seq
      PROVE  rank(r) < rank(q)
  <2> DEFINE A == Before(R, r.seq)  B == Before(R, q.seq)
  <2>1. A \in SUBSET B /\ r \in B /\ r \notin A
    BY <1>1, <1>3 DEF Before
  <2>2. IsFiniteSet(B) /\ Cardinality(B) \in Int /\ Cardinality(A) \in Int
    BY <1>2
  <2> HIDE DEF A, B
  <2>3. Cardinality(A) <= Cardinality(B) /\ (Cardinality(B) = Cardinality(A) => B = A)
    BY <2>1, <2>2, FS_Subset
  <2>4. Cardinality(A) < Cardinality(B)
    BY <2>1, <2>2, <2>3
  <2>5. QED
    BY <2>2, <2>4 DEF A, B
<1>4. \A r \in R : rank(r) \in D
  BY <1>1, <1>2
<1>5. \A r, q \in R : rank(r) = rank(q) => r = q
  <2> SUFFICES ASSUME NEW r \in R, NEW q \in R, rank(r) = rank(q) PROVE r = q
    OBVIOUS
  <2>1. rank(r) \in Int /\ rank(q) \in Int
    BY <1>1, <1>4
  <2>2. ~(r.seq < q.seq) /\ ~(q.seq < r.seq)
    BY <1>3, <2>1
  <2>3. QED
    BY <1>1, <2>2
<1>6. IsFiniteSet(D) /\ Cardinality(D) = n
  BY <1>1, FS_Interval
<1> HIDE DEF D, rank
<1>7. f \in Injection(R, D)
  BY <1>4, <1>5 DEF Injection, IsInjective
<1>8. f \in Surjection(R, D)
  BY <1>6, <1>7, FS_Injection
<1>9. \A i \in D : \E r \in R : rank(r) = i
  BY <1>8 DEF Surjection
<1> DEFINE s == [i \in D |-> CHOOSE r \in R : rank(r) = i]
<1>10. \A i \in D : s[i] \in R /\ rank(s[i]) = i
  BY <1>9
<1>11. s \in Bijection(D, R)
  <2>1. \A r \in R : s[rank(r)] = r
    BY <1>4, <1>5, <1>10
  <2>2. s \in [D -> R] /\ (\A i, j \in D : s[i] = s[j] => i = j)
        /\ \A r \in R : \E i \in D : s[i] = r
    BY <1>4, <1>10, <2>1
  <2> HIDE DEF s
  <2>3. QED
    BY <2>2 DEF Bijection, Injection, Surjection, IsInjective
<1>12. DOMAIN s = D
  OBVIOUS
<1> HIDE DEF s
<1>13. s \in Listings(R)
  BY <1>11 DEF Listings, D
<1>14. ASSUME NEW i \in D, NEW j \in D, i < j PROVE s[i].seq < s[j].seq
  <2>1. i \in Int /\ j \in Int
    BY <1>1 DEF D
  <2>2. s[i] \in R /\ s[j] \in R /\ rank(s[i]) = i /\ rank(s[j]) = j
    BY <1>10
  <2>3. ~(s[j].seq < s[i].seq)
    BY <1>3, <1>14, <2>1, <2>2
  <2>4. s[i].seq # s[j].seq
    BY <1>1, <1>14, <2>1, <2>2
  <2>5. s[i].seq \in Nat /\ s[j].seq \in Nat
    BY <1>1, <2>2
  <2>6. QED
    BY <2>3, <2>4, <2>5
<1>15. Ascending(s)
  BY <1>12, <1>14 DEF Ascending
<1>16. QED
  BY <1>13, <1>15 DEF InOrder

\* With the numbers 1..k present, k rows have numbers up to k.
LEMMA CountBefore ==
  ASSUME NEW R, Numbered(R), NEW k \in Nat, \A n \in 1..k : \E r \in R : r.seq = n
  PROVE  IsFiniteSet(Before(R, k + 1)) /\ Cardinality(Before(R, k + 1)) = k
<1> DEFINE D == 1..k
           B == Before(R, k + 1)
           f == [n \in D |-> CHOOSE r \in R : r.seq = n]
<1>1. \A n \in D : f[n] \in R /\ f[n].seq = n
  OBVIOUS
<1>2. \A n \in D : f[n] \in B
  BY <1>1 DEF Before
<1>3. ASSUME NEW r \in B PROVE r.seq \in D /\ f[r.seq] = r
  <2>1. r \in R /\ r.seq \in Nat \ {0} /\ r.seq < k + 1
    BY DEF Before, Numbered
  <2>2. r.seq \in D
    BY <2>1
  <2>3. f[r.seq] \in R /\ f[r.seq].seq = r.seq
    BY <1>1, <2>2
  <2>4. QED
    BY <2>1, <2>2, <2>3 DEF Numbered
<1>4. IsFiniteSet(D) /\ Cardinality(D) = k
  BY FS_Interval
<1>5. f \in [D -> B]
  BY <1>2
<1> HIDE DEF D, B, f
<1>6. f \in Bijection(D, B)
  BY <1>1, <1>3, <1>5 DEF Bijection, Injection, Surjection, IsInjective
<1>7. IsFiniteSet(B) /\ Cardinality(B) = Cardinality(D)
  BY <1>4, <1>6, FS_Bijection DEF ExistsBijection
<1>8. QED
  BY <1>4, <1>7 DEF B

\* A row that follows the rows 1..k directly is listed in place k + 1.
LEMMA PlaceOf ==
  ASSUME NEW R, Numbered(R), NEW k \in Nat, \A n \in 1..k : \E r \in R : r.seq = n,
         NEW r \in R, r.seq > k, \A q \in R : q.seq <= k \/ q.seq >= r.seq
  PROVE  k + 1 \in DOMAIN InOrder(R) /\ InOrder(R)[k + 1] = r
<1> DEFINE s == InOrder(R)
<1>1. s \in Listings(R) /\ Ascending(s) /\ IsFiniteSet(R)
  BY OrderExists DEF Numbered
<1> HIDE DEF s
<1>2. DOMAIN s = 1..Cardinality(R) /\ Cardinality(R) \in Nat
      /\ \A q \in R : \E i \in DOMAIN s : s[i] = q
  BY <1>1, ListingFacts
<1>3. PICK j \in DOMAIN s : s[j] = r
  BY <1>2
<1>4. Cardinality(Before(R, r.seq)) = j - 1
  BY <1>1, <1>3, Rank
<1>5. Before(R, r.seq) = Before(R, k + 1)
  <2>1. r.seq \in Nat /\ \A q \in R : q.seq \in Nat
    BY DEF Numbered
  <2>2. \A q \in R : q.seq < r.seq <=> q.seq < k + 1
    BY <2>1
  <2>3. QED
    BY <2>2 DEF Before
<1>6. Cardinality(Before(R, k + 1)) = k
  BY CountBefore
<1>7. j = k + 1
  BY <1>2, <1>4, <1>5, <1>6
<1>8. QED
  BY <1>3, <1>7 DEF s

\* Chained rows are listed in their places, and pass the checks there.
LEMMA LinkedPrefix ==
  ASSUME NEW R, Numbered(R), NEW k \in Nat, Linked(R, k)
  PROVE  \A i \in 1..k : /\ i \in DOMAIN InOrder(R) /\ InOrder(R)[i] \in R
                         /\ InOrder(R)[i].seq = i /\ i \notin Broken(InOrder(R))
<1> DEFINE s == InOrder(R)
<1>1. ASSUME NEW i \in 1..k, NEW r \in R, r.seq = i
      PROVE  i \in DOMAIN s /\ s[i] = r
  <2>1. i - 1 \in Nat /\ i \in Nat
    OBVIOUS
  <2>2. \A n \in 1..(i - 1) : \E q \in R : q.seq = n
    BY DEF Linked
  <2>3. \A q \in R : q.seq <= i - 1 \/ q.seq >= r.seq
    BY <1>1, <2>1 DEF Numbered
  <2>4. (i - 1) + 1 \in DOMAIN s /\ s[(i - 1) + 1] = r
    BY <1>1, <2>1, <2>2, <2>3, PlaceOf
  <2>5. (i - 1) + 1 = i
    BY <2>1
  <2>6. QED
    BY <2>4, <2>5
<1> HIDE DEF s
<1>2. ASSUME NEW i \in 1..k
      PROVE  i \in DOMAIN s /\ s[i] \in R /\ s[i].seq = i /\ i \notin Broken(s)
  <2>1. PICK r \in R : /\ r.seq = i /\ IsRecord(r)
                       /\ IF i = 1 THEN r.prev = Genesis
                          ELSE \E q \in R : q.seq = i - 1 /\ r.prev = q.hash
    BY DEF Linked
  <2>2. i \in DOMAIN s /\ s[i] = r
    BY <1>1, <2>1
  <2>3. i # 1 => s[i].prev = s[i - 1].hash
    <3>1. SUFFICES ASSUME i # 1 PROVE s[i].prev = s[i - 1].hash
      OBVIOUS
    <3>2. i - 1 \in 1..k
      BY <3>1
    <3>3. PICK q \in R : q.seq = i - 1 /\ r.prev = q.hash
      BY <2>1, <3>1
    <3>4. s[i - 1] = q
      BY <1>1, <3>2, <3>3
    <3>5. QED
      BY <2>2, <3>3, <3>4
  <2>4. i = 1 => s[i].prev = Genesis
    BY <2>1, <2>2
  <2>5. s[i].seq = i /\ s[i].hash = Digest(s[i].seq, s[i].prev, s[i].body)
    BY <2>1, <2>2 DEF IsRecord
  <2>6. i \notin Broken(s)
    BY <2>3, <2>4, <2>5 DEF Broken
  <2>7. QED
    BY <2>2, <2>5, <2>6
<1>3. QED
  BY <1>2 DEF s

\* A set of natural numbers with a member has a least one.
LEMMA Least ==
  ASSUME NEW S, S \subseteq Nat, S # {}
  PROVE  \E x \in S : \A y \in S : x <= y
<1>1. PICK x \in S : \A y \in S : ~(<<y, x>> \in OpToRel(<, Nat))
  BY NatLessThanWellFounded, WFMin
<1>2. ASSUME NEW y \in S PROVE x <= y
  <2>1. <<y, x>> \in Nat \X Nat /\ x \in Nat /\ y \in Nat
    OBVIOUS
  <2>2. ~(y < x)
    BY <1>1, <2>1 DEF OpToRel
  <2>3. QED
    BY <2>1, <2>2
<1>3. QED
  BY <1>2

\* The chain check reports the number of the first row that fails.
LEMMA FirstBroken ==
  ASSUME NEW S, NEW s \in Seq(S), NEW k \in DOMAIN s, k \in Broken(s),
         \A i \in 1..(k - 1) : i \notin Broken(s)
  PROVE  ~ChainCheck(s).verified /\ ChainCheck(s).tampered = s[k].seq
<1>1. Broken(s) \subseteq 1..Len(s) /\ Broken(s) # {} /\ Len(s) \in Nat
  BY DEF Broken
<1>2. \A i \in Broken(s) : k <= i
  BY <1>1
<1>3. Min(Broken(s)) = k
  <2> DEFINE B == Broken(s)
  <2>1. k \in B /\ B \subseteq Nat /\ \A i \in B : k <= i
    BY <1>1, <1>2
  <2> HIDE DEF B
  <2>2. \A x \in B : (\A i \in B : x <= i) => x = k
    BY <2>1
  <2>3. Min(B) = k
    BY <2>1, <2>2 DEF Min
  <2>4. QED
    BY <2>3 DEF B
<1>4. QED
  BY <1>1, <1>3 DEF ChainCheck

\* An altered or injected row is reported under its own number.
LEMMA TamperedAt ==
  ASSUME NEW R, Numbered(R), NEW r \in R, Linked(R, r.seq - 1),
         r.hash # Digest(r.seq, r.prev, r.body)
  PROVE  ChainCheck(InOrder(R)).tampered = r.seq /\ ~ChainCheck(InOrder(R)).verified
<1> DEFINE s == InOrder(R)  k == r.seq
<1>1. k \in Nat \ {0} /\ k - 1 \in Nat /\ (k - 1) + 1 = k
  BY DEF Numbered
<1>2. \A i \in 1..(k - 1) : i \notin Broken(s)
  BY <1>1, LinkedPrefix
<1>3. \A n \in 1..(k - 1) : \E q \in R : q.seq = n
  BY DEF Linked
<1>4. k > k - 1 /\ \A q \in R : q.seq <= k - 1 \/ q.seq >= k
  BY <1>1 DEF Numbered
<1>5. k \in DOMAIN s /\ s[k] = r
  BY <1>1, <1>3, <1>4, PlaceOf
<1>6. s \in Seq(R)
  BY OrderExists, ListingFacts DEF Numbered
<1> HIDE DEF s
<1>7. k \in Broken(s)
  BY <1>5 DEF Broken
<1>8. QED
  BY <1>2, <1>5, <1>6, <1>7, FirstBroken DEF s

\* Of a missing row the next one is reported.
LEMMA GapAt ==
  ASSUME NEW R, Numbered(R), NEW k \in Nat \ {0}, Linked(R, k - 1),
         \A q \in R : q.seq # k, NEW r \in R, r.seq = k + 1
  PROVE  ChainCheck(InOrder(R)).tampered = k + 1 /\ ~ChainCheck(InOrder(R)).verified
<1> DEFINE s == InOrder(R)
<1>1. k - 1 \in Nat /\ (k - 1) + 1 = k
  OBVIOUS
<1>2. \A i \in 1..(k - 1) : i \notin Broken(s)
  BY <1>1, LinkedPrefix
<1>3. \A n \in 1..(k - 1) : \E q \in R : q.seq = n
  BY DEF Linked
<1>4. r.seq > k - 1 /\ \A q \in R : q.seq <= k - 1 \/ q.seq >= r.seq
  BY <1>1 DEF Numbered
<1>5. k \in DOMAIN s /\ s[k] = r
  BY <1>1, <1>3, <1>4, PlaceOf
<1>6. s \in Seq(R)
  BY OrderExists, ListingFacts DEF Numbered
<1> HIDE DEF s
<1>7. k \in Broken(s)
  BY <1>5 DEF Broken
<1>8. QED
  BY <1>2, <1>5, <1>6, <1>7, FirstBroken DEF s

\* Of a gap that was filled the row after it is reported, too.
LEMMA FilledGapAt ==
  ASSUME NEW R, Numbered(R), NEW k \in Nat \ {0}, Linked(R, k),
         NEW q \in R, q.seq = k, NEW r \in R, r.seq = k + 1, r.prev # q.hash
  PROVE  ChainCheck(InOrder(R)).tampered = k + 1 /\ ~ChainCheck(InOrder(R)).verified
<1> DEFINE s == InOrder(R)
<1>1. \A i \in 1..k : i \in DOMAIN s /\ s[i] \in R /\ s[i].seq = i /\ i \notin Broken(s)
  BY LinkedPrefix
<1>2. \A n \in 1..k : \E p \in R : p.seq = n
  BY DEF Linked
<1>3. r.seq > k /\ \A p \in R : p.seq <= k \/ p.seq >= r.seq
  BY DEF Numbered
<1>4. k + 1 \in DOMAIN s /\ s[k + 1] = r
  BY <1>2, <1>3, PlaceOf
<1>5. s \in Seq(R)
  BY OrderExists, ListingFacts DEF Numbered
<1> HIDE DEF s
<1>6. s[k] = q
  <2>1. k \in 1..k
    OBVIOUS
  <2>2. s[k] \in R /\ s[k].seq = q.seq
    BY <1>1, <2>1
  <2>3. QED
    BY <2>2 DEF Numbered
<1>7. k + 1 # 1 /\ (k + 1) - 1 = k
  OBVIOUS
<1>8. k + 1 \in Broken(s)
  BY <1>4, <1>6, <1>7 DEF Broken
<1>9. \A i \in 1..((k + 1) - 1) : i \notin Broken(s)
  BY <1>1, <1>7
<1>10. QED
  BY <1>4, <1>5, <1>8, <1>9, FirstBroken DEF s

\* The hash of an altered record is not that of its contents.
LEMMA AlteredFails ==
  ASSUME NEW r, IsRecord(r), r.body[2] >= 1
  PROVE  /\ Altered(r).seq = r.seq /\ Altered(r).body[2] = 0
         /\ Altered(r).hash # Digest(Altered(r).seq, Altered(r).prev, Altered(r).body)
<1>1. /\ Altered(r).seq = r.seq /\ Altered(r).prev = r.prev /\ Altered(r).hash = r.hash
      /\ Altered(r).body = <<Writer(r), 0>>
  BY DEF Altered, IsRecord
<1>2. Altered(r).body # r.body
  BY <1>1
<1>3. r.hash = Digest(r.seq, r.prev, r.body)
  BY DEF IsRecord
<1>4. QED
  BY <1>1, <1>2, <1>3 DEF Digest

\* Two records with the same hash are one.
LEMMA SameHash ==
  ASSUME NEW a, NEW b, Made(a), Made(b), a.hash = b.hash
  PROVE  a = b
<1>1. a.seq = b.seq /\ a.prev = b.prev /\ a.body = b.body
  BY DEF Made, IsRecord, Digest
<1>2. QED
  BY <1>1 DEF Made

\* What the two checks pass.
LEMMA Passes ==
  ASSUME NEW s
  PROVE  /\ ChainCheck(s).verified <=> Broken(s) = {}
         /\ FileCheck(s).verified <=> ~Contains(s, Unreadable) /\ Broken(s) = {}
<1>1. ChainCheck(s).verified <=> Broken(s) = {}
  BY DEF ChainCheck
<1>2. CASE Contains(s, Unreadable)
  BY <1>1, <1>2 DEF FileCheck
<1>3. CASE ~Contains(s, Unreadable)
  <2>1. FileCheck(s) = ChainCheck(s)
    BY <1>3 DEF FileCheck
  <2>2. QED
    BY <1>1, <1>3, <2>1
<1>4. QED
  BY <1>2, <1>3

\* A file with a line whose hash is wrong, or that is no record, is refused.
LEMMA BadLine ==
  ASSUME NEW S, NEW f \in Seq(S), NEW i \in DOMAIN f,
         f[i] = Unreadable \/ f[i].hash # Digest(f[i].seq, f[i].prev, f[i].body)
  PROVE  ~FileCheck(f).verified
<1>1. f[i] = Unreadable => Contains(f, Unreadable)
  BY DEF Contains
<1>2. f[i] # Unreadable => i \in Broken(f)
  BY DEF Broken
<1>3. QED
  BY <1>1, <1>2, Passes

\* If a file passes its check and has the m-th row of a chain, it has the
\* rows before it: every line has the hash that the next one names.
LEMMA FileChain ==
  ASSUME NEW R, Numbered(R), \A r \in R : Made(r), NEW S, NEW f \in Seq(S),
         \A i \in DOMAIN f : Made(f[i]), FileCheck(f).verified,
         NEW x \in R, NEW k \in DOMAIN f, f[k] = x, Linked(R, x.seq),
         NEW y \in R, y.seq <= x.seq
  PROVE  \E i \in DOMAIN f : f[i] = y
<1> DEFINE m == x.seq
           bad == {n \in 0..(m - 1) : f[m - n] \notin R}
<1>1. Broken(f) = {} /\ DOMAIN f = 1..Len(f) /\ Len(f) \in Nat
  BY Passes
<1>2. ASSUME NEW i \in DOMAIN f
      PROVE  f[i].seq = i /\ (i # 1 => f[i].prev = f[i - 1].hash)
  BY <1>1 DEF Broken
<1>3. m = k /\ m \in 1..Len(f) /\ f[m] = x
  BY <1>1, <1>2
<1>4. bad = {}
  <2> SUFFICES ASSUME bad # {} PROVE FALSE
    OBVIOUS
  <2>1. bad \subseteq Nat /\ \A n \in bad : n \in 0..(m - 1) /\ f[m - n] \notin R
    OBVIOUS
  <2>2. \A n \in 0..(m - 1) : n \notin bad => f[m - n] \in R
    OBVIOUS
  <2> HIDE DEF bad
  <2>3. PICK n \in bad : \A q \in bad : n <= q
    BY <2>1, Least
  <2>4. n \in 0..(m - 1) /\ n # 0
    BY <1>3, <2>1
  <2> DEFINE j == m - (n - 1)
  <2>5. n - 1 \in 0..(m - 1) /\ n - 1 \notin bad
    BY <1>3, <2>1, <2>3, <2>4
  <2>6. j \in 1..m /\ j # 1 /\ j - 1 = m - n /\ j \in DOMAIN f /\ j - 1 \in DOMAIN f
    BY <1>1, <1>3, <2>4
  <2>7. f[j] \in R
    BY <2>2, <2>5
  <2>8. f[j - 1] \notin R
    BY <2>1, <2>6
  <2> HIDE DEF j
  <2>9. PICK r \in R : r.seq = j /\ IF j = 1 THEN r.prev = Genesis
                                    ELSE \E q \in R : q.seq = j - 1 /\ r.prev = q.hash
    BY <2>6 DEF Linked
  <2>10. PICK q \in R : q.seq = j - 1 /\ r.prev = q.hash
    BY <2>6, <2>9
  <2>11. r = f[j]
    BY <1>2, <2>6, <2>7, <2>9 DEF Numbered
  <2>12. q.hash = f[j - 1].hash
    BY <1>2, <2>6, <2>10, <2>11
  <2>13. q = f[j - 1]
    BY <2>6, <2>12, SameHash
  <2>14. QED
    BY <2>8, <2>13
<1> DEFINE i == y.seq
<1>5. i \in 1..m
  BY <1>3 DEF Numbered
<1>6. m - i \in 0..(m - 1) /\ m - (m - i) = i /\ i \in DOMAIN f
  BY <1>1, <1>3, <1>5
<1>7. f[i] \in R
  BY <1>4, <1>6
<1>8. f[i] = y
  BY <1>2, <1>6, <1>7 DEF Numbered
<1>9. QED
  BY <1>6, <1>8

-----------------------------------------------------------------------------
(* Steps of the ledger, whether or not it is damaged.                      *)

LedgerSteps(t) == Begin(t) \/ Step(t) \/ Fault(t)

\* The record with the greatest number exists.
LEMMA LatestExists ==
  ASSUME NEW R, Numbered(R), R # {}
  PROVE  LatestOf(R) \in R /\ \A s \in R : s.seq <= LatestOf(R).seq
<1> DEFINE s == InOrder(R)  n == Cardinality(R)
<1>1. s \in Listings(R) /\ Ascending(s) /\ IsFiniteSet(R)
  BY OrderExists DEF Numbered
<1> HIDE DEF s
<1>2. n \in Nat /\ DOMAIN s = 1..n /\ (\A i \in 1..n : s[i] \in R)
      /\ \A r \in R : \E i \in 1..n : s[i] = r
  BY <1>1, ListingFacts
<1>3. n \in 1..n
  BY <1>2
<1>4. \A r \in R : r.seq \in Nat
  BY DEF Numbered
<1>5. ASSUME NEW r \in R PROVE r.seq <= s[n].seq
  <2>1. PICK i \in 1..n : s[i] = r
    BY <1>2
  <2>2. i = n \/ i < n
    BY <1>2
  <2>3. i < n => s[i].seq < s[n].seq
    BY <1>1, <1>2, <1>3 DEF Ascending
  <2>4. s[n].seq \in Nat /\ r.seq \in Nat
    BY <1>2, <1>3, <1>4
  <2>5. QED
    BY <2>1, <2>2, <2>3, <2>4
<1>6. \E r \in R : \A q \in R : q.seq <= r.seq
  BY <1>2, <1>3, <1>5
<1>7. QED
  BY <1>6 DEF LatestOf

\* What a transaction sees is finite and without equal numbers.
LEMMA SeenNumbered ==
  ASSUME LiveInv
  PROVE  Numbered(rows) /\ \A t \in Txn : Numbered(Visible(t))
<1>1. \A t \in Txn : Visible(t) \subseteq Live /\ rows \subseteq Live
  BY DEF Visible, Live
<1>2. \A t \in Txn : IsFiniteSet(Visible(t))
  BY FS_Union DEF LiveInv, Visible
<1>3. rows \subseteq Live
  BY DEF Live
<1>4. QED
  BY <1>1, <1>2, <1>3 DEF LiveInv, Numbered

\* The next record is one that the program makes, with a number above all.
LEMMA NextMade ==
  ASSUME LiveInv, CodeInv, NEW t \in Txn
  PROVE  /\ Made(NextRecord(t)) /\ NextRecord(t).body = BodyOf(t)
         /\ \A r \in Visible(t) : r.seq < NextRecord(t).seq
<1> DEFINE R == Visible(t)
<1>1. BodyOf(t) \in Body
  BY DEF CodeInv, BodyOf, Body
<1>2. Numbered(R)
  BY SeenNumbered
<1> HIDE DEF R
<1>3. CASE R = {}
  <2>1. NextRecord(t) = Record(1, Genesis, BodyOf(t))
    BY <1>3 DEF NextRecord, Successor, R
  <2>2. IsRecord(NextRecord(t))
    BY <1>1, <2>1, RecordIsRecord
  <2>3. QED
    BY <1>3, <2>1, <2>2 DEF Made, Record, R
<1>4. CASE R # {}
  <2> DEFINE q == LatestOf(R)
  <2>1. NextRecord(t) = Record(q.seq + 1, q.hash, BodyOf(t))
    BY <1>4 DEF NextRecord, Successor, R
  <2>2. q \in R /\ \A s \in R : s.seq <= q.seq
    BY <1>2, <1>4, LatestExists
  <2> HIDE DEF q
  <2>3. q.seq \in Nat \ {0} /\ q.seq + 1 \in Nat \ {0}
        /\ \A s \in R : s.seq \in Nat /\ s.seq < q.seq + 1
    BY <1>2, <2>2 DEF Numbered
  <2>4. IsRecord(NextRecord(t))
    BY <1>1, <2>1, <2>3, RecordIsRecord
  <2>5. QED
    BY <2>1, <2>3, <2>4 DEF Made, Record, R
<1>5. QED
  BY <1>3, <1>4

\* An INSERT that the unique index lets through has a new number.
LEMMA NumberIsNew ==
  ASSUME NEW t \in Txn, InsertRow(t)
  PROVE  \A r \in Live : r.seq # draft[t].seq
BY DEF InsertRow, Taken, Blocked, Visible, Live

\* Rows are only added, and were live before.
LEMMA RowsGrow ==
  ASSUME LedgerStep
  PROVE  rows \subseteq rows' /\ rows' \subseteq Live
         /\ \E t \in Txn : rows' \in {rows, rows \cup pending[t]}
<1>1. PICK t \in Txn : LedgerSteps(t)
  BY DEF LedgerStep, LedgerSteps
<1>2. rows' \in {rows, rows \cup pending[t]}
  BY <1>1 DEF LedgerSteps, Begin, Step, CallAppend, AcquireLock, LockRaises, ReadLatest, InsertRow,
     AppendLine, AppendLineFails, Commit, CommitUnacknowledged, CommitTo, Rollback,
     StatementRaises, Fault, LockInterrupted, AppendInterrupted, LoseConnection, Crash
<1>3. QED
  BY <1>2 DEF Live

\* Uncommitted rows are kept, dropped, or extended by a draft.
LEMMA PendingStep ==
  ASSUME CodeInv, LedgerStep, NEW u \in Txn
  PROVE  /\ DOMAIN pending' = Txn
         /\ pending'[u] \in {pending[u], {}, pending[u] \cup {draft[u]}}
BY DEF LedgerStep, Begin, Step, CallAppend, AcquireLock, LockRaises, ReadLatest, InsertRow,
   AppendLine, AppendLineFails, Commit, CommitUnacknowledged, CommitTo, Rollback,
   StatementRaises, Fault, LockInterrupted, AppendInterrupted, LoseConnection, Crash,
   EndTransaction, CodeInv

\* Lines are only added at a file's end, and are drafts to be filed.
LEMMA FileGrows ==
  ASSUME CodeInv, LedgerStep, NEW h \in Host
  PROVE  /\ DOMAIN file' = Host
         /\ file'[h] \in Seq(Lines(file'[h])) /\ Len(file[h]) <= Len(file'[h])
         /\ \/ file'[h] = file[h]
            \/ \E t \in Txn : AppendLine(t) /\ Lines(file'[h]) = Lines(file[h]) \cup {draft[t]}
<1>1. DOMAIN file = Host /\ file[h] \in Seq(Lines(file[h])) /\ Len(file[h]) \in Nat
  BY DEF CodeInv
<1>2. ASSUME NEW t \in Txn, AppendLine(t), h = HostOf[t]
      PROVE  /\ DOMAIN file' = Host
             /\ file'[h] \in Seq(Lines(file'[h])) /\ Len(file[h]) <= Len(file'[h])
             /\ Lines(file'[h]) = Lines(file[h]) \cup {draft[t]}
  <2>1. DOMAIN file' = Host /\ file'[h] = Append(file[h], draft[t])
    BY <1>1, <1>2 DEF AppendLine
  <2>2. Len(Append(file[h], draft[t])) = Len(file[h]) + 1
    BY <1>1
  <2>3. QED
    BY <1>1, <2>1, <2>2, AppendLines
<1>3. ASSUME NEW t \in Txn, AppendLine(t), h # HostOf[t]
      PROVE  DOMAIN file' = Host /\ file'[h] = file[h]
  BY <1>1, <1>3 DEF AppendLine
<1>4. PICK t \in Txn : LedgerSteps(t)
  BY DEF LedgerStep, LedgerSteps
<1>5. AppendLine(t) \/ file' = file
  BY <1>4 DEF LedgerSteps, Begin, Step, CallAppend, AcquireLock, LockRaises, ReadLatest, InsertRow,
     AppendLineFails, Commit, CommitUnacknowledged, CommitTo, Rollback,
     StatementRaises, Fault, LockInterrupted, AppendInterrupted, LoseConnection, Crash
<1>6. CASE file' = file
  BY <1>1, <1>6
<1>7. QED
  BY <1>1, <1>2, <1>3, <1>5, <1>6

\* Every step of the ledger keeps its live rows finite and their numbers apart.
LEMMA LiveInvStep ==
  ASSUME LiveInv, CodeInv, LedgerStep
  PROVE  LiveInv'
<1>1. IsFiniteSet(rows')
  <2>1. PICK t \in Txn : rows' \in {rows, rows \cup pending[t]}
    BY RowsGrow
  <2>2. IsFiniteSet(rows) /\ IsFiniteSet(pending[t])
    BY DEF LiveInv
  <2>3. IsFiniteSet(rows \cup pending[t])
    BY <2>2, FS_Union
  <2>4. QED
    BY <2>1, <2>2, <2>3
<1>2. ASSUME NEW u \in Txn PROVE IsFiniteSet(pending'[u])
  <2>1. IsFiniteSet(pending[u])
    BY DEF LiveInv
  <2>2. IsFiniteSet(pending[u] \cup {draft[u]}) /\ IsFiniteSet({})
    BY <2>1, FS_EmptySet, FS_AddElement
  <2>3. pending'[u] \in {pending[u], {}, pending[u] \cup {draft[u]}}
    BY PendingStep
  <2>4. QED
    BY <2>1, <2>2, <2>3
<1>3. [Next]_vars /\ DOMAIN pending = Txn
  BY DEF LedgerStep, Next, CodeInv
<1>4. CASE Live' \subseteq Live
  BY <1>1, <1>2, <1>4 DEF LiveInv
<1>5. ASSUME NEW t \in Txn, InsertRow(t), Live' \subseteq Live \cup {draft[t]}
      PROVE  LiveInv'
  <2>1. draft[t].seq \in Nat \ {0}
    BY <1>5 DEF CodeInv, InsertRow, Goto, Made, IsRecord
  <2>2. \A r \in Live : r.seq # draft[t].seq
    BY <1>5, NumberIsNew
  <2>3. (\A r \in Live' : r.seq \in Nat \ {0}) /\ \A r, s \in Live' : r.seq = s.seq => r = s
    BY <1>5, <2>1, <2>2 DEF LiveInv
  <2>4. QED
    BY <1>1, <1>2, <2>3 DEF LiveInv
<1>6. QED
  BY <1>3, <1>4, <1>5, LiveStep

\* A draft that is about to be used was made by this step or before it.
LEMMA DraftStays ==
  ASSUME CodeInv, LedgerStep, NEW u \in Txn, pc'[u] \in {"insert", "file"}
  PROVE  \/ ReadLatest(u) /\ draft'[u] = NextRecord(u) /\ count' = count
         \/ /\ pc[u] \in {"insert", "file"} /\ draft'[u] = draft[u] /\ count'[u] = count[u]
            /\ pc'[u] = "insert" /\ link'[u] = "alive" => pc[u] = "insert" /\ link[u] = "alive"
<1> USE DEF CodeInv, Goto
<1>1. PICK t \in Txn : LedgerSteps(t)
  BY DEF LedgerStep, LedgerSteps
<1>2. CASE t # u
  <2>1. UNCHANGED <<draft[u], count[u], pc[u], link[u]>>
    BY <1>1, <1>2 DEF LedgerSteps, Begin, Step, CallAppend, AcquireLock, LockRaises, ReadLatest,
       InsertRow, AppendLine, AppendLineFails, Commit, CommitUnacknowledged, CommitTo, Rollback,
       StatementRaises, Fault, LockInterrupted, AppendInterrupted, LoseConnection,
       Crash, EndTransaction
  <2>2. QED
    BY <2>1
<1>3. CASE ReadLatest(u)
  BY <1>3 DEF ReadLatest
<1>4. CASE InsertRow(u)
  BY <1>4 DEF InsertRow
<1>5. CASE LoseConnection(u)
  <2>1. pc' = pc /\ draft' = draft /\ count' = count
    BY <1>5 DEF LoseConnection
  <2>2. link'[u] = "alive" => link[u] = "alive"
    BY <1>5 DEF LoseConnection
  <2>3. QED
    BY <2>1, <2>2
<1>6. CASE Begin(u) \/ CallAppend(u) \/ AcquireLock(u) \/ LockRaises(u)
             \/ LockInterrupted(u) \/ AppendInterrupted(u) \/ AppendLine(u)
             \/ AppendLineFails(u) \/ Commit(u) \/ CommitUnacknowledged(u) \/ Rollback(u)
             \/ StatementRaises(u) \/ Crash(u)
  <2>1. pc'[u] \notin {"insert", "file"}
    BY <1>6 DEF Begin, CallAppend, AcquireLock, LockRaises, LockInterrupted,
       AppendInterrupted, AppendLine, AppendLineFails, Commit, CommitUnacknowledged, CommitTo, Rollback, StatementRaises, Crash
  <2>2. QED
    BY <2>1
<1>7. QED
  BY <1>1, <1>2, <1>3, <1>4, <1>5, <1>6 DEF LedgerSteps, Step, Fault

\* Every step of the ledger keeps its code's state in shape.
LEMMA CodeInvStep ==
  ASSUME LiveInv, CodeInv, LedgerStep
  PROVE  CodeInv'
<1>1. PICK t \in Txn : LedgerSteps(t)
  BY DEF LedgerStep, LedgerSteps
<1>2. pc' \in [Txn -> {"idle"} \cup Running \cup Ended]
  BY <1>1 DEF CodeInv, LedgerSteps, Begin, Step, CallAppend, AcquireLock, LockRaises, ReadLatest,
     InsertRow, AppendLine, AppendLineFails, Commit, CommitUnacknowledged, CommitTo, Rollback,
     StatementRaises, Fault, LockInterrupted, AppendInterrupted, LoseConnection, Crash,
     Goto, Running, Ended
<1>3. /\ count' \in [Txn -> Nat]
      /\ \A u \in Txn : pc'[u] \in Appending \cup {"file"} => count'[u] >= 1
  <2>1. \A u \in Txn : count[u] \in Nat /\ (pc[u] \in Appending \cup {"file"} => count[u] >= 1)
    BY DEF CodeInv
  <2>2. CASE CallAppend(t)
    BY <2>1, <2>2 DEF CallAppend, Goto, CodeInv
  <2>3. CASE AppendInterrupted(t)
    <3>1. /\ pc[t] \in Appending /\ pc'[t] = "open"
          /\ \A u \in Txn \ {t} : pc'[u] = pc[u] /\ count'[u] = count[u]
          /\ count' = [count EXCEPT ![t] = @ - 1]
      BY <2>3 DEF AppendInterrupted, CodeInv, Appending
    <3>2. count[t] - 1 \in Nat
      BY <2>1, <3>1
    <3>3. count' \in [Txn -> Nat]
      <4>1. count \in [Txn -> Nat]
        BY DEF CodeInv
      <4>2. QED
        BY ONLY <3>1, <3>2, <4>1
    <3>4. QED
      BY <2>1, <3>1, <3>3 DEF Appending
  <2>4. CASE ~CallAppend(t) /\ ~AppendInterrupted(t)
    <3>1. count' = count
      BY <1>1, <2>4 DEF LedgerSteps, Begin, Step, AcquireLock, LockRaises, ReadLatest, InsertRow,
         AppendLine, AppendLineFails, Commit, CommitUnacknowledged, CommitTo, Rollback,
         StatementRaises, Fault, LockInterrupted, LoseConnection, Crash
    <3>2. \A u \in Txn : pc'[u] \in Appending \cup {"file"} => pc[u] \in Appending \cup {"file"}
      BY <1>1, <2>4 DEF LedgerSteps, Begin, Step, AcquireLock, LockRaises, ReadLatest, InsertRow,
         AppendLine, AppendLineFails, Commit, CommitUnacknowledged, CommitTo, Rollback,
         StatementRaises, Fault, LockInterrupted, LoseConnection, Crash, Goto, Appending, CodeInv
    <3>3. QED
      BY <2>1, <3>1, <3>2 DEF CodeInv
  <2>5. QED
    BY <2>2, <2>3, <2>4
<1>4. DOMAIN draft' = Txn /\ DOMAIN link' = Txn
  BY <1>1 DEF CodeInv, LedgerSteps, Begin, Step, CallAppend, AcquireLock, LockRaises, ReadLatest,
     InsertRow, AppendLine, AppendLineFails, Commit, CommitUnacknowledged, CommitTo, Rollback,
     StatementRaises, Fault, LockInterrupted, AppendInterrupted, LoseConnection, Crash,
     EndTransaction
<1>5. DOMAIN pending' = Txn
  BY PendingStep, <1>1
<1>6. DOMAIN file' = Host /\ \A h \in Host : file'[h] \in Seq(Lines(file'[h]))
  BY FileGrows, AuditorAssumption
<1>7. ASSUME NEW u \in Txn, pc'[u] \in {"insert", "file"}
      PROVE  Made(draft'[u]) /\ draft'[u].body = BodyOf(u)'
  <2>1. CASE ReadLatest(u) /\ draft'[u] = NextRecord(u) /\ count' = count
    BY <2>1, NextMade DEF BodyOf
  <2>2. CASE pc[u] \in {"insert", "file"} /\ draft'[u] = draft[u] /\ count'[u] = count[u]
    BY <2>2 DEF CodeInv, BodyOf
  <2>3. QED
    BY <1>7, <2>1, <2>2, DraftStays
<1>8. QED
  BY <1>2, <1>3, <1>4, <1>5, <1>6, <1>7 DEF CodeInv

\* What is new among rows and lines is a draft.
LEMMA NewAreDrafts ==
  ASSUME CodeInv, LedgerStep
  PROVE  /\ Ledger \subseteq Ledger'
         /\ \A r \in Live' : r \in Live \/ \E t \in Txn : r = draft[t] /\ InsertRow(t)
         /\ \A r \in Ledger' : r \in Ledger \/ \E t \in Txn : r = draft[t] /\ AppendLine(t)
         /\ \A t \in Txn : InsertRow(t) \/ AppendLine(t) =>
              /\ pc[t] \in Appending \cup {"file"}
              /\ Made(draft[t]) /\ draft[t].body = <<t, count[t]>>
<1>1. [Next]_vars /\ DOMAIN pending = Txn
  BY DEF LedgerStep, Next, CodeInv
<1>2. Ledger \subseteq Ledger'
      /\ \A r \in Ledger' : r \in Ledger \/ \E t \in Txn : r = draft[t] /\ AppendLine(t)
  BY FileGrows, AuditorAssumption DEF Ledger
<1>3. \A t \in Txn : InsertRow(t) \/ AppendLine(t) => pc[t] \in {"insert", "file"}
  BY DEF InsertRow, AppendLine, Goto
<1>4. QED
  BY <1>1, <1>2, <1>3, LiveStep DEF CodeInv, BodyOf, Appending

\* Every step of the ledger adds records only.
LEMMA SoundInvStep ==
  ASSUME SoundInv, CodeInv, LedgerStep
  PROVE  SoundInv'
<1>1. damage' = damage
  BY DEF LedgerStep
<1>2. QED
  BY <1>1, NewAreDrafts DEF SoundInv

\* Every step of an undamaged ledger is one of AuditLedger.
LEMMA IntactInvStep ==
  ASSUME IntactInv, CodeInv, LedgerStep
  PROVE  IntactInv'
<1>1. damage' = damage /\ [Next]_vars
  BY DEF LedgerStep, Next
<1> SUFFICES ASSUME damage = NoDamage PROVE IntactInv'
  BY <1>1 DEF IntactInv
<1>2. FInv'
  BY <1>1, FInvStep DEF IntactInv
<1>3. \A r \in Live' \cup Ledger' : r.body[2] >= 1
  BY NewAreDrafts DEF IntactInv, CodeInv
<1>4. QED
  BY <1>2, <1>3 DEF IntactInv

\* A chain stays one when rows are added.
LEMMA LinkedStays ==
  ASSUME NEW R, NEW S, R \subseteq S, NEW k, Linked(R, k)
  PROVE  Linked(S, k)
BY DEF Linked

\* A record linked to a row stays linked when rows are added.
LEMMA ContinuesStays ==
  ASSUME NEW R, NEW S, R \subseteq S, NEW d, Continues(d, R)
  PROVE  Continues(d, S)
BY DEF Continues

\* A transaction that is over stays over.
LEMMA OverStays ==
  ASSUME CodeInv, LedgerStep, NEW u \in Txn, pc[u] \in {"committed", "unacked"}
  PROVE  pc'[u] = pc[u]
<1>1. PICK t \in Txn : LedgerSteps(t)
  BY DEF LedgerStep, LedgerSteps
<1>2. QED
  BY <1>1 DEF CodeInv, LedgerSteps, Begin, Step, CallAppend, AcquireLock, LockRaises, ReadLatest,
     InsertRow, AppendLine, AppendLineFails, Commit, CommitUnacknowledged, CommitTo, Rollback,
     StatementRaises, Fault, LockInterrupted, AppendInterrupted, LoseConnection, Crash,
     Goto, Running, Refused

\* The writer of a record is a transaction.
LEMMA MadeBy ==
  ASSUME NEW r, Made(r)
  PROVE  Writer(r) \in Txn /\ r.seq \in Nat \ {0} /\ IsRecord(r)
BY DEF Made, IsRecord, Body, Writer

\* A draft that is inserted or filed is a record of its transaction's append.
LEMMA DraftFacts ==
  ASSUME CodeInv, NEW t \in Txn, InsertRow(t) \/ AppendLine(t)
  PROVE  /\ Made(draft[t]) /\ draft[t].body = <<t, count[t]>> /\ Writer(draft[t]) = t
         /\ count[t] \in Nat /\ pc[t] \in {"insert", "file"}
<1>1. pc[t] \in {"insert", "file"}
  BY DEF InsertRow, AppendLine, Goto
<1>2. Made(draft[t]) /\ draft[t].body = <<t, count[t]>> /\ count[t] \in Nat
  BY <1>1 DEF CodeInv, BodyOf
<1>3. Writer(draft[t]) = t
  BY <1>2 DEF Writer
<1>4. QED
  BY <1>1, <1>2, <1>3

\* A row that comes to life is inserted, a line that is new is appended.
LEMMA NewLive ==
  ASSUME CodeInv, LedgerStep, NEW r \in Live', r \notin Live
  PROVE  \E t \in Txn : r = draft[t] /\ InsertRow(t)
BY NewAreDrafts

\* A line that is new is a draft that is appended.
LEMMA NewLine ==
  ASSUME CodeInv, LedgerStep, NEW r \in Ledger', r \notin Ledger
  PROVE  \E t \in Txn : r = draft[t] /\ AppendLine(t)
BY NewAreDrafts

\* An append leaves a deleted row deleted: its writer is over.
LEMMA DeletedInvStep ==
  ASSUME DeletedInv, CodeInv, LedgerStep
  PROVE  DeletedInv'
<1>1. damage' = damage /\ Victim' = Victim
  BY DEF LedgerStep, Victim
<1> SUFFICES ASSUME damage.kind = "row_deleted" PROVE DeletedInv'
  BY <1>1 DEF DeletedInv
<1>2. Made(Victim) /\ Victim \notin Live /\ pc[Writer(Victim)] \in {"committed", "unacked"}
      /\ (Unshared(Victim) \/ Victim \in Ledger)
  BY DEF DeletedInv
<1>3. Writer(Victim) \in Txn
  BY <1>2, MadeBy
<1>4. pc'[Writer(Victim)] \in {"committed", "unacked"}
  BY <1>2, <1>3, OverStays
<1>5. ASSUME NEW t \in Txn, InsertRow(t), Victim = draft[t] PROVE FALSE
  <2>1. Writer(draft[t]) = t /\ pc[t] \in {"insert", "file"}
    BY <1>5, DraftFacts
  <2>2. QED
    BY <1>2, <1>5, <2>1
<1>6. Victim \notin Live'
  BY <1>2, <1>5, NewLive
<1>7. unfiled \subseteq unfiled'
  <2>1. PICK t \in Txn : LedgerSteps(t)
    BY DEF LedgerStep, LedgerSteps
  <2>2. QED
    BY <2>1 DEF LedgerSteps, Begin, Step, CallAppend, AcquireLock, LockRaises, ReadLatest,
       InsertRow, AppendLine, AppendLineFails, Commit, CommitUnacknowledged, CommitTo, Rollback,
       StatementRaises, Fault, LockInterrupted, AppendInterrupted, LoseConnection, Crash
<1>8. Unshared(Victim)' \/ Victim \in Ledger'
  BY <1>1, <1>2, <1>7, NewAreDrafts DEF Unshared
<1>9. QED
  BY <1>1, <1>2, <1>4, <1>6, <1>8 DEF DeletedInv

\* What fills a gap was made before it; a new draft continues beyond.
LEMMA GapInvStep ==
  ASSUME GapInv, DeletedInv, LiveInv, CodeInv, LedgerStep
  PROVE  GapInv'
<1>1. damage' = damage /\ Victim' = Victim
  BY DEF LedgerStep, Victim
<1> SUFFICES ASSUME damage.kind = "row_deleted", damage.inner PROVE GapInv'
  BY <1>1 DEF GapInv
<1> DEFINE k == Victim.seq
           g == Victim.hash
<1>2. /\ Linked(rows, k - 1) /\ (\E s \in rows : s.seq = k + 1 /\ s.prev = g)
      /\ (\A q \in Live : q.seq = k => Continues(q, rows))
      /\ \A t \in Txn : pc[t] = "insert" /\ link[t] = "alive" /\ draft[t].seq = k =>
           Continues(draft[t], rows)
  BY DEF GapInv
<1>3. k \in Nat
  BY MadeBy DEF DeletedInv
<1>4. Victim'.seq = k /\ Victim'.hash = g
  BY <1>1
<1> HIDE DEF k, g
<1>5. Linked(rows', k - 1) /\ \E s \in rows' : s.seq = k + 1 /\ s.prev = g
  BY <1>2, RowsGrow, LinkedStays
<1>6. ASSUME NEW d, Continues(d, rows) PROVE Continues(d, rows')
  BY <1>6, RowsGrow, ContinuesStays
<1>7. ASSUME NEW t \in Txn, InsertRow(t), draft[t].seq = k PROVE Continues(draft[t], rows)
  BY <1>2, <1>7 DEF InsertRow, Goto
<1>8. \A q \in Live' : q.seq = k => Continues(q, rows')
  BY <1>2, <1>6, <1>7, NewLive
<1>9. ASSUME NEW t \in Txn, pc'[t] = "insert", link'[t] = "alive", draft'[t].seq = k
      PROVE  Continues(draft'[t], rows')
  <2>1. CASE draft'[t] = NextRecord(t)
    <3> DEFINE n == NextRecord(t).seq
    <3>1. PICK s \in rows : s.seq = k + 1
      BY <1>2
    <3>2. s.seq < n /\ n \in Nat
      BY NextMade, MadeBy DEF Visible
    <3>3. draft'[t].seq = n
      BY <2>1
    <3> HIDE DEF n
    <3>4. k + 1 < n /\ n \in Nat
      BY <3>1, <3>2
    <3>5. \A a, b \in Nat : a + 1 < b => b # a
      OBVIOUS
    <3>6. n # k
      BY <1>3, <3>4, <3>5
    <3>7. QED
      BY <1>9, <3>3, <3>6
  <2>2. CASE pc[t] = "insert" /\ link[t] = "alive" /\ draft'[t] = draft[t]
    BY <1>2, <1>6, <1>9, <2>2
  <2>3. QED
    BY <1>9, <2>1, <2>2, DraftStays
<1>10. QED
  BY <1>4, <1>5, <1>8, <1>9 DEF GapInv

\* No append writes a deleted line of a row again: its number is past.
LEMMA LineGoneInvStep ==
  ASSUME LineGoneInv, CodeInv, LedgerStep
  PROVE  LineGoneInv'
<1>1. damage' = damage /\ Victim' = Victim /\ [Next]_vars
  BY DEF LedgerStep, Victim, Next
<1> SUFFICES ASSUME damage.kind = "line_deleted" PROVE LineGoneInv'
  BY <1>1 DEF LineGoneInv
<1>2. PICK v : v = Victim
  OBVIOUS
<1>3. Made(v) /\ (v \in Live => v \notin Ledger) /\ Past(v)
  BY <1>2 DEF LineGoneInv
<1>4. Writer(v) \in Txn /\ IsRecord(v)
  BY <1>3, MadeBy
<1>5. Past(v)'
  BY <1>1, <1>3, <1>4, PastStays DEF CodeInv
<1>6. ASSUME NEW t \in Txn, InsertRow(t) \/ AppendLine(t), v = draft[t] PROVE FALSE
  <2>1. /\ v.body = <<t, count[t]>> /\ Writer(v) = t
        /\ pc[t] \in {"insert", "file"} /\ count[t] \in Nat
    BY <1>6, DraftFacts
  <2>2. v.body[2] < count[t] /\ v.body[2] = count[t]
    BY <1>3, <2>1 DEF Past, Appending
  <2>3. PICK n \in Nat : n = count[t]
    BY <2>1
  <2>4. n < n
    BY <2>2, <2>3
  <2>5. QED
    BY <2>4
<1>7. v \in Live' => v \in Live
  BY <1>6, NewLive
<1>8. v \in Ledger' => v \in Ledger
  BY <1>6, NewLine
<1>9. Victim' = v
  BY <1>1, <1>2
<1>10. QED
  BY <1>3, <1>5, <1>7, <1>8, <1>9 DEF LineGoneInv

\* What the damage left behind is left alone by every step of the ledger.
LEMMA DamageInvStep ==
  ASSUME DamageInv, LiveInv, CodeInv, LedgerStep
  PROVE  DamageInv'
<1>1. damage' = damage /\ Victim' = Victim
  BY DEF LedgerStep, Victim
<1>2. rows \subseteq rows' /\ Ledger \subseteq Ledger'
  BY RowsGrow, NewAreDrafts
<1>3. EditedInv'
  <2> SUFFICES ASSUME damage.kind = "row_edited" PROVE EditedInv'
    BY <1>1 DEF EditedInv
  <2>1. IsRecord(Victim) /\ Victim.body[2] >= 1 /\ Altered(Victim) \in rows
        /\ Linked(rows, Victim.seq - 1)
    BY DEF EditedInv, DamageInv
  <2>2. PICK k : k = Victim.seq - 1
    OBVIOUS
  <2>3. Linked(rows', k)
    BY <1>2, <2>1, <2>2, LinkedStays
  <2>4. QED
    BY <1>1, <1>2, <2>1, <2>2, <2>3 DEF EditedInv
<1>4. InjectedInv'
  <2> SUFFICES ASSUME damage.kind = "row_injected" PROVE InjectedInv'
    BY <1>1 DEF InjectedInv
  <2>1. Victim \in rows /\ Victim.hash = Genesis /\ Linked(rows, Victim.seq - 1)
    BY DEF InjectedInv, DamageInv
  <2>2. PICK k : k = Victim.seq - 1
    OBVIOUS
  <2>3. Linked(rows', k)
    BY <1>2, <2>1, <2>2, LinkedStays
  <2>4. QED
    BY <1>1, <1>2, <2>1, <2>2, <2>3 DEF InjectedInv
<1>5. DeletedInv' /\ GapInv' /\ LineGoneInv'
  BY DeletedInvStep, GapInvStep, LineGoneInvStep DEF DamageInv
<1>6. LineBadInv'
  BY <1>1, <1>2 DEF LineBadInv, DamageInv
<1>7. LineGapInv'
  <2> SUFFICES ASSUME damage.kind = "line_deleted", damage.inner PROVE LineGapInv'
    BY <1>1 DEF LineGapInv
  <2>1. PICK s \in rows \cap Ledger : Victim.seq < s.seq /\ Linked(rows, s.seq)
    BY DEF LineGapInv, DamageInv
  <2>2. Victim \in rows' /\ s \in rows' \cap Ledger' /\ Linked(rows', s.seq)
    BY <1>2, <2>1, LinkedStays DEF LineGapInv, DamageInv
  <2>3. QED
    BY <1>1, <2>1, <2>2 DEF LineGapInv
<1>8. damage'.kind \in Damages \cup {"none"} /\ (damage'.kind = "none" => damage' = NoDamage)
  BY <1>1 DEF DamageInv
<1>9. QED
  BY <1>3, <1>4, <1>5, <1>6, <1>7, <1>8 DEF DamageInv

\* What was read is compared with a table and a file that only grow.
LEMMA HistoryStep ==
  ASSUME ReadInv, LongInv, GenuineInv, QuietInv, DamageLocated, CodeInv, LedgerStep
  PROVE  ReadInv' /\ LongInv' /\ GenuineInv' /\ QuietInv' /\ DamageLocated'
<1>1. vpc # "done" /\ damage' = damage
      /\ UNCHANGED <<vpc, table, lines, table2, lines2>>
      /\ genuine' = genuine \cup (rows' \ rows)
      /\ quiet' = (quiet /\ (vpc = "idle" \/ UNCHANGED <<rows, file>>))
  BY DEF LedgerStep, checkVars
<1>2. rows \subseteq rows'
  BY RowsGrow
<1>3. ReadInv'
  BY <1>1, <1>2 DEF ReadInv
<1>4. LongInv'
  <2>1. file[Auditor] \in Seq(Ledger) /\ file'[Auditor] \in Seq(Ledger')
        /\ Len(file[Auditor]) <= Len(file'[Auditor])
    BY FileGrows, AuditorAssumption DEF Ledger, CodeInv
  <2>2. Len(file[Auditor]) \in Nat /\ Len(file'[Auditor]) \in Nat
    BY <2>1
  <2>3. ASSUME NEW s \in {lines, lines2}
        PROVE  s \in Seq(ToSet(s)) /\ Len(s) <= Len(file'[Auditor]) + Gone
    <3>1. s \in Seq(ToSet(s)) /\ Len(s) <= Len(file[Auditor]) + Gone
      BY DEF LongInv
    <3>2. Len(s) \in Nat /\ Gone \in Nat
      BY <3>1 DEF Gone
    <3>3. QED
      BY <2>1, <2>2, <3>1, <3>2
  <2>4. QED
    BY <1>1, <2>3 DEF LongInv, Gone
<1>5. GenuineInv'
  BY <1>1, <1>2 DEF GenuineInv
<1>6. QuietInv'
  BY <1>1 DEF QuietInv
<1>7. DamageLocated'
  BY <1>1 DEF DamageLocated
<1>8. QED
  BY <1>3, <1>4, <1>5, <1>6, <1>7

-----------------------------------------------------------------------------
(* The reads of the request.                                               *)

\* Where table, files and damage stay, what is known of them does.
LEMMA Untouched ==
  ASSUME LiveInv, CodeInv, SoundInv, IntactInv, DamageInv, GenuineInv,
         UNCHANGED <<vars, genuine, damage>>
  PROVE  LiveInv' /\ CodeInv' /\ SoundInv' /\ IntactInv' /\ DamageInv' /\ GenuineInv'
<1>1. UNCHANGED <<rows, pending, link, pc, draft, count, file, unfiled, genuine, damage>>
  BY DEF vars
<1>2. Live' = Live /\ Ledger' = Ledger /\ Victim' = Victim
  BY <1>1 DEF Live, Ledger, Lines, Victim
<1>3. LiveInv' /\ CodeInv' /\ SoundInv'
  BY <1>1, <1>2 DEF LiveInv, CodeInv, SoundInv, BodyOf, Lines
<1>4. IntactInv'
  BY <1>1, <1>2, FInvStep DEF IntactInv
<1>5. EditedInv' /\ InjectedInv' /\ DeletedInv' /\ GapInv'
  BY <1>1, <1>2 DEF DamageInv, EditedInv, InjectedInv, DeletedInv, GapInv, Unshared
<1>6. LineBadInv' /\ LineGoneInv' /\ LineGapInv'
  BY <1>1, <1>2 DEF DamageInv, LineBadInv, LineGoneInv, LineGapInv, Past
<1>7. DamageInv'
  BY <1>1, <1>5, <1>6 DEF DamageInv
<1>8. GenuineInv'
  BY <1>1 DEF GenuineInv
<1>9. QED
  BY <1>3, <1>4, <1>7, <1>8

\* The table as it is read: every row, in strict order.
LEMMA TableRead ==
  ASSUME LiveInv
  PROVE  /\ Numbered(rows) /\ InOrder(rows) \in Listings(rows) /\ Ascending(InOrder(rows))
         /\ InOrder(rows) \in Seq(ToSet(InOrder(rows))) /\ ToSet(InOrder(rows)) = rows
<1>1. Numbered(rows) /\ IsFiniteSet(rows)
  BY SeenNumbered DEF Numbered
<1>2. InOrder(rows) \in Listings(rows) /\ Ascending(InOrder(rows))
  BY <1>1, OrderExists
<1> DEFINE s == InOrder(rows)
<1> HIDE DEF s
<1>3. s \in Seq(rows) /\ ToSet(s) = rows
  BY <1>1, <1>2, ListingFacts DEF s
<1>4. QED
  BY <1>1, <1>2, <1>3 DEF s

\* The first read of the table finds the damage done to it.
LEMMA TableDamageFound ==
  ASSUME LiveInv, SoundInv, DamageInv
  PROVE  LET tampered == ChainCheck(InOrder(rows)).tampered
         IN  /\ damage.kind \in {"row_edited", "row_injected"} => tampered = Victim.seq
             /\ damage.kind = "row_deleted" /\ damage.inner => tampered = Victim.seq + 1
<1> DEFINE tampered == ChainCheck(InOrder(rows)).tampered
<1>1. Numbered(rows)
  BY TableRead
<1>2. ASSUME damage.kind = "row_edited" PROVE tampered = Victim.seq
  <2>1. IsRecord(Victim) /\ Victim.body[2] >= 1 /\ Altered(Victim) \in rows
        /\ Linked(rows, Victim.seq - 1)
    BY <1>2 DEF EditedInv, DamageInv
  <2>2. PICK r \in rows : r = Altered(Victim)
    BY <2>1
  <2>3. r.seq = Victim.seq /\ r.hash # Digest(r.seq, r.prev, r.body)
    BY <2>1, <2>2, AlteredFails
  <2>4. tampered = r.seq
    BY <1>1, <2>1, <2>3, TamperedAt
  <2>5. QED
    BY <2>3, <2>4
<1>3. ASSUME damage.kind = "row_injected" PROVE tampered = Victim.seq
  <2>1. Victim \in rows /\ Victim.hash = Genesis /\ Linked(rows, Victim.seq - 1)
    BY <1>3 DEF InjectedInv, DamageInv
  <2>2. Victim.hash # Digest(Victim.seq, Victim.prev, Victim.body)
    BY <2>1 DEF Genesis, Digest
  <2>3. QED
    BY <1>1, <2>1, <2>2, TamperedAt
<1>4. ASSUME damage.kind = "row_deleted", damage.inner PROVE tampered = Victim.seq + 1
  <2>1. /\ Linked(rows, Victim.seq - 1) /\ Made(Victim) /\ Victim \notin Live
        /\ \A q \in Live : q.seq = Victim.seq => Continues(q, rows)
    BY <1>4 DEF GapInv, DeletedInv, DamageInv
  <2>2. PICK s \in rows : s.seq = Victim.seq + 1 /\ s.prev = Victim.hash
    BY <1>4 DEF GapInv, DamageInv
  <2>3. Victim.seq \in Nat \ {0}
    BY <2>1, MadeBy
  <2>4. CASE \A q \in rows : q.seq # Victim.seq
    BY <1>1, <2>1, <2>2, <2>3, <2>4, GapAt
  <2>5. ASSUME NEW q \in rows, q.seq = Victim.seq PROVE tampered = Victim.seq + 1
    <3>1. q \in Live /\ Made(q) /\ Continues(q, rows)
      BY <1>4, <2>1, <2>5 DEF SoundInv, Live
    <3>2. q.hash # Victim.hash
      BY <2>1, <3>1, SameHash
    <3>3. Linked(rows, Victim.seq)
      <4>1. PICK k \in Nat \ {0} : k = Victim.seq
        BY <2>3
      <4>2. IsRecord(q) /\ q.seq = k /\ Continues(q, rows)
        BY <2>5, <3>1, <4>1 DEF Made
      <4>3. \A n \in 1..k : n \in 1..(k - 1) \/ n = k
        BY <4>1
      <4>4. Linked(rows, k - 1)
        BY <2>1, <4>1
      <4>5. Linked(rows, k)
        BY <4>2, <4>3, <4>4 DEF Linked, Continues
      <4>6. QED
        BY <4>1, <4>5
    <3>4. QED
      BY <1>1, <2>2, <2>3, <2>5, <3>2, <3>3, FilledGapAt
  <2>6. QED
    BY <2>4, <2>5
<1>5. QED
  BY <1>2, <1>3, <1>4

\* The read of the file finds the damage done to it.
LEMMA FileDamageFound ==
  ASSUME LiveInv, CodeInv, SoundInv, DamageInv
  PROVE  \/ ~FileCheck(file[Auditor]).verified
         \/ damage.kind \notin {"line_edited", "line_unreadable", "line_deleted"}
         \/ damage.kind = "line_deleted" /\ ~damage.inner
<1> DEFINE f == file[Auditor]
<1>1. f \in Seq(Ledger) /\ Ledger = {f[i] : i \in DOMAIN f}
  BY AuditorAssumption DEF CodeInv, Ledger, Lines
<1> HIDE DEF f
<1>2. ASSUME damage.kind \in {"line_edited", "line_unreadable"} PROVE ~FileCheck(f).verified
  <2>1. PICK r \in Ledger : r = Unreadable \/ r.hash # Digest(r.seq, r.prev, r.body)
    BY <1>2 DEF LineBadInv, DamageInv
  <2>2. PICK i \in DOMAIN f : f[i] = r
    BY <1>1
  <2>3. QED
    BY <1>1, <2>1, <2>2, BadLine
<1>3. ASSUME damage.kind = "line_deleted", damage.inner, FileCheck(f).verified PROVE FALSE
  <2>1. (\A r \in rows : Made(r)) /\ \A r \in Ledger : Made(r)
    BY <1>3 DEF SoundInv, Live
  <2>2. \A i \in DOMAIN f : Made(f[i])
    BY <1>1, <2>1
  <2>3. PICK x \in rows \cap Ledger : Victim.seq < x.seq /\ Linked(rows, x.seq)
    BY <1>3 DEF LineGapInv, DamageInv
  <2>4. Victim \in rows /\ Victim \notin Ledger
    BY <1>3 DEF LineGapInv, LineGoneInv, DamageInv, Live
  <2>5. PICK y \in rows : y = Victim
    BY <2>4
  <2>6. PICK k \in DOMAIN f : f[k] = x
    BY <1>1, <2>3
  <2>7. Numbered(rows) /\ y.seq <= x.seq
    BY <2>3, <2>5, TableRead DEF Numbered
  <2>8. \E i \in DOMAIN f : f[i] = y
    BY <1>1, <1>3, <2>1, <2>2, <2>3, <2>6, <2>7, FileChain
  <2>9. QED
    BY <1>1, <2>4, <2>5, <2>8
<1>4. QED
  BY <1>2, <1>3 DEF f

\* Every read of the request keeps the invariant.
LEMMA ReadTableStep == VInv /\ ReadTable => VInv'
<1> SUFFICES ASSUME VInv, ReadTable PROVE VInv'
  OBVIOUS
<1>1. /\ LiveInv /\ CodeInv /\ SoundInv /\ IntactInv /\ DamageInv /\ GenuineInv
      /\ ReadInv /\ LongInv /\ QuietInv /\ DamageLocated
  BY DEF VInv
<1>2. /\ UNCHANGED <<vars, genuine, damage, lines, table2, lines2, quiet, rows, file>>
      /\ vpc = "idle" /\ vpc' = "file" /\ table' = InOrder(rows)
  BY DEF ReadTable, CheckAt, vars
<1>3. LiveInv' /\ CodeInv' /\ SoundInv' /\ IntactInv' /\ DamageInv' /\ GenuineInv'
  BY <1>1, <1>2, Untouched
<1>4. table' \in Seq(ToSet(table')) /\ Ascending(table')
  BY <1>1, <1>2, TableRead
<1>5. ReadInv' /\ LongInv' /\ QuietInv'
  <2>1. ReadInv'
    BY <1>1, <1>2, <1>4 DEF ReadInv
  <2>2. LongInv'
    BY <1>1, <1>2 DEF LongInv, Gone
  <2>3. QuietInv'
    BY <1>2 DEF QuietInv
  <2>4. QED
    BY <2>1, <2>2, <2>3
<1>6. DamageLocated'
  BY <1>1, <1>2, TableDamageFound DEF DamageLocated, Victim
<1>7. QED
  BY <1>3, <1>5, <1>6 DEF VInv

\* The first read of the file sees whatever was damaged in it by then.
LEMMA ReadFileStep == VInv /\ ReadFile => VInv'
<1> SUFFICES ASSUME VInv, ReadFile PROVE VInv'
  OBVIOUS
<1>1. /\ LiveInv /\ CodeInv /\ SoundInv /\ IntactInv /\ DamageInv /\ GenuineInv
      /\ ReadInv /\ LongInv /\ QuietInv /\ DamageLocated
  BY DEF VInv
<1>2. /\ UNCHANGED <<vars, genuine, damage, table, table2, lines2, quiet, rows, file>>
      /\ vpc = "file" /\ vpc' = "again" /\ lines' = file[Auditor]
  BY DEF ReadFile, CheckAt, vars
<1>3. LiveInv' /\ CodeInv' /\ SoundInv' /\ IntactInv' /\ DamageInv' /\ GenuineInv'
  BY <1>1, <1>2, Untouched
<1>4. ReadInv'
  BY <1>1, <1>2 DEF ReadInv
<1>5. LongInv'
  <2>1. lines' \in Seq(ToSet(lines')) /\ Len(file[Auditor]) \in Nat
    BY <1>1, <1>2, AuditorAssumption DEF CodeInv, Lines, ToSet
  <2>2. Gone \in Nat /\ Gone' = Gone
    BY <1>2 DEF Gone
  <2>3. Len(lines') <= Len(file[Auditor]) + Gone
    BY <1>2, <2>1, <2>2
  <2>4. QED
    BY <1>1, <1>2, <2>1, <2>2, <2>3 DEF LongInv
<1>6. QuietInv'
  BY <1>1, <1>2 DEF QuietInv
<1>7. DamageLocated'
  BY <1>1, <1>2, FileDamageFound DEF DamageLocated
<1>8. QED
  BY <1>3, <1>4, <1>5, <1>6, <1>7 DEF VInv

\* The second read of the table sees rows only.
LEMMA ReadTableAgainStep == VInv /\ ReadTableAgain => VInv'
<1> SUFFICES ASSUME VInv, ReadTableAgain PROVE VInv'
  OBVIOUS
<1>1. /\ LiveInv /\ CodeInv /\ SoundInv /\ IntactInv /\ DamageInv /\ GenuineInv
      /\ ReadInv /\ LongInv /\ QuietInv /\ DamageLocated
  BY DEF VInv
<1>2. /\ UNCHANGED <<vars, genuine, damage, table, lines, lines2, quiet, rows, file>>
      /\ vpc = "again" /\ vpc' = "cross" /\ table2' = InOrder(rows)
  BY DEF ReadTableAgain, CheckAt, vars
<1>3. LiveInv' /\ CodeInv' /\ SoundInv' /\ IntactInv' /\ DamageInv' /\ GenuineInv'
  BY <1>1, <1>2, Untouched
<1>4. table2' \in Seq(ToSet(table2')) /\ Ascending(table2') /\ ToSet(table2') = rows
  BY <1>1, <1>2, TableRead
<1>5. ReadInv'
  BY <1>1, <1>2, <1>4 DEF ReadInv
<1>6. LongInv' /\ QuietInv'
  BY <1>1, <1>2 DEF LongInv, Gone, QuietInv
<1>7. DamageLocated'
  BY <1>1, <1>2 DEF DamageLocated
<1>8. QED
  BY <1>3, <1>5, <1>6, <1>7 DEF VInv

\* With the second read of the file the request is done, and nothing moves on.
LEMMA ReadFileAgainStep == VInv /\ ReadFileAgain => VInv'
<1> SUFFICES ASSUME VInv, ReadFileAgain PROVE VInv'
  OBVIOUS
<1>1. /\ LiveInv /\ CodeInv /\ SoundInv /\ IntactInv /\ DamageInv /\ GenuineInv
      /\ ReadInv /\ LongInv /\ QuietInv /\ DamageLocated
  BY DEF VInv
<1>2. /\ UNCHANGED <<vars, genuine, damage, table, lines, table2, quiet, rows, file>>
      /\ vpc = "cross" /\ vpc' = "done" /\ lines2' = file[Auditor]
  BY DEF ReadFileAgain, CheckAt, vars
<1>3. LiveInv' /\ CodeInv' /\ SoundInv' /\ IntactInv' /\ DamageInv' /\ GenuineInv'
  BY <1>1, <1>2, Untouched
<1>4. ReadInv'
  BY <1>1, <1>2 DEF ReadInv
<1>5. LongInv'
  <2>1. lines2' \in Seq(ToSet(lines2')) /\ Len(file[Auditor]) \in Nat
    BY <1>1, <1>2, AuditorAssumption DEF CodeInv, Lines, ToSet
  <2>2. Gone \in Nat /\ Gone' = Gone
    BY <1>2 DEF Gone
  <2>3. Len(lines2') <= Len(file[Auditor]) + Gone
    BY <1>2, <2>1, <2>2
  <2>4. QED
    BY <1>1, <1>2, <2>1, <2>2, <2>3 DEF LongInv
<1>6. QuietInv'
  BY <1>1, <1>2 DEF QuietInv
<1>7. DamageLocated'
  BY <1>1, <1>2 DEF DamageLocated
<1>8. QED
  BY <1>3, <1>4, <1>5, <1>6, <1>7 DEF VInv

-----------------------------------------------------------------------------
(* Damage.                                                                 *)

\* What an act of damage records, and what it leaves alone.
LEMMA DamagedFacts ==
  ASSUME NEW kind, NEW r, NEW inner, Damaged(kind, r, inner)
  PROVE  /\ damage = NoDamage /\ vpc # "done" /\ kind \in Damages /\ kind # "none"
         /\ damage'.kind = kind /\ Victim' = r /\ damage'.inner = inner /\ damage'.when = vpc
         /\ UNCHANGED <<pending, link, pc, draft, count, unfiled>>
         /\ UNCHANGED <<vpc, table, lines, table2, lines2, genuine>>
         /\ quiet' = (quiet /\ vpc = "idle")
BY DamagesAssumption DEF Damaged, DamageKinds, Victim, checkVars

\* Damage done between two reads concerns no read that was made before it.
LEMMA DamageStep ==
  ASSUME VInv, NEW kind, NEW r, NEW inner, Damaged(kind, r, inner), rows \ rows' \subseteq {r},
         LiveInv', CodeInv', SoundInv', DamageInv', LongInv'
  PROVE  VInv'
<1>1. /\ damage = NoDamage /\ vpc # "done" /\ kind # "none"
      /\ damage'.kind = kind /\ Victim' = r /\ damage'.when = vpc
      /\ UNCHANGED <<vpc, table, lines, table2, lines2, genuine>>
      /\ quiet' = (quiet /\ vpc = "idle")
  BY DamagedFacts
<1>2. damage' # NoDamage
  BY <1>1 DEF NoDamage
<1>3. IntactInv' /\ QuietInv'
  BY <1>2 DEF IntactInv, QuietInv
<1>4. ReadInv'
  BY <1>1 DEF ReadInv, VInv
<1>5. GenuineInv'
  BY <1>1, <1>2 DEF GenuineInv, VInv, Victim
<1>6. DamageLocated'
  BY <1>1 DEF DamageLocated
<1>7. QED
  BY <1>3, <1>4, <1>5, <1>6 DEF VInv

\* In an undamaged ledger a committed row stands for itself: it is a record,
\* in the place of its number, written by a transaction that is over and,
\* unless nobody could write it there, in its host's file.
LEMMA RowStands ==
  ASSUME FInv, NEW r \in rows
  PROVE  /\ IsRecord(r) /\ r.seq \in 1..Size /\ Size \in Nat
         /\ \A t \in Txn : r \notin pending[t]
         /\ pc[Writer(r)] \in {"committed", "unacked"}
         /\ Unshared(r) \/ r \in Ledger
<1>1. IsRecord(r) /\ r.seq \in Nat \ {0} /\ r \in Live
  BY DEF FInv, RInv, IInv, TypeOK, IsRecord, Live
<1>2. Size \in Nat
  BY FS_CardinalityType DEF FInv, RInv, TableInv, Size
<1>3. r.seq \in 1..Size
  BY <1>1 DEF FInv, RInv, TableInv
<1>4. \A t \in Txn : r \notin pending[t]
  <2>1. SUFFICES ASSUME NEW t \in Txn, r \in pending[t] PROVE FALSE
    OBVIOUS
  <2>2. r.seq < r.seq
    BY <2>1 DEF FInv, RInv, IInv, ChainInv
  <2>3. QED
    BY <1>1, <2>2
<1>5. pc[Writer(r)] \in {"committed", "unacked"}
  BY DEF FInv, RInv, OnceInv
<1>6. Unshared(r) \/ r \in Ledger
  BY <1>1, <1>5 DEF FInv, FiledInv, BeingFiled, Unshared, Ledger
<1>7. QED
  BY <1>1, <1>2, <1>3, <1>4, <1>5, <1>6

\* The rows up to a number are a chain, and stay one when others are damaged.
LEMMA PrefixLinked ==
  ASSUME FInv, NEW R, NEW k \in Int, k <= Size, \A q \in rows : q.seq <= k => q \in R
  PROVE  Linked(R, k)
<1> SUFFICES ASSUME NEW n \in 1..k
             PROVE  \E r \in R : /\ r.seq = n /\ IsRecord(r)
                                 /\ IF n = 1 THEN r.prev = Genesis
                                    ELSE \E q \in R : q.seq = n - 1 /\ r.prev = q.hash
  BY DEF Linked
<1>1. Size \in Nat
  BY FS_CardinalityType DEF FInv, RInv, TableInv, Size
<1>2. n \in 1..Size
  BY <1>1
<1>3. PICK r \in rows : r.seq = n
  BY <1>2 DEF FInv, RInv, TableInv
<1>4. IsRecord(r) /\ r \in R
  BY <1>3 DEF FInv, RInv, IInv, TypeOK
<1>5. IF n = 1 THEN r.prev = Genesis ELSE \E q \in rows : q.seq = n - 1 /\ r.prev = q.hash
  BY <1>3 DEF FInv, RInv, IInv, ChainInv, Good, ValidChain
<1>6. \A q \in rows : q.seq = n - 1 => q \in R
  OBVIOUS
<1>7. QED
  BY <1>3, <1>4, <1>5, <1>6

\* What an undamaged ledger gives: FInv, and records whose bodies count from one.
LEMMA Undamaged ==
  ASSUME VInv, damage = NoDamage
  PROVE  /\ LiveInv /\ CodeInv /\ LongInv /\ FInv
         /\ \A r \in Live : Made(r) /\ r.body[2] >= 1
         /\ \A r \in Ledger : Made(r) /\ r.body[2] >= 1
         /\ Gone = 0
BY DEF VInv, IntactInv, SoundInv, NoDamage, Gone

\* Damage to the table leaves the files and the code's state as they are.
LEMMA RowDamage ==
  ASSUME VInv, NEW kind, NEW r, NEW inner, Damaged(kind, r, inner), UNCHANGED file,
         kind \in {"row_edited", "row_deleted", "row_injected"}
  PROVE  /\ CodeInv' /\ LongInv' /\ Ledger' = Ledger
         /\ damage'.kind = kind /\ Victim' = r /\ damage'.inner = inner
         /\ LineBadInv' /\ LineGoneInv' /\ LineGapInv'
         /\ damage'.kind \in Damages \cup {"none"} /\ (damage'.kind = "none" => damage' = NoDamage)
         /\ \A q \in Ledger' : Made(q)
<1>1. /\ damage = NoDamage /\ kind \in Damages
      /\ damage'.kind = kind /\ Victim' = r /\ damage'.inner = inner
      /\ UNCHANGED <<pending, link, pc, draft, count, unfiled, lines, lines2>>
  BY DamagedFacts
<1>2. CodeInv /\ LongInv /\ Gone = 0 /\ \A q \in Ledger : Made(q)
  BY <1>1, Undamaged
<1>3. CodeInv' /\ Ledger' = Ledger
  BY <1>1, <1>2 DEF CodeInv, BodyOf, Lines, Ledger
<1>4. Gone' = 0
  BY <1>1 DEF Gone
<1>5. LongInv'
  BY <1>1, <1>2, <1>4 DEF LongInv
<1>6. LineBadInv' /\ LineGoneInv' /\ LineGapInv'
  BY <1>1 DEF LineBadInv, LineGoneInv, LineGapInv
<1>7. QED
  BY <1>1, <1>2, <1>3, <1>5, <1>6

\* An altered row keeps its number, and comes after the chain before it.
LEMMA EditRowStep == ASSUME VInv, NEW r \in rows, EditRow(r) PROVE VInv'
<1> DEFINE a == Altered(r)
<1>1. /\ Damaged("row_edited", r, Inner(r, rows)) /\ rows' = (rows \ {r}) \cup {a}
      /\ UNCHANGED file
  BY DEF EditRow
<1>2. damage = NoDamage /\ UNCHANGED pending
  BY <1>1, DamagedFacts
<1>3. LiveInv /\ FInv /\ r \in Live /\ \A q \in Live : Made(q) /\ q.body[2] >= 1
  BY <1>2, Undamaged DEF Live
<1>4. IsRecord(r) /\ r.seq \in 1..Size /\ Size \in Nat /\ \A t \in Txn : r \notin pending[t]
  BY <1>3, RowStands
<1>5. a.seq = r.seq
  BY <1>3, <1>4, AlteredFails
<1> HIDE DEF a
<1>6. Live' = (Live \ {r}) \cup {a}
  BY <1>1, <1>2, <1>4 DEF Live
<1>7. LiveInv'
  <2>1. IsFiniteSet(rows \ {r}) /\ IsFiniteSet(rows')
    <3>1. IsFiniteSet(rows)
      BY <1>3 DEF LiveInv
    <3>2. IsFiniteSet(rows \ {r})
      BY <3>1, FS_RemoveElement
    <3>3. IsFiniteSet((rows \ {r}) \cup {a})
      BY <3>2, FS_AddElement
    <3>4. QED
      BY <1>1, <3>2, <3>3
  <2>2. (\A q \in Live' : q.seq \in Nat \ {0}) /\ \A p, q \in Live' : p.seq = q.seq => p = q
    BY <1>3, <1>5, <1>6 DEF LiveInv
  <2>3. QED
    BY <1>2, <1>3, <2>1, <2>2 DEF LiveInv
<1>8. /\ CodeInv' /\ LongInv' /\ damage'.kind = "row_edited" /\ Victim' = r
      /\ LineBadInv' /\ LineGoneInv' /\ LineGapInv'
      /\ damage'.kind \in Damages \cup {"none"} /\ (damage'.kind = "none" => damage' = NoDamage)
      /\ \A q \in Ledger' : Made(q)
  BY <1>1, RowDamage
<1>9. SoundInv'
  BY <1>8 DEF SoundInv
<1>10. PICK k : k = r.seq - 1
  OBVIOUS
<1>11. Linked(rows', k)
  <2>1. k \in Int /\ k <= Size /\ k < r.seq
    BY <1>4, <1>10
  <2>2. \A q \in rows : q.seq <= k => q \in rows'
    BY <1>1, <1>4, <2>1
  <2>3. QED
    BY <1>3, <2>1, <2>2, PrefixLinked
<1>12. EditedInv'
  BY <1>1, <1>3, <1>4, <1>8, <1>10, <1>11 DEF EditedInv, a
<1>13. InjectedInv' /\ DeletedInv' /\ GapInv'
  BY <1>8 DEF InjectedInv, DeletedInv, GapInv
<1>14. DamageInv'
  BY <1>8, <1>12, <1>13 DEF DamageInv
<1>15. rows \ rows' \subseteq {r}
  BY <1>1
<1>16. QED
  BY <1>1, <1>7, <1>8, <1>9, <1>14, <1>15, DamageStep

\* A deleted row leaves a gap after a chain, and its line where it was written.
LEMMA DeleteRowStep == ASSUME VInv, NEW r \in rows, DeleteRow(r) PROVE VInv'
<1>1. /\ Damaged("row_deleted", r, Inner(r, rows)) /\ rows' = rows \ {r} /\ UNCHANGED file
  BY DEF DeleteRow
<1>2. damage = NoDamage /\ UNCHANGED <<pending, pc, link, draft, unfiled>>
  BY <1>1, DamagedFacts
<1>3. LiveInv /\ CodeInv /\ FInv /\ r \in Live /\ \A q \in Live : Made(q)
  BY <1>2, Undamaged DEF Live
<1>4. /\ IsRecord(r) /\ r.seq \in 1..Size /\ Size \in Nat /\ \A t \in Txn : r \notin pending[t]
      /\ pc[Writer(r)] \in {"committed", "unacked"} /\ (Unshared(r) \/ r \in Ledger)
  BY <1>3, RowStands
<1>5. Live' = Live \ {r}
  BY <1>1, <1>2, <1>4 DEF Live
<1>6. LiveInv'
  <2>1. IsFiniteSet(rows')
    BY <1>1, <1>3, FS_RemoveElement DEF LiveInv
  <2>2. QED
    BY <1>2, <1>3, <1>5, <2>1 DEF LiveInv
<1>7. /\ CodeInv' /\ LongInv' /\ damage'.kind = "row_deleted" /\ Victim' = r
      /\ damage'.inner = Inner(r, rows) /\ Ledger' = Ledger
      /\ LineBadInv' /\ LineGoneInv' /\ LineGapInv'
      /\ damage'.kind \in Damages \cup {"none"} /\ (damage'.kind = "none" => damage' = NoDamage)
      /\ \A q \in Ledger' : Made(q)
  BY <1>1, RowDamage
<1>8. SoundInv'
  BY <1>3, <1>5, <1>7 DEF SoundInv
<1>9. DeletedInv'
  BY <1>2, <1>3, <1>4, <1>5, <1>7 DEF DeletedInv, Unshared
<1>10. ASSUME Inner(r, rows)
       PROVE  /\ Linked(rows', r.seq - 1)
              /\ (\E s \in rows' : s.seq = r.seq + 1 /\ s.prev = r.hash)
              /\ (\A s \in Live' : s.seq # r.seq)
              /\ \A t \in Txn : pc'[t] = "insert" /\ link'[t] = "alive" /\ draft'[t].seq = r.seq =>
                   Continues(draft'[t], rows')
  <2>1. PICK k : k = r.seq - 1
    OBVIOUS
  <2>2. Linked(rows', k)
    <3>1. k \in Int /\ k <= Size /\ k < r.seq
      BY <1>4, <2>1
    <3>2. \A q \in rows : q.seq <= k => q \in rows'
      BY <1>1, <1>4, <3>1
    <3>3. QED
      BY <1>3, <3>1, <3>2, PrefixLinked
  <2>3. PICK s \in rows : r.seq < s.seq
    BY <1>10 DEF Inner
  <2>4. r.seq + 1 \in 1..Size
    <3>1. s.seq \in 1..Size
      BY <1>3, RowStands
    <3>2. QED
      BY <1>4, <2>3, <3>1
  <2>5. PICK q \in rows : q.seq = r.seq + 1
    BY <1>3, <2>4 DEF FInv, RInv, TableInv
  <2>6. q \in rows' /\ q.prev = r.hash
    <3>1. q.seq # 1 /\ q.seq - 1 = r.seq /\ q # r
      BY <1>4, <2>5
    <3>2. PICK p \in rows : p.seq = r.seq /\ q.prev = p.hash
      BY <3>1 , <1>3 DEF FInv, RInv, IInv, ChainInv, Good, ValidChain
    <3>3. p = r
      BY <1>3, <3>2 DEF FInv, RInv, IInv, ChainInv, Good, ValidChain
    <3>4. QED
      BY <1>1, <3>1, <3>2, <3>3
  <2>7. \A p \in Live' : p.seq # r.seq
    BY <1>3, <1>5 DEF LiveInv
  <2>8. ASSUME NEW t \in Txn, pc[t] = "insert", link[t] = "alive", draft[t].seq = r.seq
        PROVE  Continues(draft[t], rows')
    <3>1. CASE draft[t] = NextRecord(t)
      <4>1. r.seq < draft[t].seq
        BY <1>3, <3>1, NextMade DEF Visible
      <4>2. QED
        BY <1>4, <2>8, <4>1
    <3>2. CASE Stale(t)
      <4>1. Continues(draft[t], rows)
        BY <3>2 DEF Stale
      <4>2. \A x \in rows : x.seq = draft[t].seq - 1 => x \in rows'
        <5>1. r.seq # r.seq - 1
          BY <1>4
        <5>2. QED
          BY <1>1, <2>8, <5>1
      <4>3. QED
        BY <4>1, <4>2 DEF Continues
    <3>3. QED
      BY <1>3, <2>8, <3>1, <3>2 DEF FInv, RInv, IInv, DraftInv
  <2>9. QED
    BY <1>2, <2>1, <2>2, <2>5, <2>6, <2>7, <2>8
<1>11. GapInv'
  BY <1>7, <1>10 DEF GapInv
<1>12. EditedInv' /\ InjectedInv'
  BY <1>7 DEF EditedInv, InjectedInv
<1>13. DamageInv'
  BY <1>7, <1>9, <1>11, <1>12 DEF DamageInv
<1>14. rows \ rows' \subseteq {r}
  BY <1>1
<1>15. QED
  BY <1>1, <1>6, <1>7, <1>8, <1>13, <1>14, DamageStep

\* An injected row has a number that nobody has, after the whole table.
LEMMA InjectRowStep == ASSUME VInv, NEW t \in Txn, InjectRow(t) PROVE VInv'
<1> DEFINE n == Successor(rows, <<t, 0>>).seq
           r == [seq |-> n, prev |-> Genesis, body |-> <<t, 0>>, hash |-> Genesis]
<1>1. /\ Damaged("row_injected", r, FALSE) /\ rows' = rows \cup {r} /\ UNCHANGED file
      /\ \A u \in Txn : \A s \in pending[u] : s.seq # n
  BY DEF InjectRow
<1>2. damage = NoDamage /\ UNCHANGED pending
  BY <1>1, DamagedFacts
<1>3. LiveInv /\ FInv /\ \A q \in Live : Made(q)
  BY <1>2, Undamaged
<1>4. n \in Nat \ {0} /\ \A s \in rows : s.seq < n
  <2>1. <<t, 0>> \in Body /\ Good(rows)
    BY <1>3 DEF Body, FInv, RInv, IInv, ChainInv
  <2>2. QED
    BY <2>1, SuccessorIsRecord DEF IsRecord
<1>5. n - 1 <= Size
  <2>1. Size \in Nat
    BY <1>3, FS_CardinalityType DEF FInv, RInv, TableInv, Size
  <2>2. CASE rows = {}
    BY <2>1, <2>2 DEF Successor, Record
  <2>3. CASE rows # {}
    <3>1. LatestOf(rows) \in rows
      BY <1>3, <2>3, LatestIsHead DEF FInv, RInv, IInv, ChainInv
    <3>2. LatestOf(rows).seq \in 1..Size
      BY <1>3, <3>1, RowStands
    <3>3. n = LatestOf(rows).seq + 1
      BY <2>3 DEF Successor, Record
    <3>4. QED
      BY <2>1, <3>2, <3>3
  <2>4. QED
    BY <2>2, <2>3
<1>6. r.seq = n /\ r.hash = Genesis
  OBVIOUS
<1> HIDE DEF n, r
<1>7. Live' = Live \cup {r}
  BY <1>1, <1>2 DEF Live
<1>8. \A s \in Live : s.seq # n
  <2>1. \A s \in rows : s.seq \in Nat
    BY <1>3 DEF LiveInv, Live
  <2>2. \A s \in rows : s.seq # n
    BY <1>4, <2>1
  <2>3. QED
    BY <1>1, <2>2 DEF Live
<1>9. LiveInv'
  <2>1. IsFiniteSet(rows')
    BY <1>1, <1>3, FS_AddElement DEF LiveInv
  <2>2. (\A q \in Live' : q.seq \in Nat \ {0}) /\ \A p, q \in Live' : p.seq = q.seq => p = q
    BY <1>3, <1>4, <1>6, <1>7, <1>8 DEF LiveInv
  <2>3. QED
    BY <1>2, <1>3, <2>1, <2>2 DEF LiveInv
<1>10. /\ CodeInv' /\ LongInv' /\ damage'.kind = "row_injected" /\ Victim' = r
       /\ LineBadInv' /\ LineGoneInv' /\ LineGapInv'
       /\ damage'.kind \in Damages \cup {"none"} /\ (damage'.kind = "none" => damage' = NoDamage)
       /\ \A q \in Ledger' : Made(q)
  BY <1>1, RowDamage
<1>11. SoundInv'
  BY <1>10 DEF SoundInv
<1>12. PICK k : k = n - 1
  OBVIOUS
<1>13. Linked(rows', k)
  <2>1. k \in Int /\ k <= Size
    BY <1>4, <1>5, <1>12
  <2>2. \A q \in rows : q.seq <= k => q \in rows'
    BY <1>1
  <2>3. QED
    BY <1>3, <2>1, <2>2, PrefixLinked
<1>14. InjectedInv'
  BY <1>1, <1>6, <1>10, <1>12, <1>13 DEF InjectedInv
<1>15. EditedInv' /\ DeletedInv' /\ GapInv'
  BY <1>10 DEF EditedInv, DeletedInv, GapInv
<1>16. DamageInv'
  BY <1>10, <1>14, <1>15 DEF DamageInv
<1>17. rows \ rows' \subseteq {r}
  BY <1>1
<1>18. QED
  BY <1>1, <1>9, <1>10, <1>11, <1>16, <1>17, DamageStep

\* A function on 1..n is a sequence.
LEMMA IsSequence ==
  ASSUME NEW n \in Nat, NEW S, NEW g \in [1..n -> S]
  PROVE  g \in Seq(S) /\ Len(g) = n
OBVIOUS

\* A file with one line replaced.
LEMMA LineReplaced ==
  ASSUME NEW f, f \in Seq(Lines(f)), NEW i \in DOMAIN f, NEW e,
         NEW g \in [DOMAIN f -> Lines(f) \cup {e}], g[i] = e
  PROVE  g \in Seq(Lines(g)) /\ Len(g) = Len(f) /\ e \in Lines(g)
         /\ Lines(g) \subseteq Lines(f) \cup {e}
<1>1. DOMAIN f = 1..Len(f) /\ Len(f) \in Nat
  OBVIOUS
<1>2. e \in Lines(g) /\ Lines(g) \subseteq Lines(f) \cup {e}
  BY DEF Lines
<1>3. g \in [1..Len(f) -> Lines(g)]
  BY <1>1 DEF Lines
<1>4. QED
  BY <1>1, <1>2, <1>3, IsSequence

\* A file with one line removed.
LEMMA LineRemoved ==
  ASSUME NEW f, f \in Seq(Lines(f)), NEW i \in DOMAIN f
  PROVE  /\ RemoveAt(f, i) \in Seq(Lines(RemoveAt(f, i))) /\ Len(RemoveAt(f, i)) = Len(f) - 1
         /\ Lines(RemoveAt(f, i)) = {f[j] : j \in DOMAIN f \ {i}}
<1> DEFINE n == Len(f)
           S == {f[j] : j \in DOMAIN f \ {i}}
           a == SubSeq(f, 1, i - 1)
           b == SubSeq(f, i + 1, n)
<1>1. n \in Nat /\ DOMAIN f = 1..n /\ i \in 1..n
  OBVIOUS
<1>2. i - 1 \in Int /\ i + 1 \in Int
      /\ (\A j \in 1..(i - 1) : f[j] \in S) /\ \A j \in (i + 1)..n : f[j] \in S
  BY <1>1
<1> HIDE DEF S
<1>3. /\ a \in Seq(S) /\ Len(a) = i - 1
      /\ \A j \in 1..(i - 1) : a[j] = f[j]
  <2>1. /\ a \in Seq(S) /\ Len(a) = IF 1 <= i - 1 THEN (i - 1) - 1 + 1 ELSE 0
        /\ \A j \in 1..((i - 1) - 1 + 1) : a[j] = f[1 + j - 1]
    BY <1>2, SubSeqProperties
  <2>2. (i - 1) - 1 + 1 = i - 1 /\ \A j \in 1..(i - 1) : 1 + j - 1 = j
    BY <1>1
  <2>3. QED
    BY <1>1, <2>1, <2>2
<1>4. /\ b \in Seq(S) /\ Len(b) = n - i
      /\ \A j \in 1..(n - i) : b[j] = f[i + j]
  <2>1. /\ b \in Seq(S) /\ Len(b) = IF i + 1 <= n THEN n - (i + 1) + 1 ELSE 0
        /\ \A j \in 1..(n - (i + 1) + 1) : b[j] = f[(i + 1) + j - 1]
    BY <1>1, <1>2, SubSeqProperties
  <2>2. n - (i + 1) + 1 = n - i /\ \A j \in 1..(n - i) : (i + 1) + j - 1 = i + j
    BY <1>1
  <2>3. QED
    BY <1>1, <2>1, <2>2
<1> HIDE DEF a, b
<1> DEFINE g == a \o b
<1>5. /\ g \in Seq(S) /\ Len(g) = Len(a) + Len(b)
      /\ \A j \in 1..(Len(a) + Len(b)) : g[j] = IF j <= Len(a) THEN a[j] ELSE b[j - Len(a)]
  BY <1>3, <1>4, ConcatProperties
<1>6. Len(a) + Len(b) = n - 1 /\ n - 1 \in Nat
  BY <1>1, <1>3, <1>4
<1>7. g = RemoveAt(f, i)
  BY DEF RemoveAt, a, b
<1> HIDE DEF g
<1>8. DOMAIN g = 1..(n - 1) /\ \A j \in 1..(n - 1) : g[j] \in S
  BY <1>5, <1>6
<1>9. ASSUME NEW j \in DOMAIN f \ {i} PROVE \E k \in DOMAIN g : g[k] = f[j]
  <2>1. CASE j < i
    <3>1. j \in 1..(i - 1) /\ j \in 1..(n - 1)
      BY <1>1, <2>1
    <3>2. g[j] = a[j]
      BY <1>3, <1>5, <1>6, <3>1
    <3>3. QED
      BY <1>3, <1>8, <3>1, <3>2
  <2>2. CASE j > i
    <3>1. j - i \in 1..(n - i) /\ j - 1 \in 1..(n - 1) /\ i + (j - i) = j
          /\ ~(j - 1 <= i - 1) /\ (j - 1) - (i - 1) = j - i
      BY <1>1, <2>2
    <3>2. g[j - 1] = b[j - i]
      BY <1>3, <1>5, <1>6, <3>1
    <3>3. b[j - i] = f[j]
      BY <1>4, <3>1
    <3>4. QED
      BY <1>8, <3>1, <3>2, <3>3
  <2>3. QED
    BY <1>1, <2>1, <2>2
<1>10. Lines(g) = S
  BY <1>8, <1>9 DEF Lines, S
<1>11. QED
  BY <1>5, <1>6, <1>7, <1>10 DEF S

\* Damage to the file leaves the table and the code's state as they are.
LEMMA LineDamage ==
  ASSUME VInv, NEW kind, NEW i \in DOMAIN file[Auditor], NEW with, DamageLine(kind, i, with),
         kind \in {"line_edited", "line_deleted", "line_unreadable"},
         with \in Seq(Lines(with)),
         kind # "line_deleted" => Len(with) = Len(file[Auditor]),
         kind = "line_deleted" => Len(with) = Len(file[Auditor]) - 1
  PROVE  /\ LiveInv' /\ CodeInv' /\ LongInv'
         /\ Live' = Live /\ rows' = rows /\ Ledger' = Lines(with)
         /\ damage'.kind = kind /\ Victim' = file[Auditor][i]
         /\ damage'.inner = Inner(file[Auditor][i], ToSet(file[Auditor]))
         /\ UNCHANGED <<pc, count>>
         /\ EditedInv' /\ InjectedInv' /\ DeletedInv' /\ GapInv'
         /\ damage'.kind \in Damages \cup {"none"} /\ (damage'.kind = "none" => damage' = NoDamage)
         /\ FInv /\ (\A q \in Live : Made(q)) /\ (\A q \in Ledger : Made(q) /\ q.body[2] >= 1)
<1> DEFINE f == file[Auditor]
           r == f[i]
           inner == Inner(r, ToSet(f))
<1>1. Damaged(kind, r, inner) /\ rows' = rows /\ file' = [file EXCEPT ![Auditor] = with]
  BY DEF DamageLine
<1> HIDE DEF inner
<1>2. /\ damage = NoDamage /\ kind \in Damages
      /\ damage'.kind = kind /\ Victim' = r /\ damage'.inner = inner
      /\ UNCHANGED <<pending, link, pc, draft, count, unfiled, lines, lines2>>
  BY <1>1, DamagedFacts
<1>3. /\ LiveInv /\ CodeInv /\ LongInv /\ FInv /\ Gone = 0
      /\ (\A q \in Live : Made(q)) /\ (\A q \in Ledger : Made(q) /\ q.body[2] >= 1)
  BY <1>2, Undamaged
<1>4. /\ DOMAIN file' = Host /\ file'[Auditor] = with
      /\ \A h \in Host \ {Auditor} : file'[h] = file[h]
  BY <1>1, <1>3, AuditorAssumption DEF CodeInv
<1>5. Live' = Live /\ LiveInv'
  BY <1>1, <1>2, <1>3 DEF LiveInv, Live
<1>6. Ledger' = Lines(with)
  BY <1>4 DEF Ledger
<1>7. CodeInv'
  <2>1. \A h \in Host : file'[h] \in Seq(Lines(file'[h]))
    BY <1>3, <1>4 DEF CodeInv
  <2>2. QED
    BY <1>2, <1>3, <1>4, <2>1 DEF CodeInv, BodyOf
<1>8. LongInv'
  <2>1. Len(f) \in Nat
    BY <1>3, AuditorAssumption DEF CodeInv
  <2>2. Len(file'[Auditor]) + Gone' = Len(f)
    <3>1. CASE kind = "line_deleted"
      BY <1>2, <1>4, <2>1, <3>1 DEF Gone
    <3>2. CASE kind # "line_deleted"
      BY <1>2, <1>4, <2>1, <3>2 DEF Gone
    <3>3. QED
      BY <3>1, <3>2
  <2>3. Len(f) + Gone = Len(f)
    BY <1>3, <2>1
  <2>4. QED
    BY <1>2, <1>3, <2>2, <2>3 DEF LongInv
<1>9. EditedInv' /\ InjectedInv' /\ DeletedInv' /\ GapInv'
  BY <1>2 DEF EditedInv, InjectedInv, DeletedInv, GapInv
<1>10. QED
  BY <1>1, <1>2, <1>3, <1>5, <1>6, <1>7, <1>8, <1>9 DEF inner

\* An altered line, and one that no longer parses, stay in the file.
LEMMA ChangeLineStep ==
  ASSUME VInv, NEW i \in DOMAIN file[Auditor], EditLine(i) \/ CorruptLine(i)
  PROVE  VInv'
<1> DEFINE f == file[Auditor]
           r == f[i]
<1>1. PICK kind, e : /\ DamageLine(kind, i, [f EXCEPT ![i] = e])
                     /\ \/ kind = "line_edited" /\ e = Altered(r)
                        \/ kind = "line_unreadable" /\ e = Unreadable
  <2>1. CASE EditLine(i)
    <3>1. DamageLine("line_edited", i, [f EXCEPT ![i] = Altered(r)])
      BY <2>1 DEF EditLine
    <3>2. QED
      BY <3>1
  <2>2. CASE CorruptLine(i)
    BY <2>2 DEF CorruptLine
  <2>3. QED
    BY <2>1, <2>2
<1>2. PICK g : g = [f EXCEPT ![i] = e]
  OBVIOUS
<1>3. f \in Seq(Lines(f))
  BY AuditorAssumption DEF VInv, CodeInv
<1>4. g \in Seq(Lines(g)) /\ Len(g) = Len(f) /\ e \in Lines(g)
      /\ Lines(g) \subseteq Lines(f) \cup {e}
  <2>1. DOMAIN f = 1..Len(f) /\ f \in [DOMAIN f -> Lines(f)]
    BY <1>3
  <2>2. g \in [DOMAIN f -> Lines(f) \cup {e}] /\ g[i] = e
    BY <1>2, <2>1
  <2>3. QED
    BY <1>3, <2>2, LineReplaced
<1>5. DamageLine(kind, i, g) /\ kind \in {"line_edited", "line_unreadable"}
  BY <1>2, <1>1
<1>6. kind # "line_deleted" /\ Len(g) = Len(f)
  BY <1>4, <1>5
<1>7. /\ LiveInv' /\ CodeInv' /\ LongInv' /\ Live' = Live /\ rows' = rows /\ Ledger' = Lines(g)
      /\ damage'.kind = kind /\ EditedInv' /\ InjectedInv' /\ DeletedInv' /\ GapInv'
      /\ damage'.kind \in Damages \cup {"none"} /\ (damage'.kind = "none" => damage' = NoDamage)
      /\ (\A q \in Live : Made(q)) /\ (\A q \in Ledger : Made(q) /\ q.body[2] >= 1)
  BY <1>4, <1>5, <1>6, LineDamage
<1>8. SoundInv'
  BY <1>5, <1>7 DEF SoundInv
<1>9. e = Unreadable \/ e.hash # Digest(e.seq, e.prev, e.body)
  <2>1. r \in Ledger
    BY DEF Ledger, Lines
  <2>2. IsRecord(r) /\ r.body[2] >= 1
    BY <1>7, <2>1, MadeBy
  <2>3. Altered(r).hash # Digest(Altered(r).seq, Altered(r).prev, Altered(r).body)
    BY <2>2, AlteredFails
  <2>4. QED
    BY <1>1, <2>3
<1>10. LineBadInv'
  BY <1>4, <1>7, <1>9 DEF LineBadInv
<1>11. LineGoneInv' /\ LineGapInv'
  BY <1>5, <1>7 DEF LineGoneInv, LineGapInv
<1>12. DamageInv'
  BY <1>7, <1>10, <1>11 DEF DamageInv
<1>13. Damaged(kind, r, Inner(r, ToSet(f))) /\ rows \ rows' \subseteq {r}
  BY <1>5, <1>7 DEF DamageLine
<1>14. QED
  BY <1>7, <1>8, <1>12, <1>13, DamageStep

\* The line of a row that is deleted is in the file no more.
LEMMA DeleteLineStep ==
  ASSUME VInv, NEW i \in DOMAIN file[Auditor], DeleteLine(i)
  PROVE  VInv'
<1> DEFINE f == file[Auditor]
           r == f[i]
           g == RemoveAt(f, i)
<1>1. DamageLine("line_deleted", i, g)
  BY DEF DeleteLine
<1>2. f \in Seq(Lines(f))
  BY AuditorAssumption DEF VInv, CodeInv
<1>3. g \in Seq(Lines(g)) /\ Len(g) = Len(f) - 1 /\ Lines(g) = {f[j] : j \in DOMAIN f \ {i}}
  BY <1>2, LineRemoved
<1> HIDE DEF g
<1>4. /\ LiveInv' /\ CodeInv' /\ LongInv' /\ Live' = Live /\ rows' = rows /\ Ledger' = Lines(g)
      /\ damage'.kind = "line_deleted" /\ Victim' = r /\ damage'.inner = Inner(r, ToSet(f))
      /\ UNCHANGED <<pc, count>>
      /\ EditedInv' /\ InjectedInv' /\ DeletedInv' /\ GapInv'
      /\ damage'.kind \in Damages \cup {"none"} /\ (damage'.kind = "none" => damage' = NoDamage)
      /\ FInv /\ (\A q \in Live : Made(q)) /\ (\A q \in Ledger : Made(q) /\ q.body[2] >= 1)
  BY <1>1, <1>3, LineDamage
<1>5. Ledger' \subseteq Ledger /\ r \in Ledger
  BY <1>3, <1>4 DEF Ledger, Lines
<1>6. SoundInv'
  BY <1>4, <1>5 DEF SoundInv
<1>7. ASSUME r \in Live PROVE r \notin Lines(g)
  <2>1. SUFFICES ASSUME NEW j \in DOMAIN f \ {i}, f[j] = r PROVE FALSE
    BY <1>3
  <2>2. i \in Int /\ j \in Int
    BY <1>2
  <2>3. r.seq < r.seq
    BY <1>4, <1>7, <2>1, <2>2, AuditorAssumption DEF FInv, OrderInv
  <2>4. r.seq \in Nat
    BY <1>7 DEF VInv, LiveInv
  <2>5. QED
    BY <2>3, <2>4
<1>8. LineGoneInv'
  <2>1. Past(r)
    BY <1>4, <1>5, AuditorAssumption DEF FInv, PastInv, Ledger
  <2>2. PICK v : v = r
    OBVIOUS
  <2>3. Past(v)'
    BY <1>4, <2>1, <2>2 DEF Past
  <2>4. Made(v) /\ (v \in Live => v \notin Lines(g)) /\ Victim' = v
    BY <1>4, <1>5, <1>7, <2>2
  <2>5. QED
    BY <1>4, <2>3, <2>4 DEF LineGoneInv
<1>9. LineGapInv'
  <2>1. SUFFICES ASSUME Inner(r, ToSet(f))
                 PROVE  r \in rows
                        /\ \E s \in rows \cap Lines(g) : r.seq < s.seq /\ Linked(rows, s.seq)
    BY <1>4 DEF LineGapInv
  <2>2. PICK s \in ToSet(f) \cap rows : r \in rows /\ r.seq < s.seq
    BY <2>1 DEF Inner
  <2>3. r.seq \in 1..Size /\ s.seq \in 1..Size /\ Size \in Nat
    BY <1>4, <2>2, RowStands
  <2>4. s \in Lines(g)
    BY <1>3, <2>2, <2>3 DEF ToSet
  <2>5. PICK k : k = s.seq
    OBVIOUS
  <2>6. k \in Int /\ k <= Size
    BY <2>3, <2>5
  <2>7. Linked(rows, k)
    BY <1>4, <2>6, PrefixLinked
  <2>8. QED
    BY <2>2, <2>4, <2>5, <2>7
<1>10. LineBadInv'
  BY <1>4 DEF LineBadInv
<1>11. DamageInv'
  BY <1>4, <1>8, <1>9, <1>10 DEF DamageInv
<1>12. Damaged("line_deleted", r, Inner(r, ToSet(f))) /\ rows \ rows' \subseteq {r}
  BY <1>1, <1>4 DEF DamageLine
<1>13. QED
  BY <1>4, <1>6, <1>11, <1>12, DamageStep

-----------------------------------------------------------------------------
(* The invariant holds.                                                    *)

\* The invariant holds before anything is written, damaged or read.
LEMMA VInvInit == VerifyInit => VInv
<1> SUFFICES ASSUME VerifyInit PROVE VInv
  OBVIOUS
<1>1. /\ Init /\ vpc = "idle" /\ genuine = {} /\ damage = NoDamage /\ quiet = TRUE
      /\ table = <<>> /\ lines = <<>> /\ table2 = <<>> /\ lines2 = <<>>
  BY DEF VerifyInit
<1>2. /\ rows = {} /\ pending = [t \in Txn |-> {}] /\ link = [t \in Txn |-> "none"]
      /\ pc = [t \in Txn |-> "idle"] /\ draft = [t \in Txn |-> NoRecord]
      /\ count = [t \in Txn |-> 0] /\ file = [h \in Host |-> <<>>]
  BY <1>1 DEF Init
<1>3. Live = {} /\ IsFiniteSet({})
  BY <1>2, FS_EmptySet DEF Live
<1>4. \A h \in Host : file[h] = <<>> /\ Lines(file[h]) = {} /\ file[h] \in Seq(Lines(file[h]))
  BY <1>2 DEF Lines
<1>5. Ledger = {} /\ Len(file[Auditor]) = 0
  BY <1>4, AuditorAssumption DEF Ledger
<1>6. LiveInv
  BY <1>2, <1>3 DEF LiveInv
<1>7. CodeInv
  BY <1>2, <1>4 DEF CodeInv, Appending
<1>8. SoundInv
  BY <1>3, <1>5 DEF SoundInv
<1>9. IntactInv
  BY <1>1, <1>2, <1>3, <1>5, InitFInv DEF IntactInv, Appending
<1>10. damage.kind = "none" /\ damage.when = "idle"
  BY <1>1 DEF NoDamage
<1>11. DamageInv
  BY <1>1, <1>10 DEF DamageInv, EditedInv, InjectedInv, DeletedInv, GapInv, LineBadInv, LineGoneInv,
     LineGapInv
<1>12. <<>> \in Seq(ToSet(<<>>)) /\ Ascending(<<>>) /\ Len(<<>>) = 0
  BY DEF ToSet, Ascending
<1>13. ReadInv
  BY <1>1, <1>12 DEF ReadInv
<1>14. LongInv
  <2>1. Gone = 0
    BY <1>10 DEF Gone
  <2>2. Len(<<>>) <= Len(file[Auditor]) + Gone
    BY <1>5, <1>12, <2>1
  <2>3. QED
    BY <1>1, <1>12, <2>2 DEF LongInv
<1>15. GenuineInv /\ QuietInv
  BY <1>1 DEF GenuineInv, QuietInv
<1>16. DamageLocated
  BY <1>1 DEF DamageLocated
<1>17. QED
  BY <1>6, <1>7, <1>8, <1>9, <1>11, <1>13, <1>14, <1>15, <1>16 DEF VInv

\* Steps of the ledger keep the invariant.
LEMMA LedgerKeeps == VInv /\ LedgerStep => VInv'
<1> SUFFICES ASSUME VInv, LedgerStep PROVE VInv'
  OBVIOUS
<1>1. /\ LiveInv /\ CodeInv /\ SoundInv /\ IntactInv /\ DamageInv
      /\ ReadInv /\ LongInv /\ GenuineInv /\ QuietInv /\ DamageLocated
  BY DEF VInv
<1>2. LiveInv' /\ CodeInv' /\ SoundInv' /\ IntactInv' /\ DamageInv'
  BY <1>1, LiveInvStep, CodeInvStep, SoundInvStep, IntactInvStep, DamageInvStep
<1>3. ReadInv' /\ LongInv' /\ GenuineInv' /\ QuietInv' /\ DamageLocated'
  BY <1>1, HistoryStep
<1>4. QED
  BY <1>2, <1>3 DEF VInv

\* So does every step.
LEMMA VInvStep == VInv /\ [VerifyNext]_verifyVars => VInv'
<1> SUFFICES ASSUME VInv, [VerifyNext]_verifyVars PROVE VInv'
  OBVIOUS
<1>1. CASE Damage
  BY <1>1, EditRowStep, DeleteRowStep, InjectRowStep, ChangeLineStep, DeleteLineStep DEF Damage
<1>2. CASE UNCHANGED verifyVars
  <2>1. UNCHANGED <<vars, vpc, table, lines, table2, lines2, genuine, damage, quiet, rows, file>>
    BY <1>2 DEF verifyVars, checkVars, vars
  <2>2. /\ LiveInv /\ CodeInv /\ SoundInv /\ IntactInv /\ DamageInv /\ GenuineInv
        /\ ReadInv /\ LongInv /\ QuietInv /\ DamageLocated
    BY DEF VInv
  <2>3. LiveInv' /\ CodeInv' /\ SoundInv' /\ IntactInv' /\ DamageInv' /\ GenuineInv'
    BY <2>1, <2>2, Untouched
  <2>4. ReadInv'
    BY <2>1, <2>2 DEF ReadInv
  <2>5. LongInv' /\ QuietInv' /\ DamageLocated'
    BY <2>1, <2>2 DEF LongInv, Gone, QuietInv, DamageLocated
  <2>6. QED
    BY <2>3, <2>4, <2>5 DEF VInv
<1>3. CASE LedgerStep
  BY <1>3, LedgerKeeps
<1>4. CASE ReadTable \/ ReadFile \/ ReadTableAgain \/ ReadFileAgain
  BY <1>4, ReadTableStep, ReadFileStep, ReadTableAgainStep, ReadFileAgainStep
<1>5. QED
  BY <1>1, <1>2, <1>3, <1>4 DEF VerifyNext, Answered

\* The invariant holds in every reachable state.
LEMMA VerifyInvariance == VerifySpec => []VInv
  BY VInvInit, VInvStep, PTL DEF VerifySpec

-----------------------------------------------------------------------------
(* What the verdict says.                                                  *)

\* A request that verifies has compared the file with the table: whatever is
\* in one of them has a record of the same hash in the other.
LEMMA Compared ==
  ASSUME VInv, vpc = "done", Verdict = "verified"
  PROVE  /\ ChainCheck(table).verified /\ FileCheck(lines).verified
         /\ \A r \in Ledger : \E q \in ToSet(table2) : q.hash = r.hash
         /\ \A q \in ToSet(table2) : \E r \in Ledger : q.hash = r.hash
<1>1. ChainCheck(table).verified /\ FileCheck(lines).verified /\ Matches(table2, lines2)
  BY DEF Verdict
<1>2. lines2 = file[Auditor] /\ table2 \in Seq(ToSet(table2))
  BY DEF VInv, ReadInv
<1>3. lines2 \in Seq(Ledger) /\ Ledger = {lines2[i] : i \in DOMAIN lines2}
  BY <1>2, AuditorAssumption DEF VInv, CodeInv, Ledger, Lines
<1>4. DOMAIN table2 = DOMAIN lines2
  BY <1>1, <1>2, <1>3 DEF Matches
<1>5. \A i \in DOMAIN table2 : table2[i].hash = lines2[i].hash
  BY <1>1 DEF Matches
<1>6. ToSet(table2) = {table2[i] : i \in DOMAIN table2}
  BY DEF ToSet
<1>7. QED
  BY <1>1, <1>3, <1>4, <1>5, <1>6

\* Damage that passes was done to a lone copy.
LEMMA LoneCopies == VInv => OnlyLoneCopiesLost
<1> SUFFICES ASSUME VInv, vpc = "done", Verdict = "verified", damage.when = "idle"
             PROVE  \/ damage.kind = "none"
                    \/ damage.kind = "row_deleted" /\ Unshared(Victim)
                    \/ damage.kind = "line_deleted" /\ Victim \notin ToSet(table2)
  BY DEF OnlyLoneCopiesLost, Victim
<1>1. /\ LiveInv /\ SoundInv /\ DamageInv /\ ReadInv /\ DamageLocated
  BY DEF VInv
<1>2. /\ ChainCheck(table).verified /\ FileCheck(lines).verified
      /\ \A r \in Ledger : \E q \in ToSet(table2) : q.hash = r.hash
      /\ \A q \in ToSet(table2) : \E r \in Ledger : q.hash = r.hash
  BY Compared
<1>3. ToSet(table2) \subseteq rows /\ rows \subseteq Live
  BY <1>1 DEF ReadInv, Live
<1>4. ChainCheck(table).tampered = 0
  BY <1>2 DEF ChainCheck
<1>5. damage.kind \in DamageKinds \cup {"none"}
  BY <1>1, DamagesAssumption DEF DamageInv
<1>6. damage.kind \notin {"line_edited", "line_unreadable"}
  BY <1>1, <1>2 DEF DamageLocated
<1>7. damage.kind \notin {"row_edited", "row_injected"}
  <2> SUFFICES ASSUME damage.kind \in {"row_edited", "row_injected"} PROVE FALSE
    OBVIOUS
  <2>1. Victim.seq = 0
    BY <1>1, <1>4 DEF DamageLocated, Victim
  <2>2. damage.kind = "row_edited" => Victim.seq \in Nat \ {0}
    BY <1>1 DEF DamageInv, EditedInv, IsRecord
  <2>3. damage.kind = "row_injected" => Victim.seq \in Nat \ {0}
    BY <1>1, <1>3 DEF DamageInv, InjectedInv, LiveInv
  <2>4. QED
    BY <2>1, <2>2, <2>3
<1>8. ASSUME damage.kind = "row_deleted" PROVE Unshared(Victim)
  <2>1. Made(Victim) /\ Victim \notin Live /\ (Unshared(Victim) \/ Victim \in Ledger)
    BY <1>1, <1>8 DEF DamageInv, DeletedInv
  <2>2. ASSUME Victim \in Ledger PROVE FALSE
    <3>1. PICK q \in ToSet(table2) : q.hash = Victim.hash
      BY <1>2, <2>2
    <3>2. q \in Live /\ Made(q)
      BY <1>1, <1>3, <1>8 DEF SoundInv
    <3>3. q = Victim
      BY <2>1, <3>1, <3>2, SameHash
    <3>4. QED
      BY <2>1, <3>2, <3>3
  <2>3. QED
    BY <2>1, <2>2
<1>9. ASSUME damage.kind = "line_deleted", Victim \in ToSet(table2) PROVE FALSE
  <2>1. Made(Victim) /\ Victim \notin Ledger
    BY <1>1, <1>3, <1>9 DEF DamageInv, LineGoneInv
  <2>2. PICK r \in Ledger : Victim.hash = r.hash
    BY <1>2, <1>9
  <2>3. Made(r)
    BY <1>1, <1>9 DEF SoundInv
  <2>4. Victim = r
    BY <2>1, <2>2, <2>3, SameHash
  <2>5. QED
    BY <2>1, <2>4
<1>10. QED
  BY <1>5, <1>6, <1>7, <1>8, <1>9 DEF DamageKinds

\* A file that has every row, and nothing else, lists the table in its order.
LEMMA FileIsTable ==
  ASSUME LiveInv, CodeInv, FInv, Ledger \subseteq rows, \A r \in rows : ~Unshared(r)
  PROVE  file[Auditor] = InOrder(rows)
<1> DEFINE f == file[Auditor]
           n == Cardinality(rows)
           D == 1..Len(f)
<1>1. f \in Seq(Ledger) /\ Ledger = {f[i] : i \in DOMAIN f} /\ DOMAIN f = D /\ Len(f) \in Nat
  BY AuditorAssumption DEF CodeInv, Ledger, Lines
<1>2. CommittedLines(Auditor) = DOMAIN f
  BY <1>1 DEF CommittedLines
<1>3. /\ {f[i] : i \in DOMAIN f} = {r \in rows : HostOf[Writer(r)] = Auditor /\ r \notin unfiled}
      /\ \A i, j \in DOMAIN f : i < j => f[i].seq < f[j].seq
  BY <1>2, FilesProject, AuditorAssumption DEF FileProjectsChain
<1>4. Ledger = rows
  BY <1>1, <1>3 DEF Unshared
<1>5. Ascending(f)
  BY <1>3 DEF Ascending
<1>6. Numbered(rows) /\ IsFiniteSet(rows) /\ n \in Nat /\ \A r \in rows : r.seq \in Nat
  BY TableRead, FS_CardinalityType DEF Numbered
<1> HIDE DEF f
<1>7. \A i, j \in D : f[i] = f[j] => i = j
  <2> SUFFICES ASSUME NEW i \in D, NEW j \in D, f[i] = f[j] PROVE i = j
    OBVIOUS
  <2>1. f[i] \in rows /\ f[i].seq \in Nat
    BY <1>1, <1>4, <1>6
  <2>2. PICK m \in Nat : m = f[i].seq /\ m = f[j].seq
    BY <2>1
  <2>3. (i < j => f[i].seq < f[j].seq) /\ (j < i => f[j].seq < f[i].seq)
    BY <1>1, <1>3
  <2>4. ~(i < j) /\ ~(j < i)
    BY <2>2, <2>3
  <2>5. QED
    BY <1>1, <2>4
<1>8. f \in [D -> rows] /\ \A r \in rows : \E i \in D : f[i] = r
  BY <1>1, <1>4
<1>9. IsFiniteSet(D) /\ Cardinality(D) = Len(f)
  <2>1. PICK m \in Nat : m = Len(f)
    BY <1>1
  <2>2. IsFiniteSet(1..m) /\ Cardinality(1..m) = m
    BY ONLY m \in Nat, FS_Interval
  <2>3. QED
    BY ONLY <2>1, <2>2, Zenon
<1> HIDE DEF D
<1>10. f \in Bijection(D, rows)
  BY <1>7, <1>8 DEF Bijection, Injection, Surjection, IsInjective
<1>11. n = Cardinality(D)
  BY <1>9, <1>10, FS_Bijection DEF ExistsBijection
<1>12. f \in Listings(rows)
  BY <1>9, <1>10, <1>11 DEF Listings, D
<1>13. InOrder(rows) \in Listings(rows) /\ Ascending(InOrder(rows))
  BY TableRead
<1>14. f = InOrder(rows)
  BY <1>5, <1>6, <1>12, <1>13, OneListing
<1>15. QED
  BY <1>14 DEF f

\* The undamaged table passes its check.
LEMMA TableVerifies ==
  ASSUME LiveInv, FInv
  PROVE  Broken(InOrder(rows)) = {}
<1>1. Numbered(rows) /\ IsFiniteSet(rows) /\ InOrder(rows) \in Listings(rows)
  BY TableRead DEF Numbered
<1>2. Size \in Nat
  BY FS_CardinalityType, <1>1 DEF Size
<1>3. Linked(rows, Size)
  BY <1>2, PrefixLinked
<1>4. \A i \in 1..Size : i \notin Broken(InOrder(rows))
  BY <1>1, <1>2, <1>3, LinkedPrefix
<1> DEFINE s == InOrder(rows)
<1> HIDE DEF s
<1>5. DOMAIN s = 1..Size
  BY <1>1, ListingFacts DEF s, Size
<1>6. Broken(s) \subseteq DOMAIN s
  BY DEF Broken
<1>7. QED
  BY <1>4, <1>5, <1>6 DEF s

\* A quiet request that does not verify an undamaged ledger has a cause.
LEMMA Causes == VInv => AlarmHasCause
<1> SUFFICES ASSUME VInv, vpc = "done", damage.kind = "none", quiet,
                    \A r \in Lines(file[Auditor]) : r \in rows, \A r \in rows : ~Unshared(r)
             PROVE  Verdict = "verified"
  BY DEF AlarmHasCause
<1>1. damage = NoDamage
  BY DEF VInv, DamageInv
<1>2. LiveInv /\ CodeInv /\ FInv /\ \A r \in Live : Made(r)
  BY <1>1, Undamaged
<1>3. /\ table = InOrder(rows) /\ table2 = InOrder(rows)
      /\ lines = file[Auditor] /\ lines2 = file[Auditor]
  BY <1>1 DEF VInv, QuietInv, ReadInv
<1>4. file[Auditor] = InOrder(rows)
  BY <1>2, FileIsTable DEF Ledger
<1>5. Broken(InOrder(rows)) = {}
  BY <1>2, TableVerifies
<1> DEFINE s == InOrder(rows)
<1> HIDE DEF s
<1>6. table = s /\ table2 = s /\ lines = s /\ lines2 = s /\ Broken(s) = {}
  BY <1>3, <1>4, <1>5 DEF s
<1>7. \A i \in DOMAIN s : IsRecord(s[i])
  <2>1. ToSet(s) = rows
    BY <1>2, TableRead DEF s
  <2>2. \A i \in DOMAIN s : s[i] \in Live
    BY <2>1 DEF ToSet, Live
  <2>3. QED
    BY <1>2, <2>2 DEF Made
<1>8. ~IsRecord(Unreadable)
  <2>1. DOMAIN Unreadable = {"text"}
    BY DEF Unreadable
  <2>2. QED
    BY <2>1 DEF IsRecord
<1>9. ~Contains(s, Unreadable)
  BY <1>7, <1>8 DEF Contains
<1>10. ChainCheck(s).verified /\ FileCheck(s).verified /\ Matches(s, s)
  BY <1>6, <1>9, Passes DEF Matches
<1>11. QED
  BY <1>6, <1>9, <1>10 DEF Verdict

-----------------------------------------------------------------------------
(* The theorems.                                                           *)

\* What verify-all has read is lists of rows in strict order, and lines of its
\* file; nothing genuine is lost but what the damage took.
THEOREM VerifyTypeCorrect == VerifySpec => []VerifyTypeOK
<1>1. ASSUME VInv PROVE VerifyTypeOK
  <2>1. \A s \in {lines, lines2} : Len(s) <= Len(file[Auditor]) + 1
    <3>1. SUFFICES ASSUME NEW s \in {lines, lines2} PROVE Len(s) <= Len(file[Auditor]) + 1
      OBVIOUS
    <3>2. s \in Seq(ToSet(s)) /\ Len(s) <= Len(file[Auditor]) + Gone
      BY <1>1 DEF VInv, LongInv
    <3>3. Len(s) \in Nat /\ Len(file[Auditor]) \in Nat /\ Gone \in {0, 1}
      BY <1>1, <3>2, AuditorAssumption DEF VInv, CodeInv, Gone
    <3>4. QED
      BY <3>2, <3>3
  <2>2. Cardinality(genuine \ rows) <= 1
    <3>1. PICK v : v = damage.record
      OBVIOUS
    <3>2. IsFiniteSet({v}) /\ Cardinality({v}) = 1 /\ genuine \ rows \in SUBSET {v}
      BY <1>1, <3>1, FS_Singleton DEF VInv, GenuineInv
    <3>3. QED
      BY <3>2, FS_Subset
  <2>3. damage.kind \in Damages \cup {"none"} /\ quiet \in BOOLEAN
    BY <1>1 DEF VInv, DamageInv, ReadInv
  <2>4. /\ vpc \in {"idle", "file", "again", "cross", "done"}
        /\ \A s \in {table, table2} : Ascending(s)
        /\ vpc = "idle" => table = <<>> /\ lines = <<>> /\ table2 = <<>> /\ lines2 = <<>>
    BY <1>1 DEF VInv, ReadInv
  <2>5. QED
    BY <2>1, <2>2, <2>3, <2>4 DEF VerifyTypeOK
<1>2. QED
  BY <1>1, VerifyInvariance, PTL

\* Damage is found where it is, for any number of appends before and beside
\* verify-all: an altered or injected row under its own number, a gap under
\* the number after it, a damaged line by the check of the file.
THEOREM DamageIsLocated == VerifySpec => []DamageLocated
<1>1. VInv => DamageLocated
  BY DEF VInv
<1>2. QED
  BY <1>1, VerifyInvariance, PTL

\* Damage done before the request passes only where the program had left this
\* host no other copy: every pair of reads that agrees has compared all hashes,
\* and a record whose hash is its own is found again by it.
THEOREM LoneCopiesOnlyLost == VerifySpec => []OnlyLoneCopiesLost
  BY LoneCopies, VerifyInvariance, PTL

\* Without damage, and with nothing written during the request, verify-all
\* fails for two reasons only: lines that are not committed, or rows whose
\* line is on another host or was never written.
THEOREM AlarmsHaveCauses == VerifySpec => []AlarmHasCause
  BY Causes, VerifyInvariance, PTL
=============================================================================
