-------------------------- MODULE LedgerVerification --------------------------
(***************************************************************************)
(* POST /audit/verify-all beside the transactions of AuditLedger.  The     *)
(* handler reads the table and checks its chain, reads and checks its      *)
(* host's file, reads the table and the file again and compares them; each *)
(* read of the table is an await, so appends go on between the reads.      *)
(* Somebody or something damages one record of the table or one line of    *)
(* the file, outside the program, at any time.                             *)
(***************************************************************************)
EXTENDS AuditLedger, SequencesExt, FiniteSetsExt

CONSTANTS
  Auditor,     \* the host whose API process answers the request
  Damages      \* the kinds of damage that may happen

\* A row or a line whose contents were altered, or that is gone; a row put
\* into the table by hand; a line that no longer parses.
DamageKinds ==
  {"row_edited", "row_deleted", "row_injected", "line_edited", "line_deleted",
   "line_unreadable"}

ASSUME AuditorAssumption == Auditor \in Host
ASSUME DamagesAssumption == Damages \subseteq DamageKinds

VARIABLES
  vpc,        \* what the handler does next
  table,      \* the table as first read: db of the response
  lines,      \* the file as first read
  table2,     \* the table as read for the comparison
  lines2,     \* the file as read for the comparison
  genuine,    \* history: every row the program has committed
  damage,     \* history: what was damaged, and when
  quiet       \* history: nothing changed since the first read

checkVars == <<vpc, table, lines, table2, lines2>>
verifyVars == <<vars, checkVars, genuine, damage, quiet>>

-----------------------------------------------------------------------------
(* The checks.                                                             *)

\* A line of a file that is no JSON.
Unreadable == [text |-> "garbage"]

Listings(R) == Bijection(1..Cardinality(R), R)
Ascending(s) == \A i, j \in DOMAIN s : i < j => s[i].seq < s[j].seq

\* Fault: the order of the endpoint that lists the records.
InOrderDescending(R) == Reverse(CHOOSE s \in Listings(R) : Ascending(s))

\* ORDER BY sequence_number ASC
InOrder(R) == CHOOSE s \in Listings(R) : Ascending(s)

\* Fault: links checked, hashes not recomputed.
BrokenLinks(s) ==
  {i \in DOMAIN s :
     \/ s[i].seq # i
     \/ s[i].prev # IF i = 1 THEN Genesis ELSE s[i - 1].hash}

\* Fault: positions counted from zero.
BrokenFromZero(s) ==
  {i \in DOMAIN s :
     \/ s[i].seq # i - 1
     \/ s[i].prev # IF i = 1 THEN Genesis ELSE s[i - 1].hash
     \/ s[i].hash # Digest(s[i].seq, s[i].prev, s[i].body)}

\* The positions at which one of the three checks of a record fails.
Broken(s) ==
  {i \in DOMAIN s :
     \/ s[i].seq # i
     \/ s[i].prev # IF i = 1 THEN Genesis ELSE s[i - 1].hash
     \/ s[i].hash # Digest(s[i].seq, s[i].prev, s[i].body)}

\* verify_chain_async: the number of the first record that fails, 0 if none.
ChainCheck(s) ==
  [verified |-> Broken(s) = {}, total |-> Len(s),
   tampered |-> IF Broken(s) = {} THEN 0 ELSE s[Min(Broken(s))].seq]

\* verify_file_ledger: it gives up at the first line that does not parse.
FileCheck(s) ==
  IF Contains(s, Unreadable)
    THEN [verified |-> FALSE, total |-> Min({i \in DOMAIN s : s[i] = Unreadable}) - 1,
          tampered |-> 0]
    ELSE ChainCheck(s)

\* Fault: zip() without the comparison of the lengths.
MatchesZipped(s, t) ==
  \A i \in DOMAIN s \cap DOMAIN t : s[i].seq = t[i].seq /\ s[i].hash = t[i].hash

\* verify_cross_consistency on records that all parse: as many lines as rows,
\* the same numbers, the same hashes.
Matches(s, t) ==
  /\ Len(s) = Len(t)
  /\ \A i \in DOMAIN s : s[i].seq = t[i].seq /\ s[i].hash = t[i].hash

\* What the request answers: a line that does not parse raises in the cross
\* check, which has no handler for it.
Verdict ==
  IF Contains(lines2, Unreadable) THEN "error"
  ELSE IF ChainCheck(table).verified /\ FileCheck(lines).verified /\ Matches(table2, lines2)
    THEN "verified" ELSE "failed"

-----------------------------------------------------------------------------
NoDamage == [kind |-> "none", record |-> NoRecord, inner |-> FALSE, when |-> "idle"]

VerifyInit ==
  /\ Init
  /\ vpc = "idle"
  /\ table = <<>> /\ lines = <<>> /\ table2 = <<>> /\ lines2 = <<>>
  /\ genuine = {}
  /\ damage = NoDamage
  /\ quiet = TRUE

\* A step of AuditLedger; what it commits is genuine.
LedgerStep ==
  /\ vpc # "done"
  /\ \E t \in Txn : Begin(t) \/ Step(t) \/ Fault(t)
  /\ genuine' = genuine \cup (rows' \ rows)
  /\ quiet' = (quiet /\ (vpc = "idle" \/ UNCHANGED <<rows, file>>))
  /\ UNCHANGED <<checkVars, damage>>

CheckAt(from, to) ==
  /\ vpc = from
  /\ vpc' = to

\* verify_chain_async
ReadTable ==
  /\ CheckAt("idle", "file")
  /\ table' = InOrder(rows)
  /\ UNCHANGED <<vars, lines, table2, lines2, genuine, damage, quiet>>

\* verify_file_ledger
ReadFile ==
  /\ CheckAt("file", "again")
  /\ lines' = file[Auditor]
  /\ UNCHANGED <<vars, table, table2, lines2, genuine, damage, quiet>>

\* verify_cross_consistency: the table ...
ReadTableAgain ==
  /\ CheckAt("again", "cross")
  /\ table2' = InOrder(rows)
  /\ UNCHANGED <<vars, table, lines, lines2, genuine, damage, quiet>>

\* ... and the file.
ReadFileAgain ==
  /\ CheckAt("cross", "done")
  /\ lines2' = file[Auditor]
  /\ UNCHANGED <<vars, table, lines, table2, genuine, damage, quiet>>

\* One act of damage, to a record before a later committed one (inner) or not.
Damaged(kind, r, inner) ==
  /\ kind \in Damages
  /\ damage = NoDamage /\ vpc # "done"
  /\ damage' = [kind |-> kind, record |-> r, inner |-> inner, when |-> vpc]
  /\ quiet' = (quiet /\ vpc = "idle")
  /\ UNCHANGED <<pending, holder, link, pc, draft, count, signals, unfiled, checkVars,
                 genuine>>

\* The contents of no record: appends count from one.
Altered(r) == [r EXCEPT !.body = <<Writer(r), 0>>]
Inner(r, R) == r \in rows /\ \E s \in R \cap rows : r.seq < s.seq

EditRow(r) ==
  /\ Damaged("row_edited", r, Inner(r, rows))
  /\ rows' = (rows \ {r}) \cup {Altered(r)}
  /\ UNCHANGED file

DeleteRow(r) ==
  /\ Damaged("row_deleted", r, Inner(r, rows))
  /\ rows' = rows \ {r}
  /\ UNCHANGED file

\* A row put in by hand, under the next number, if no open transaction has it.
InjectRow(t) ==
  LET seq == Successor(rows, <<t, 0>>).seq
      r   == [seq |-> seq, prev |-> Genesis, body |-> <<t, 0>>, hash |-> Genesis]
  IN  /\ \A u \in Txn : \A s \in pending[u] : s.seq # seq
      /\ Damaged("row_injected", r, FALSE)
      /\ rows' = rows \cup {r}
      /\ UNCHANGED file

DamageLine(kind, i, with) ==
  /\ Damaged(kind, file[Auditor][i], Inner(file[Auditor][i], ToSet(file[Auditor])))
  /\ file' = [file EXCEPT ![Auditor] = with]
  /\ UNCHANGED rows

EditLine(i)    == DamageLine("line_edited", i,
                    [file[Auditor] EXCEPT ![i] = Altered(@)])
DeleteLine(i)  == DamageLine("line_deleted", i, RemoveAt(file[Auditor], i))
CorruptLine(i) == DamageLine("line_unreadable", i,
                    [file[Auditor] EXCEPT ![i] = Unreadable])

Damage ==
  \/ \E r \in rows : EditRow(r) \/ DeleteRow(r)
  \/ \E t \in Txn : InjectRow(t)
  \/ \E i \in DOMAIN file[Auditor] : EditLine(i) \/ DeleteLine(i) \/ CorruptLine(i)

\* The request is answered.
Answered == vpc = "done" /\ UNCHANGED verifyVars

VerifyNext ==
  \/ LedgerStep
  \/ ReadTable \/ ReadFile \/ ReadTableAgain \/ ReadFileAgain
  \/ Damage
  \/ Answered

VerifySpec == VerifyInit /\ [][VerifyNext]_verifyVars

-----------------------------------------------------------------------------
(* Properties.                                                             *)

\* What was read is a list of rows in strict order, or of lines.
VerifyTypeOK ==
  /\ vpc \in {"idle", "file", "again", "cross", "done"}
  /\ \A s \in {table, table2} : Ascending(s)
  /\ \A s \in {lines, lines2} : Len(s) <= Len(file[Auditor]) + 1
  /\ vpc = "idle" => table = <<>> /\ lines = <<>> /\ table2 = <<>> /\ lines2 = <<>>
  /\ Cardinality(genuine \ rows) <= 1
  /\ damage.kind \in Damages \cup {"none"}
  /\ quiet \in BOOLEAN

\* Damage is found where it is.  An altered or injected row is reported under
\* its own number, and of a row deleted before another one its successor is,
\* wherever the damage is, and whatever was appended after it.  The check of
\* the file fails when a line of it was altered, does not parse, or is missing
\* between committed records, whatever lines of rolled-back transactions the
\* file has besides.
DamageLocated ==
  /\ vpc # "idle" /\ damage.when = "idle" =>
       /\ damage.kind \in {"row_edited", "row_injected"}
            => ChainCheck(table).tampered = damage.record.seq
       /\ damage.kind = "row_deleted" /\ damage.inner
            => ChainCheck(table).tampered = damage.record.seq + 1
  /\ vpc \in {"again", "cross", "done"} /\ damage.when \in {"idle", "file"} =>
       \/ ~FileCheck(lines).verified
       \/ damage.kind \notin {"line_edited", "line_unreadable", "line_deleted"}
       \/ damage.kind = "line_deleted" /\ ~damage.inner

\* The file of the host that answers has no line of r.
Unshared(r) == r \in unfiled \/ HostOf[Writer(r)] # Auditor

\* The point of keeping the ledger twice: damage to one copy that was done
\* before the request never passes, not even at the end of a chain, except
\* where the program had left this host no other copy.
OnlyLoneCopiesLost ==
  vpc = "done" /\ Verdict = "verified" /\ damage.when = "idle" =>
    \/ damage.kind = "none"
    \/ damage.kind = "row_deleted" /\ Unshared(damage.record)
    \/ damage.kind = "line_deleted" /\ damage.record \notin ToSet(table2)

\* Without damage, and with nothing written during the request, there are two
\* reasons why it does not verify: the file has a line that is not committed
\* (its transaction is open or was rolled back), or the table has a row that
\* was written on another host or whose line could not be written.
AlarmHasCause ==
  vpc = "done" /\ damage.kind = "none" /\ quiet /\ Verdict # "verified" =>
    \/ \E r \in Lines(file[Auditor]) : r \notin rows
    \/ \E r \in rows : Unshared(r)
=============================================================================
