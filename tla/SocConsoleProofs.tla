-------------------------- MODULE SocConsoleProofs --------------------------
(***************************************************************************)
(* For every number of alerts, requests, entries of the list and of a page: *)
(* the console is retried unless a retry failed, what the API sent or       *)
(* listed is on the screen, a status on screen is the stored one, and the   *)
(* ledger tells the stored one.                                            *)
(***************************************************************************)
EXTENDS SocConsole, FunctionTheorems, FiniteSetTheorems, SequenceTheorems, TLAPS

-----------------------------------------------------------------------------
(* The inductive invariant, one part per variable or property.             *)

Entry   == [id : Alert \cup {Mock}, status : Status]
Fresh   == [stage |-> "none"]
Asked   == [stage : {"sent"}, mine : BOOLEAN, alert : Alert, status : Status]
Working == [stage : {"read", "flushed", "audited"}, mine : BOOLEAN, alert : Alert,
            status : Status, old : Status]
Over    == [stage : {"committed", "failed"}, mine : BOOLEAN, alert : Alert]
Record  == [alert : Alert, old : Status, new : Status]

\* A timer is set only while the connection is closed, and none is left when
\* it is open: so its end sets one, unless it was an attempt of a timer.
ConnInv ==
  /\ conn \in {"connecting", "open", "closed"} /\ timer \in {"none", "set", "fired"}
  /\ conn = "open" => timer = "none"
  /\ conn = "connecting" => timer # "set"
  /\ OfflineAfterFailedRetry

ScreenInv ==
  /\ wire \in Seq(Alert)
  /\ list \in Seq(Entry) /\ Len(list) <= Keep
  /\ load \in {"asked", "answered", "done"}
  /\ page \in Seq(Entry) /\ Len(page) <= Page

ServerInv ==
  /\ born \in Seq(Alert) /\ IsInjective(born)
  /\ creation \in [Alert -> {"none", "inserted", "audited", "broadcast", "committed", "aborted"}]
  /\ \A a \in Alert : creation[a] = "none" <=> a \notin Range(born)
  /\ IsFiniteSet(Committed)
  /\ echo \subseteq Alert
  /\ table \in [Alert -> Status]

TriageInv == triage \in [Triage -> {Fresh} \cup Asked \cup Working \cup Over]

\* The old status that a request has read is one the alert had.
Had(a, s, records) ==
  s = "NEW" \/ \E j \in DOMAIN records : records[j].alert = a /\ records[j].new = s

AuditInv ==
  /\ audit \in Seq(Record) /\ AuditTellsStatus
  /\ \A t \in Triage : triage[t] \in Working => Had(triage[t].alert, triage[t].old, audit)

\* Where the alerts are that were sent, or listed, to the console.
ShownInv ==
  /\ load = "asked" => listed = {} /\ page = <<>>
  /\ load = "answered" => listed \subseteq Ids(page)
  /\ load = "done" => listed \subseteq Ids(list) \cup pushedOut
  /\ load # "done" => overwritten = {}
  /\ overwritten \cap listed = {}
  /\ heard \subseteq Range(wire) \cup Ids(list) \cup overwritten \cup pushedOut

\* Request r is under way and the console's, for alert a.
Mine(r, a) == r.stage \in {"sent", "read", "flushed", "audited"} /\ r.mine /\ r.alert = a

ClickedOn(a, requests) ==
  \E t \in Triage : requests[t].stage # "none" /\ requests[t].mine /\ requests[t].alert = a

AllShow(entries, a, s) == \A i \in DOMAIN entries : entries[i].id = a => entries[i].status = s

\* An alert with no excuse: untouched by the console it is NEW everywhere;
\* otherwise its entries show what its one request asks for, which has read
\* what is stored, or what is stored.
Right(a, requests, stored, shown, answer) ==
  /\ ~ClickedOn(a, requests) => stored[a] = "NEW" /\ AllShow(answer, a, "NEW")
  /\ (\A t \in Triage : ~Mine(requests[t], a)) => AllShow(shown, a, stored[a])
  /\ \A t \in Triage : Mine(requests[t], a) =>
       /\ AllShow(shown, a, requests[t].status)
       /\ requests[t] \in Working => requests[t].old = stored[a]
       /\ \A u \in Triage : Mine(requests[u], a) => u = t

StatusInv == \A a \in Alert : a \in excused \/ Right(a, triage, table, list, page)

IInv == ConnInv /\ ScreenInv /\ ServerInv /\ TriageInv /\ AuditInv /\ ShownInv /\ StatusInv

\* All parts of the invariant but the last hold when the page is opened.
LEMMA InitInv == Init => ConnInv /\ ScreenInv /\ ServerInv /\ TriageInv /\ AuditInv /\ ShownInv
<1> SUFFICES ASSUME Init PROVE ConnInv /\ ScreenInv /\ ServerInv /\ TriageInv /\ AuditInv /\ ShownInv
  OBVIOUS
<1>1. ConnInv
  BY DEF Init, ConnInv, OfflineAfterFailedRetry
<1>2. ScreenInv
  BY SizeAssumption DEF Init, ScreenInv
<1>3. ServerInv
  <2>1. Committed = {}
    BY DEF Init, Committed
  <2>2. IsFiniteSet(Committed)
    BY <2>1, FS_EmptySet
  <2>3. IsInjective(born) /\ Range(born) = {}
    BY DEF Init, IsInjective, Range
  <2>4. QED
    BY <2>2, <2>3, StatusAssumption DEF Init, ServerInv
<1>4. TriageInv
  BY DEF Init, TriageInv, Fresh
<1>5. AuditInv
  BY DEF Init, AuditInv, AuditTellsStatus, Changed, Working
<1>6. ShownInv
  BY DEF Init, ShownInv
<1>7. QED
  BY <1>1, <1>2, <1>3, <1>4, <1>5, <1>6

-----------------------------------------------------------------------------
(* Which actions concern which variables.                                  *)

\* A step of the console's connection, its list, an alert or a request.
LEMMA StepCases ==
  ASSUME [Next]_vars
  PROVE  \/ Open \/ Close \/ TimerFires
         \/ Receive \/ Simulate \/ AnswerLoad \/ FailLoad \/ ApplyLoad
         \/ \E a \in Alert : Insert(a) \/ WorkerAlert(a)
         \/ \E a \in Alert : Broadcast(a) \/ Echo(a)
         \/ \E a \in Alert, published \in BOOLEAN : AuditAndPublish(a, published)
         \/ \E a \in Alert : CommitAlert(a) \/ AbortAlert(a)
         \/ \E t \in Triage, a \in Alert, s \in Status : Click(t, a, s)
         \/ \E t \in Triage, a \in Alert, s \in Status : OtherPatch(t, a, s)
         \/ \E t \in Triage : Read(t) \/ Flush(t) \/ AuditTriage(t)
         \/ \E t \in Triage : CommitTriage(t)
         \/ \E t \in Triage : FailTriage(t)
         \/ UNCHANGED vars
  BY DEF Next

\* Only the connection's own steps change it.
LEMMA ConnCases ==
  ASSUME [Next]_vars
  PROVE  Open \/ Close \/ TimerFires \/ UNCHANGED <<conn, timer, retryFailed>>
<1> USE DEF client, history
<1>1. CASE Receive \/ Simulate \/ AnswerLoad \/ FailLoad \/ ApplyLoad
  BY <1>1 DEF Receive, Simulate, AnswerLoad, FailLoad, ApplyLoad
<1>2. ASSUME NEW a \in Alert, Insert(a) \/ WorkerAlert(a) \/ Broadcast(a) \/ Echo(a)
                              \/ CommitAlert(a) \/ AbortAlert(a)
      PROVE  UNCHANGED <<conn, timer, retryFailed>>
  BY <1>2 DEF Insert, WorkerAlert, Broadcast, Echo, CommitAlert, AbortAlert
<1>3. ASSUME NEW a \in Alert, NEW published \in BOOLEAN, AuditAndPublish(a, published)
      PROVE  UNCHANGED <<conn, timer, retryFailed>>
  BY <1>3 DEF AuditAndPublish
<1>4. ASSUME NEW t \in Triage, NEW a \in Alert, NEW s \in Status, Click(t, a, s) \/ OtherPatch(t, a, s)
      PROVE  UNCHANGED <<conn, timer, retryFailed>>
  BY <1>4 DEF Click, OtherPatch
<1>5. ASSUME NEW t \in Triage,
             Read(t) \/ Flush(t) \/ AuditTriage(t) \/ CommitTriage(t) \/ FailTriage(t)
      PROVE  UNCHANGED <<conn, timer, retryFailed>>
  BY <1>5 DEF Read, Flush, AuditTriage, CommitTriage, FailTriage
<1>6. QED
  BY <1>1, <1>2, <1>3, <1>4, <1>5, StepCases DEF vars

\* Every step of the client keeps a timer pending only while it is closed.
LEMMA ConnStep == ConnInv /\ [Next]_vars => ConnInv'
<1> SUFFICES ASSUME ConnInv, [Next]_vars PROVE ConnInv'
  OBVIOUS
<1> USE DEF ConnInv, OfflineAfterFailedRetry
<1>1. CASE Open
  BY <1>1 DEF Open, TimerCleared
<1>2. CASE Close
  BY <1>2 DEF Close, ScheduleReconnect
<1>3. CASE TimerFires
  BY <1>3 DEF TimerFires
<1>4. CASE UNCHANGED <<conn, timer, retryFailed>>
  BY <1>4
<1>5. QED
  BY <1>1, <1>2, <1>3, <1>4, ConnCases

\* However connections and attempts end, the console is offline for good only
\* after an attempt that a timer began has failed (OfflineAfterFailedRetry).
THEOREM RetriedUnlessRetryFailed == Spec => []OfflineAfterFailedRetry
<1>1. Init => ConnInv
  BY InitInv
<1>2. ConnInv /\ [Next]_vars => ConnInv'
  BY ConnStep
<1>3. ConnInv => OfflineAfterFailedRetry
  BY DEF ConnInv
<1>4. QED
  BY <1>1, <1>2, <1>3, PTL DEF Spec

-----------------------------------------------------------------------------
(* The list on screen.                                                     *)

\* The least of two numbers, as the length of a list that is cut.
LEMMA LesserOf ==
  ASSUME NEW m \in Nat, NEW n \in Nat
  PROVE  /\ Min({m, n}) \in Nat /\ Min({m, n}) <= m /\ Min({m, n}) <= n
         /\ Min({m, n}) = m \/ Min({m, n}) = n
<1>1. \E x \in {m, n} : \A y \in {m, n} : x <= y
  <2>1. CASE m <= n
    BY <2>1
  <2>2. CASE ~(m <= n)
    BY <2>2
  <2>3. QED
    BY <2>1, <2>2
<1>2. Min({m, n}) \in {m, n} /\ \A y \in {m, n} : Min({m, n}) <= y
  BY <1>1 DEF Min
<1>3. QED
  BY <1>2

\* [newAlert, ...prev.slice(0, 49)]: the new entry, and the others as before.
LEMMA PrependShows ==
  ASSUME NEW S, NEW e \in S, NEW entries \in Seq(S)
  PROVE  /\ Prepend(e, entries) \in Seq(S) /\ Len(Prepend(e, entries)) <= Keep
         /\ Prepend(e, entries)[1] = e /\ 1 \in DOMAIN Prepend(e, entries)
         /\ \A i \in DOMAIN Prepend(e, entries) :
              \/ i = 1
              \/ \E j \in DOMAIN entries : Prepend(e, entries)[i] = entries[j]
<1> DEFINE n == Min({Len(entries), Keep - 1})
           rest == SubSeq(entries, 1, n)
<1>1. n \in Nat /\ n <= Len(entries) /\ n <= Keep - 1
  BY SizeAssumption, LesserOf
<1>2. Prepend(e, entries) = <<e>> \o rest
  BY DEF Prepend
<1> HIDE DEF n
<1>3. rest \in Seq(S) /\ Len(rest) = n /\ \A i \in 1..n : rest[i] = entries[i]
  BY <1>1
<1>4. <<e>> \in Seq(S) /\ Len(<<e>>) = 1 /\ <<e>>[1] = e
  OBVIOUS
<1> HIDE DEF rest
<1> DEFINE one == <<e>>
<1> HIDE DEF one
<1>5. /\ one \o rest \in Seq(S) /\ Len(one \o rest) = 1 + n /\ (one \o rest)[1] = e
      /\ \A i \in 1..(1 + n) : i # 1 => (one \o rest)[i] = rest[i - 1]
  BY <1>1, <1>3, <1>4 DEF one
<1> DEFINE all == one \o rest
<1>6. all = Prepend(e, entries)
  BY <1>2 DEF one
<1> HIDE DEF all
<1>7. /\ all \in Seq(S) /\ DOMAIN all = 1..(1 + n) /\ all[1] = e /\ Len(all) <= Keep
      /\ \A i \in 1..(1 + n) : i # 1 => all[i] = rest[i - 1]
  <2>1. /\ all \in Seq(S) /\ Len(all) = 1 + n /\ all[1] = e
        /\ \A i \in 1..(1 + n) : i # 1 => all[i] = rest[i - 1]
    BY <1>5 DEF all
  <2>2. QED
    BY <1>1, <2>1, SizeAssumption
<1>8. \A i \in 1..(1 + n) : i # 1 => all[i] = entries[i - 1] /\ i - 1 \in DOMAIN entries
  BY <1>1, <1>3, <1>7
<1>9. QED
  BY <1>1, <1>6, <1>7, <1>8

\* So the identities of the list are the old ones and the new one's.
LEMMA PrependIds ==
  ASSUME NEW e \in Entry, NEW entries \in Seq(Entry)
  PROVE  e.id \in Ids(Prepend(e, entries))
  BY PrependShows DEF Ids

\* The click changes no identity.
LEMMA OptimisticShows ==
  ASSUME list \in Seq(Entry), NEW a \in Alert, NEW s \in Status
  PROVE  /\ Optimistic(a, s) \in Seq(Entry) /\ Len(Optimistic(a, s)) = Len(list)
         /\ Ids(Optimistic(a, s)) = Ids(list)
         /\ \A i \in DOMAIN Optimistic(a, s) :
              /\ i \in DOMAIN list /\ Optimistic(a, s)[i].id = list[i].id
              /\ Optimistic(a, s)[i].status = IF list[i].id = a THEN s ELSE list[i].status
<1> DEFINE after == Optimistic(a, s)
           n == Len(list)
<1>1. n \in Nat /\ DOMAIN list = 1..n /\ \A i \in 1..n : list[i] \in Entry
  OBVIOUS
<1>2. after = [i \in 1..n |-> IF list[i].id = a THEN [list[i] EXCEPT !.status = s] ELSE list[i]]
  BY <1>1 DEF Optimistic
<1> HIDE DEF n
<1>3. ASSUME NEW i \in 1..n
      PROVE  LET e == IF list[i].id = a THEN [list[i] EXCEPT !.status = s] ELSE list[i]
             IN  /\ e \in Entry /\ e.id = list[i].id
                 /\ e.status = IF list[i].id = a THEN s ELSE list[i].status
  BY <1>1, <1>3 DEF Entry
<1> HIDE DEF after
<1>4. /\ DOMAIN after = 1..n
      /\ \A i \in 1..n : /\ after[i] \in Entry /\ after[i].id = list[i].id
                         /\ after[i].status = IF list[i].id = a THEN s ELSE list[i].status
  BY <1>2, <1>3
<1>5. after \in [1..n -> Entry]
  <2>1. \E F : after = [i \in 1..n |-> F[i]]
    BY <1>2
  <2>2. QED
    BY <1>4, <2>1
<1>6. after \in Seq(Entry) /\ Len(after) = n
  BY <1>1, <1>5
<1>7. Ids(after) = Ids(list)
  BY <1>1, <1>4 DEF Ids
<1>8. QED
  BY <1>1, <1>4, <1>6, <1>7 DEF after, n

-----------------------------------------------------------------------------
(* The types of the variables.                                             *)

\* The first page of the rows has at most Page of them.
LEMMA PageShows ==
  ASSUME ServerInv, AnswerLoad
  PROVE  /\ page' \in Seq(Entry) /\ Len(page') <= Page
         /\ \A i \in DOMAIN page' : page'[i].id \in Committed /\ page'[i].status = table[page'[i].id]
<1> DEFINE n == Cardinality(Committed)
           m == Min({Page, n})
<1>1. PICK rows \in Bijection(1..n, Committed) :
        page' = [i \in 1..m |-> [id |-> rows[i], status |-> table[rows[i]]]]
  BY DEF AnswerLoad, NewestFirst, Rows
<1>2. n \in Nat
  BY FS_CardinalityType DEF ServerInv
<1> HIDE DEF n
<1>3. m \in Nat /\ m <= Page /\ m <= n
  BY <1>2, SizeAssumption, LesserOf
<1>4. rows \in [1..n -> Committed]
  BY Fun_BijectionProperties
<1>5. Committed \subseteq Alert /\ \A a \in Alert : table[a] \in Status
  BY DEF Committed, ServerInv
<1> HIDE DEF m
<1>6. \A i \in 1..m : rows[i] \in Committed
  BY <1>2, <1>3, <1>4
<1>7. \A i \in 1..m : [id |-> rows[i], status |-> table[rows[i]]] \in Entry
  BY <1>5, <1>6 DEF Entry
<1>8. page' \in [1..m -> Entry]
  BY <1>1, <1>7
<1>9. page' \in Seq(Entry) /\ Len(page') = m /\ DOMAIN page' = 1..m
  BY <1>3, <1>8
<1>10. QED
  BY <1>1, <1>3, <1>6, <1>9

\* The screen, and what is remembered of it, changes in these steps alone.
LEMMA ScreenCases ==
  ASSUME [Next]_vars
  PROVE  \/ Close \/ Receive \/ Simulate \/ AnswerLoad \/ FailLoad \/ ApplyLoad
         \/ \E a \in Alert : Sent(a) /\ UNCHANGED <<list, load, page, listed, overwritten, pushedOut>>
         \/ \E t \in Triage, a \in Alert, s \in Status : Click(t, a, s)
         \/ UNCHANGED <<screen, heard, listed, overwritten, pushedOut>>
<1> USE DEF screen, history
<1>1. CASE Open \/ TimerFires
  BY <1>1 DEF Open, TimerFires
<1>2. ASSUME NEW a \in Alert, Insert(a) \/ WorkerAlert(a) \/ CommitAlert(a) \/ AbortAlert(a)
      PROVE  UNCHANGED <<screen, heard, listed, overwritten, pushedOut>>
  BY <1>2 DEF Insert, WorkerAlert, CommitAlert, AbortAlert
<1>3. ASSUME NEW a \in Alert, Broadcast(a) \/ Echo(a)
      PROVE  Sent(a) /\ UNCHANGED <<list, load, page, listed, overwritten, pushedOut>>
  BY <1>3 DEF Broadcast, Echo
<1>4. ASSUME NEW a \in Alert, NEW published \in BOOLEAN, AuditAndPublish(a, published)
      PROVE  UNCHANGED <<screen, heard, listed, overwritten, pushedOut>>
  BY <1>4 DEF AuditAndPublish
<1>5. ASSUME NEW t \in Triage, NEW a \in Alert, NEW s \in Status, OtherPatch(t, a, s)
      PROVE  UNCHANGED <<screen, heard, listed, overwritten, pushedOut>>
  BY <1>5 DEF OtherPatch
<1>6. ASSUME NEW t \in Triage,
             Read(t) \/ Flush(t) \/ AuditTriage(t) \/ CommitTriage(t) \/ FailTriage(t)
      PROVE  UNCHANGED <<screen, heard, listed, overwritten, pushedOut>>
  BY <1>6 DEF Read, Flush, AuditTriage, CommitTriage, FailTriage
<1>7. QED
  BY <1>1, <1>2, <1>3, <1>4, <1>5, <1>6, StepCases DEF vars

\* Every step keeps the list and the page within their limits.
LEMMA ScreenStep == ScreenInv /\ ServerInv /\ [Next]_vars => ScreenInv'
<1> SUFFICES ASSUME ScreenInv, ServerInv, [Next]_vars PROVE ScreenInv'
  OBVIOUS
<1> USE DEF ScreenInv
<1> DEFINE mock == [id |-> Mock, status |-> "NEW"]
<1>1. mock \in Entry /\ \A a \in Alert : [id |-> a, status |-> "NEW"] \in Entry
  BY StatusAssumption DEF Entry
<1> HIDE DEF mock
<1>2. CASE Close
  BY <1>2 DEF Close
<1>3. CASE Receive
  <2>1. /\ list' = Prepend([id |-> Head(wire), status |-> "NEW"], list)
        /\ wire' = Tail(wire) /\ wire # <<>> /\ UNCHANGED <<load, page>>
    BY <1>3 DEF Receive
  <2>2. Head(wire) \in Alert /\ Tail(wire) \in Seq(Alert)
    BY <2>1
  <2>3. list' \in Seq(Entry) /\ Len(list') <= Keep
    BY <1>1, <2>1, <2>2, PrependShows
  <2>4. QED
    BY <2>1, <2>2, <2>3
<1>4. CASE Simulate
  <2>1. list' = Prepend(mock, list) /\ UNCHANGED <<wire, load, page>>
    BY <1>4 DEF Simulate, mock
  <2>2. list' \in Seq(Entry) /\ Len(list') <= Keep
    BY <1>1, <2>1, PrependShows
  <2>3. QED
    BY <2>1, <2>2
<1>5. CASE AnswerLoad
  <2>1. load' = "answered" /\ UNCHANGED <<wire, list>>
    BY <1>5 DEF AnswerLoad
  <2>2. QED
    BY <1>5, <2>1, PageShows
<1>6. CASE FailLoad
  BY <1>6 DEF FailLoad
<1>7. CASE ApplyLoad
  <2>1. /\ list' = IF page # <<>> THEN page ELSE [i \in 1..3 |-> mock]
        /\ load' = "done" /\ page' = <<>> /\ wire' = wire
    BY <1>7 DEF ApplyLoad, mock
  <2>2. [i \in 1..3 |-> mock] \in Seq(Entry) /\ Len([i \in 1..3 |-> mock]) = 3
    BY <1>1
  <2>3. list' \in Seq(Entry) /\ Len(list') <= Keep
    BY <2>1, <2>2, SizeAssumption
  <2>4. page' \in Seq(Entry) /\ Len(page') <= Page
    BY <2>1, SizeAssumption
  <2>5. QED
    BY <2>1, <2>3, <2>4
<1>8. ASSUME NEW a \in Alert, Sent(a), UNCHANGED <<list, load, page>> PROVE ScreenInv'
  <2>1. wire' = Append(wire, a) \/ wire' = wire
    BY <1>8 DEF Sent
  <2>2. QED
    BY <1>8, <2>1
<1>9. ASSUME NEW t \in Triage, NEW a \in Alert, NEW s \in Status, Click(t, a, s) PROVE ScreenInv'
  <2>1. list' = Optimistic(a, s) /\ UNCHANGED <<wire, load, page>>
    BY <1>9 DEF Click
  <2>2. list' \in Seq(Entry) /\ Len(list') = Len(list)
    BY <2>1, OptimisticShows
  <2>3. QED
    BY <2>1, <2>2
<1>10. CASE UNCHANGED screen
  BY <1>10 DEF screen
<1>11. QED
  BY <1>2, <1>3, <1>4, <1>5, <1>6, <1>7, <1>8, <1>9, <1>10, ScreenCases

\* One alert of the table in another stage of its creation.
LEMMA CreationOf ==
  ASSUME ServerInv, NEW a \in Alert,
         NEW stage \in {"inserted", "audited", "broadcast", "committed", "aborted"},
         creation' = [creation EXCEPT ![a] = stage],
         \/ creation[a] = "none" /\ born' = Append(born, a)
         \/ creation[a] # "none" /\ born' = born,
         echo' \subseteq Alert, table' = table
  PROVE  ServerInv'
<1> USE DEF ServerInv
<1>1. creation' = [b \in Alert |-> IF b = a THEN stage ELSE creation[b]]
  OBVIOUS
<1>2. creation' \in [Alert -> {"none", "inserted", "audited", "broadcast", "committed", "aborted"}]
  OBVIOUS
<1>3. IsFiniteSet(Committed')
  <2>1. Committed' \subseteq Committed \cup {a}
    BY <1>1 DEF Committed
  <2>2. IsFiniteSet(Committed \cup {a})
    BY FS_AddElement
  <2>3. QED
    BY <2>1, <2>2, FS_Subset
<1>4. /\ born' \in Seq(Alert) /\ IsInjective(born')
      /\ \A b \in Alert : b \in Range(born') <=> b = a \/ b \in Range(born)
  <2>1. CASE creation[a] = "none" /\ born' = Append(born, a)
    <3>1. a \notin Range(born)
      BY <2>1
    <3>2. /\ born' \in Seq(Alert) /\ DOMAIN born' = 1..(Len(born) + 1)
          /\ born'[Len(born) + 1] = a /\ \A k \in 1..Len(born) : born'[k] = born[k]
      BY <2>1
    <3>3. DOMAIN born = 1..Len(born) /\ Len(born) \in Nat
      OBVIOUS
    <3>4. \A k \in 1..Len(born) : born'[k] # a
      BY <3>1, <3>2, <3>3 DEF Range
    <3>5. IsInjective(born')
      <4>1. \A k, l \in DOMAIN born : born[k] = born[l] => k = l
        BY DEF IsInjective
      <4>2. \A k \in DOMAIN born' : k \in DOMAIN born \/ k = Len(born) + 1
        BY <3>2, <3>3
      <4>3. QED
        BY <3>2, <3>3, <3>4, <4>1, <4>2 DEF IsInjective
    <3>6. \A b \in Alert : b \in Range(born') <=> b = a \/ b \in Range(born)
      BY <3>2, <3>3 DEF Range
    <3>7. QED
      BY <3>2, <3>5, <3>6
  <2>2. CASE creation[a] # "none" /\ born' = born
    BY <2>2
  <2>3. QED
    BY <2>1, <2>2
<1>5. \A b \in Alert : creation'[b] = "none" <=> b \notin Range(born')
  BY <1>1, <1>4
<1>6. QED
  BY <1>2, <1>3, <1>4, <1>5

\* Every step keeps the alerts' order of creation and their stored statuses.
LEMMA ServerStep == ServerInv /\ TriageInv /\ [Next]_vars => ServerInv'
<1> SUFFICES ASSUME ServerInv, TriageInv, [Next]_vars PROVE ServerInv'
  OBVIOUS
<1>1. ASSUME UNCHANGED <<born, creation>>, echo' \subseteq Alert, table' \in [Alert -> Status]
      PROVE  ServerInv'
  BY <1>1 DEF ServerInv, Committed
<1>2. echo \subseteq Alert /\ table \in [Alert -> Status]
  BY DEF ServerInv
<1>3. ASSUME UNCHANGED server PROVE ServerInv'
  BY <1>1, <1>2, <1>3 DEF server
<1>4. CASE Open \/ Close \/ TimerFires
  BY <1>3, <1>4 DEF Open, Close, TimerFires
<1>5. CASE Receive \/ Simulate \/ AnswerLoad \/ FailLoad \/ ApplyLoad
  BY <1>3, <1>5 DEF Receive, Simulate, AnswerLoad, FailLoad, ApplyLoad
<1>6. ASSUME NEW a \in Alert, Insert(a) PROVE ServerInv'
  BY <1>2, <1>6, CreationOf DEF Insert
<1>7. ASSUME NEW a \in Alert, WorkerAlert(a) PROVE ServerInv'
  BY <1>2, <1>7, CreationOf DEF WorkerAlert
<1>8. ASSUME NEW a \in Alert, Broadcast(a) PROVE ServerInv'
  BY <1>2, <1>8, CreationOf DEF Broadcast
<1>9. ASSUME NEW a \in Alert, Echo(a) PROVE ServerInv'
  BY <1>1, <1>2, <1>9 DEF Echo
<1>10. ASSUME NEW a \in Alert, CommitAlert(a) PROVE ServerInv'
  BY <1>2, <1>10, CreationOf DEF CommitAlert
<1>11. ASSUME NEW a \in Alert, AbortAlert(a) PROVE ServerInv'
  BY <1>2, <1>11, CreationOf DEF AbortAlert
<1>12. ASSUME NEW a \in Alert, NEW published \in BOOLEAN, AuditAndPublish(a, published)
       PROVE  ServerInv'
  <2>1. echo' \subseteq Alert
    BY <1>2, <1>12 DEF AuditAndPublish
  <2>2. QED
    BY <1>12, <2>1, CreationOf DEF AuditAndPublish
<1>13. ASSUME NEW t \in Triage, NEW a \in Alert, NEW s \in Status, Click(t, a, s) \/ OtherPatch(t, a, s)
       PROVE  ServerInv'
  BY <1>3, <1>13 DEF Click, OtherPatch
<1>14. ASSUME NEW t \in Triage, Read(t) \/ Flush(t) \/ AuditTriage(t) \/ FailTriage(t)
       PROVE  ServerInv'
  BY <1>3, <1>14 DEF Read, Flush, AuditTriage, FailTriage
<1>15. ASSUME NEW t \in Triage, CommitTriage(t) PROVE ServerInv'
  <2>1. /\ triage[t].stage = "audited" /\ UNCHANGED <<born, creation, echo>>
        /\ table' = IF Updates(t) THEN [table EXCEPT ![triage[t].alert] = triage[t].status] ELSE table
    BY <1>15 DEF CommitTriage
  <2>2. triage[t].status \in Status
    BY <2>1 DEF TriageInv, Fresh, Asked, Working, Over
  <2>3. table' \in [Alert -> Status]
    BY <1>2, <2>1, <2>2
  <2>4. QED
    BY <1>1, <1>2, <2>1, <2>3
<1>16. CASE UNCHANGED vars
  BY <1>3, <1>16 DEF vars
<1>17. QED
  BY <1>4, <1>5, <1>6, <1>7, <1>8, <1>9, <1>10, <1>11, <1>12, <1>13, <1>14, <1>15, <1>16, StepCases

\* A request that is under way has what its stage needs.
LEMMA RequestStage ==
  ASSUME TriageInv, NEW t \in Triage
  PROVE  /\ triage[t].stage = "none" <=> triage[t] = Fresh
         /\ triage[t].stage = "sent" <=> triage[t] \in Asked
         /\ triage[t].stage \in {"read", "flushed", "audited"} <=> triage[t] \in Working
         /\ triage[t].stage \in {"committed", "failed"} <=> triage[t] \in Over
         /\ InFlight(t) <=> triage[t] \in Asked \cup Working
         /\ triage[t].stage # "none" => triage[t].mine \in BOOLEAN /\ triage[t].alert \in Alert
         /\ InFlight(t) => triage[t].status \in Status
  BY DEF TriageInv, Fresh, Asked, Working, Over, InFlight

\* What a request has become.
LEMMA RequestSteps ==
  ASSUME TriageInv, ServerInv, NEW t \in Triage
  PROVE  /\ \A stage \in {"committed", "failed"} :
              InFlight(t) /\ End(t, stage) =>
                \E r \in Over : /\ triage' = [triage EXCEPT ![t] = r] /\ r.stage = stage
                                /\ r.mine = triage[t].mine /\ r.alert = triage[t].alert
         /\ \A stage \in {"flushed", "audited"} :
              triage[t] \in Working /\ To(t, stage) =>
                \E r \in Working : /\ triage' = [triage EXCEPT ![t] = r] /\ r.stage = stage
                                   /\ r.mine = triage[t].mine /\ r.alert = triage[t].alert
                                   /\ r.status = triage[t].status /\ r.old = triage[t].old
<1>1. ASSUME NEW stage \in {"committed", "failed"}, InFlight(t), End(t, stage)
      PROVE  \E r \in Over : /\ triage' = [triage EXCEPT ![t] = r] /\ r.stage = stage
                             /\ r.mine = triage[t].mine /\ r.alert = triage[t].alert
  <2> DEFINE r == [stage |-> stage, mine |-> triage[t].mine, alert |-> triage[t].alert]
  <2>1. triage' = [triage EXCEPT ![t] = r]
    BY <1>1 DEF End, TriageInv
  <2>2. r \in Over
    BY <1>1, RequestStage DEF Over, InFlight
  <2>3. QED
    BY <2>1, <2>2
<1>2. ASSUME NEW stage \in {"flushed", "audited"}, triage[t] \in Working, To(t, stage)
      PROVE  \E r \in Working : /\ triage' = [triage EXCEPT ![t] = r] /\ r.stage = stage
                                /\ r.mine = triage[t].mine /\ r.alert = triage[t].alert
                                /\ r.status = triage[t].status /\ r.old = triage[t].old
  <2> DEFINE r == [triage[t] EXCEPT !.stage = stage]
  <2>1. triage' = [triage EXCEPT ![t] = r]
    BY <1>2 DEF To, TriageInv
  <2>2. /\ r \in Working /\ r.stage = stage
        /\ r.mine = triage[t].mine /\ r.alert = triage[t].alert
        /\ r.status = triage[t].status /\ r.old = triage[t].old
    BY <1>2 DEF Working
  <2> HIDE DEF r
  <2>3. QED
    BY <2>1, <2>2
<1>3. QED
  BY <1>1, <1>2

\* A new request, of the console or of another analyst.
LEMMA RequestSent ==
  ASSUME TriageInv, NEW t \in Triage, NEW a \in Alert, NEW s \in Status,
         Click(t, a, s) \/ OtherPatch(t, a, s)
  PROVE  \E r \in Asked : /\ triage' = [triage EXCEPT ![t] = r] /\ triage[t] = Fresh
                          /\ r.alert = a /\ r.status = s
                          /\ r.mine <=> Click(t, a, s)
<1> DEFINE of(mine) == [stage |-> "sent", mine |-> mine, alert |-> a, status |-> s]
<1>1. triage[t] = Fresh
  BY RequestStage DEF Click, OtherPatch
<1>2. \A mine \in BOOLEAN : of(mine) \in Asked
  BY DEF Asked
<1>3. CASE Click(t, a, s)
  BY <1>1, <1>2, <1>3 DEF Click
<1>4. CASE OtherPatch(t, a, s)
  <2>1. triage' = [triage EXCEPT ![t] = of(FALSE)] /\ list' = list /\ UNCHANGED excused
    BY <1>4 DEF OtherPatch, screen, history
  <2>2. CASE ~Click(t, a, s)
    BY <1>1, <1>2, <2>1, <2>2
  <2>3. QED
    BY <1>3, <2>2
<1>5. QED
  BY <1>3, <1>4

\* The SELECT of a request.
LEMMA RequestRead ==
  ASSUME TriageInv, ServerInv, NEW t \in Triage, Read(t)
  PROVE  /\ triage[t] \in Asked
         /\ \/ \E r \in Working : /\ triage' = [triage EXCEPT ![t] = r] /\ triage[t].alert \in Committed
                                  /\ r.stage = "read" /\ r.old = table[triage[t].alert]
                                  /\ r.mine = triage[t].mine /\ r.alert = triage[t].alert
                                  /\ r.status = triage[t].status /\ excused' = excused
            \/ /\ triage[t].alert \notin Committed /\ End(t, "failed")
               /\ excused' = IF triage[t].mine THEN excused \cup {triage[t].alert} ELSE excused
<1>1. triage[t] \in Asked
  BY RequestStage DEF Read
<1>2. CASE triage[t].alert \in Committed
  <2> DEFINE r == [stage |-> "read", mine |-> triage[t].mine, alert |-> triage[t].alert,
                   status |-> triage[t].status, old |-> table[triage[t].alert]]
  <2>1. triage' = [triage EXCEPT ![t] = r] /\ excused' = excused
    BY <1>2 DEF Read, TriageInv
  <2>2. r \in Working
    BY <1>1 DEF Asked, Working, ServerInv
  <2>3. QED
    BY <1>1, <1>2, <2>1, <2>2
<1>3. CASE triage[t].alert \notin Committed
  BY <1>1, <1>3 DEF Read
<1>4. QED
  BY <1>2, <1>3

\* A request that goes on stays what it was.
LEMMA RequestGoesOn ==
  ASSUME TriageInv, ServerInv, NEW t \in Triage, Flush(t) \/ AuditTriage(t)
  PROVE  \E r \in Working : /\ triage[t] \in Working /\ triage' = [triage EXCEPT ![t] = r]
                            /\ r.mine = triage[t].mine /\ r.alert = triage[t].alert
                            /\ r.status = triage[t].status /\ r.old = triage[t].old
<1>1. triage[t] \in Working
  BY RequestStage DEF Flush, AuditTriage
<1>2. CASE Flush(t)
  BY <1>1, <1>2, RequestSteps DEF Flush
<1>3. CASE AuditTriage(t)
  BY <1>1, <1>3, RequestSteps DEF AuditTriage
<1>4. QED
  BY <1>2, <1>3

\* A request ends, committed or not.
LEMMA RequestEnds ==
  ASSUME TriageInv, ServerInv, NEW t \in Triage,
         CommitTriage(t) \/ FailTriage(t) \/ (Read(t) /\ triage[t].alert \notin Committed)
  PROVE  \E r \in Over : /\ InFlight(t) /\ triage' = [triage EXCEPT ![t] = r]
                         /\ r.mine = triage[t].mine /\ r.alert = triage[t].alert
<1>1. InFlight(t)
  BY DEF CommitTriage, FailTriage, Read, InFlight
<1>2. End(t, "committed") \/ End(t, "failed")
  BY DEF CommitTriage, FailTriage, Read
<1>3. QED
  BY <1>1, <1>2, RequestSteps

\* What requests do in a step.
LEMMA RequestCases ==
  ASSUME [Next]_vars
  PROVE  \/ UNCHANGED <<triage, audit, table>>
         \/ \E t \in Triage, a \in Alert, s \in Status :
              (Click(t, a, s) \/ OtherPatch(t, a, s)) /\ UNCHANGED <<audit, table>>
         \/ \E t \in Triage : (Read(t) \/ Flush(t) \/ AuditTriage(t) \/ FailTriage(t))
                              /\ UNCHANGED <<audit, table>>
         \/ \E t \in Triage : CommitTriage(t)
<1> USE DEF changes, server
<1>1. CASE Open \/ Close \/ TimerFires
  BY <1>1 DEF Open, Close, TimerFires
<1>2. CASE Receive \/ Simulate \/ AnswerLoad \/ FailLoad \/ ApplyLoad
  BY <1>2 DEF Receive, Simulate, AnswerLoad, FailLoad, ApplyLoad
<1>3. ASSUME NEW a \in Alert, Insert(a) \/ WorkerAlert(a) \/ Broadcast(a) \/ Echo(a)
                              \/ CommitAlert(a) \/ AbortAlert(a)
      PROVE  UNCHANGED <<triage, audit, table>>
  BY <1>3 DEF Insert, WorkerAlert, Broadcast, Echo, CommitAlert, AbortAlert
<1>4. ASSUME NEW a \in Alert, NEW published \in BOOLEAN, AuditAndPublish(a, published)
      PROVE  UNCHANGED <<triage, audit, table>>
  BY <1>4 DEF AuditAndPublish
<1>5. ASSUME NEW t \in Triage, NEW a \in Alert, NEW s \in Status, Click(t, a, s) \/ OtherPatch(t, a, s)
      PROVE  UNCHANGED <<audit, table>>
  BY <1>5 DEF Click, OtherPatch
<1>6. ASSUME NEW t \in Triage, Read(t) \/ Flush(t) \/ AuditTriage(t) \/ FailTriage(t)
      PROVE  UNCHANGED <<audit, table>>
  BY <1>6 DEF Read, Flush, AuditTriage, FailTriage
<1>7. QED
  BY <1>1, <1>2, <1>3, <1>4, <1>5, <1>6, StepCases DEF vars

\* Every step keeps each PATCH request's record in the shape of its stage.
LEMMA TriageStep == TriageInv /\ ServerInv /\ [Next]_vars => TriageInv'
<1> SUFFICES ASSUME TriageInv, ServerInv, [Next]_vars PROVE TriageInv'
  OBVIOUS
<1>1. ASSUME NEW t \in Triage, NEW r \in {Fresh} \cup Asked \cup Working \cup Over,
             triage' = [triage EXCEPT ![t] = r]
      PROVE  TriageInv'
  BY <1>1 DEF TriageInv
<1>2. ASSUME NEW t \in Triage, NEW a \in Alert, NEW s \in Status, Click(t, a, s) \/ OtherPatch(t, a, s)
      PROVE  TriageInv'
  BY <1>1, <1>2, RequestSent
<1>3. ASSUME NEW t \in Triage, Read(t) PROVE TriageInv'
  BY <1>1, <1>3, RequestRead, RequestEnds
<1>4. ASSUME NEW t \in Triage, Flush(t) \/ AuditTriage(t) PROVE TriageInv'
  BY <1>1, <1>4, RequestGoesOn
<1>5. ASSUME NEW t \in Triage, CommitTriage(t) \/ FailTriage(t) PROVE TriageInv'
  BY <1>1, <1>5, RequestEnds
<1>6. CASE UNCHANGED triage
  BY <1>6 DEF TriageInv
<1>7. QED
  BY <1>2, <1>3, <1>4, <1>5, <1>6, RequestCases

-----------------------------------------------------------------------------
(* The ledger.                                                             *)

\* What is stored is a status the alert has had.
LEMMA StoredHad ==
  ASSUME AuditInv, NEW a \in Alert
  PROVE  Had(a, table[a], audit)
  BY DEF AuditInv, AuditTellsStatus, Changed, Had

\* Records are only added, so what an alert has had it always will.
LEMMA HadForGood ==
  ASSUME NEW a, NEW s, NEW records \in Seq(Record), NEW e \in Record, Had(a, s, records)
  PROVE  Had(a, s, Append(records, e))
<1>1. \A j \in DOMAIN records : j \in DOMAIN Append(records, e) /\ Append(records, e)[j] = records[j]
  OBVIOUS
<1>2. QED
  BY <1>1 DEF Had

\* The record of a commit is the last that changed the alert, if it did.
LEMMA CommitTold ==
  ASSUME AuditInv, ServerInv, TriageInv, NEW t \in Triage, CommitTriage(t)
  PROVE  AuditInv'
<1> DEFINE a == triage[t].alert
           e == [alert |-> a, old |-> triage[t].old, new |-> triage[t].status]
           n == Len(audit)
<1>1. triage[t] \in Working
  BY RequestStage DEF CommitTriage
<1>2. e \in Record /\ a \in Alert /\ triage[t].status \in Status
  BY <1>1 DEF Working, Record
<1>3. /\ audit' = Append(audit, e)
      /\ table' = IF e.new # e.old THEN [table EXCEPT ![a] = e.new] ELSE table
  BY DEF CommitTriage, Updates
<1>4. Had(a, e.old, audit)
  BY <1>1 DEF AuditInv
<1>5. audit \in Seq(Record) /\ table \in [Alert -> Status]
  BY DEF AuditInv, ServerInv
<1>6. e.alert = a
  OBVIOUS
<1> HIDE DEF e, a
<1>7. /\ audit' \in Seq(Record) /\ DOMAIN audit' = 1..(n + 1) /\ audit'[n + 1] = e
      /\ \A j \in 1..n : audit'[j] = audit[j]
  BY <1>2, <1>3, <1>5
<1>8. n \in Nat /\ DOMAIN audit = 1..n
  BY <1>5
<1> HIDE DEF n
<1>9. \A b \in Alert : Changed(b)' = IF b = a /\ e.new # e.old THEN Changed(b) \cup {n + 1} ELSE Changed(b)
  <2> SUFFICES ASSUME NEW b \in Alert
               PROVE  Changed(b)' = IF b = a /\ e.new # e.old THEN Changed(b) \cup {n + 1} ELSE Changed(b)
    OBVIOUS
  <2>1. Changed(b) = {i \in 1..n : audit[i].alert = b /\ audit[i].old # audit[i].new}
    BY <1>8 DEF Changed
  <2>2. Changed(b)' = {i \in 1..(n + 1) : audit'[i].alert = b /\ audit'[i].old # audit'[i].new}
    BY <1>7 DEF Changed
  <2>3. \A i \in 1..(n + 1) : i \in 1..n \/ i = n + 1
    BY <1>8
  <2>4. 1..n \subseteq 1..(n + 1) /\ n + 1 \in 1..(n + 1)
    BY <1>8
  <2>5. QED
    BY <1>6, <1>7, <2>1, <2>2, <2>3, <2>4
<1>10. AuditTellsStatus'
  <2>1. ASSUME NEW b \in Alert
        PROVE  \/ Changed(b)' = {} /\ table'[b] = "NEW"
               \/ \E i \in Changed(b)' : (\A j \in Changed(b)' : j <= i) /\ table'[b] = audit'[i].new
    <3>1. CASE b = a /\ e.new # e.old
      <4>1. table'[b] = e.new
        BY <1>2, <1>3, <1>5, <3>1
      <4>2. \A j \in Changed(b) : j <= n + 1
        BY <1>8 DEF Changed
      <4>3. QED
        BY <1>7, <1>8, <1>9, <3>1, <4>1, <4>2
    <3>2. CASE ~(b = a /\ e.new # e.old)
      <4>1. table'[b] = table[b] /\ Changed(b)' = Changed(b)
        BY <1>2, <1>3, <1>5, <1>9, <3>2
      <4>2. \A i \in Changed(b) : audit'[i].new = audit[i].new
        BY <1>7, <1>8 DEF Changed
      <4>3. \/ Changed(b) = {} /\ table[b] = "NEW"
            \/ \E i \in Changed(b) : (\A j \in Changed(b) : j <= i) /\ table[b] = audit[i].new
        BY DEF AuditInv, AuditTellsStatus
      <4>4. QED
        BY <4>1, <4>2, <4>3
    <3>3. QED
      BY <3>1, <3>2
  <2>2. ASSUME NEW i \in 1..(n + 1)
        PROVE  \/ audit'[i].old = "NEW"
               \/ \E j \in 1..(i - 1) : audit'[j].alert = audit'[i].alert /\ audit'[j].new = audit'[i].old
    <3>1. CASE i \in 1..n
      <4>1. \/ audit[i].old = "NEW"
            \/ \E j \in 1..(i - 1) : audit[j].alert = audit[i].alert /\ audit[j].new = audit[i].old
        BY <1>8, <3>1 DEF AuditInv, AuditTellsStatus
      <4>2. \A j \in 1..(i - 1) : j \in 1..n
        BY <1>8, <3>1
      <4>3. QED
        BY <1>7, <3>1, <4>1, <4>2
    <3>2. CASE i = n + 1
      <4>1. 1..(i - 1) = 1..n
        BY <1>8, <3>2
      <4>2. e.old = "NEW" \/ \E j \in 1..n : audit[j].alert = a /\ audit[j].new = e.old
        BY <1>4, <1>8 DEF Had
      <4>3. QED
        BY <1>6, <1>7, <3>2, <4>1, <4>2
    <3>3. QED
      BY <1>8, <3>1, <3>2
  <2>3. QED
    BY <1>7, <2>1, <2>2 DEF AuditTellsStatus
<1>11. ASSUME NEW u \in Triage, triage'[u] \in Working PROVE Had(triage'[u].alert, triage'[u].old, audit')
  <2>1. PICK r \in Over : triage' = [triage EXCEPT ![t] = r]
    BY RequestEnds
  <2>2. r \notin Working
    BY DEF Over, Working
  <2>3. u # t /\ triage'[u] = triage[u]
    BY <1>11, <2>1, <2>2 DEF TriageInv
  <2>4. Had(triage[u].alert, triage[u].old, audit)
    BY <1>11, <2>3 DEF AuditInv
  <2>5. QED
    BY <1>2, <1>3, <1>5, <2>3, <2>4, HadForGood
<1>12. QED
  BY <1>7, <1>10, <1>11 DEF AuditInv

\* Every step keeps the audit's old and new statuses those the alerts had.
LEMMA AuditStep == AuditInv /\ ServerInv /\ TriageInv /\ [Next]_vars => AuditInv'
<1> SUFFICES ASSUME AuditInv, ServerInv, TriageInv, [Next]_vars PROVE AuditInv'
  OBVIOUS
<1>1. ASSUME UNCHANGED <<audit, table>>,
             \A t \in Triage : triage'[t] \in Working => Had(triage'[t].alert, triage'[t].old, audit)
      PROVE  AuditInv'
  BY <1>1 DEF AuditInv, AuditTellsStatus, Changed
<1>2. \A t \in Triage : triage[t] \in Working => Had(triage[t].alert, triage[t].old, audit)
  BY DEF AuditInv
<1>3. ASSUME NEW t \in Triage, NEW r, triage' = [triage EXCEPT ![t] = r], UNCHANGED <<audit, table>>,
             r \in Working => Had(r.alert, r.old, audit)
      PROVE  AuditInv'
  BY <1>1, <1>2, <1>3 DEF TriageInv
<1>4. CASE UNCHANGED <<triage, audit, table>>
  BY <1>1, <1>2, <1>4
<1>5. ASSUME NEW t \in Triage, NEW a \in Alert, NEW s \in Status, UNCHANGED <<audit, table>>,
             Click(t, a, s) \/ OtherPatch(t, a, s)
      PROVE  AuditInv'
  <2>1. PICK r \in Asked : triage' = [triage EXCEPT ![t] = r]
    BY <1>5, RequestSent
  <2>2. r \notin Working
    BY DEF Asked, Working
  <2>3. QED
    BY <1>3, <1>5, <2>1, <2>2
<1>6. ASSUME NEW t \in Triage, UNCHANGED <<audit, table>>, Flush(t) \/ AuditTriage(t) PROVE AuditInv'
  BY <1>2, <1>3, <1>6, RequestGoesOn
<1>7. ASSUME NEW t \in Triage, UNCHANGED <<audit, table>>, NEW r \in Over, triage' = [triage EXCEPT ![t] = r]
      PROVE  AuditInv'
  <2>1. r \notin Working
    BY DEF Over, Working
  <2>2. QED
    BY <1>3, <1>7, <2>1
<1>8. ASSUME NEW t \in Triage, UNCHANGED <<audit, table>>, FailTriage(t) PROVE AuditInv'
  BY <1>7, <1>8, RequestEnds
<1>9. ASSUME NEW t \in Triage, UNCHANGED <<audit, table>>, Read(t) PROVE AuditInv'
  <2>1. CASE triage[t].alert \notin Committed
    BY <1>7, <1>9, <2>1, RequestEnds
  <2>2. CASE triage[t].alert \in Committed
    <3>1. PICK r \in Working : /\ triage' = [triage EXCEPT ![t] = r]
                               /\ r.old = table[triage[t].alert] /\ r.alert = triage[t].alert
      BY <1>9, <2>2, RequestRead
    <3>2. Had(r.alert, r.old, audit)
      BY <2>2, <3>1, StoredHad DEF Committed
    <3>3. QED
      BY <1>3, <1>9, <3>1, <3>2
  <2>3. QED
    BY <2>1, <2>2
<1>10. QED
  BY <1>4, <1>5, <1>6, <1>8, <1>9, CommitTold, RequestCases

\* However requests overlap, the ledger tells what is stored, and what each
\* request read before is a status the alert has had (AuditTellsStatus).
THEOREM LedgerTellsStatus == Spec => []AuditTellsStatus
<1> DEFINE I == ServerInv /\ TriageInv /\ AuditInv
<1>1. Init => I
  BY InitInv
<1>2. I /\ [Next]_vars => I'
  BY ServerStep, TriageStep, AuditStep
<1>3. I => AuditTellsStatus
  BY DEF AuditInv
<1>4. QED
  BY <1>1, <1>2, <1>3, PTL DEF Spec

-----------------------------------------------------------------------------
(* What was sent or listed is shown.                                       *)

\* An alert that fewer than Page committed ones are newer than is on the page.
LEMMA PageHasNewest ==
  ASSUME ServerInv, AnswerLoad
  PROVE  listed' \subseteq Ids(page')
<1> DEFINE n == Cardinality(Committed)
           m == Min({Page, n})
           newer(a) == {b \in Committed : Before(a, b)}
<1>1. PICK rows \in Bijection(1..n, Committed) :
        /\ \A i, j \in DOMAIN rows : i < j => Before(rows[j], rows[i])
        /\ page' = [i \in 1..m |-> [id |-> rows[i], status |-> table[rows[i]]]]
  BY DEF AnswerLoad, NewestFirst, Rows
<1>2. listed' = {a \in Committed : Cardinality(newer(a)) < Page}
  BY DEF AnswerLoad
<1>3. n \in Nat /\ IsFiniteSet(Committed)
  BY FS_CardinalityType DEF ServerInv
<1> HIDE DEF n, newer
<1>4. m \in Nat /\ (m = Page \/ m = n)
  BY <1>3, SizeAssumption, LesserOf
<1>5. /\ rows \in [1..n -> Committed] /\ \A i, j \in 1..n : rows[i] = rows[j] => i = j
      /\ \A a \in Committed : \E i \in 1..n : rows[i] = a
  <2> DEFINE D == 1..n
  <2>1. rows \in Bijection(D, Committed)
    OBVIOUS
  <2> HIDE DEF D
  <2>2. /\ rows \in [D -> Committed] /\ \A i, j \in D : rows[i] = rows[j] => i = j
        /\ \A a \in Committed : \E i \in D : rows[i] = a
    BY <2>1, Fun_BijectionProperties
  <2>3. QED
    BY <2>2 DEF D
<1>6. ASSUME NEW k \in 1..n, Cardinality(newer(rows[k])) < Page
      PROVE  k <= Page
  <2> DEFINE above == {rows[i] : i \in 1..(k - 1)}
             at == [i \in 1..(k - 1) |-> rows[i]]
  <2>1. \A i \in 1..(k - 1) : i \in 1..n /\ i < k
    BY <1>3
  <2>2. above \subseteq newer(rows[k])
    BY <1>1, <1>5, <2>1 DEF newer
  <2>3. IsFiniteSet(newer(rows[k]))
    BY <1>3, FS_Subset DEF newer
  <2>4. at \in Bijection(1..(k - 1), above)
    <3>1. /\ at \in [1..(k - 1) -> above]
          /\ \A i, j \in 1..(k - 1) : at[i] = at[j] => i = j
          /\ \A a \in above : \E i \in 1..(k - 1) : at[i] = a
      BY <1>5, <2>1
    <3>2. QED
      BY <3>1, Fun_IsBij
  <2>5. k - 1 \in Nat /\ k \in Nat
    BY <1>3
  <2>6. IsFiniteSet(1..(k - 1)) /\ Cardinality(1..(k - 1)) = k - 1
    BY <2>5, FS_Interval
  <2> HIDE DEF above, at
  <2>7. Cardinality(above) = k - 1
    BY <2>4, <2>6, FS_Bijection DEF ExistsBijection
  <2>8. Cardinality(above) <= Cardinality(newer(rows[k])) /\ Cardinality(newer(rows[k])) \in Nat
    BY <2>2, <2>3, FS_Subset, FS_CardinalityType
  <2>9. QED
    BY <1>6, <2>5, <2>7, <2>8, SizeAssumption
<1>7. ASSUME NEW a \in listed' PROVE a \in Ids(page')
  <2>1. a \in Committed /\ Cardinality(newer(a)) < Page
    BY <1>2
  <2>2. PICK k \in 1..n : rows[k] = a
    BY <1>5, <2>1
  <2>3. k <= Page
    BY <1>6, <2>1, <2>2
  <2>4. k \in 1..m
    BY <1>3, <1>4, <2>3
  <2> HIDE DEF m
  <2>5. k \in DOMAIN page' /\ page'[k].id = a
    BY <1>1, <2>2, <2>4
  <2>6. QED
    BY <2>5 DEF Ids
<1>8. QED
  BY <1>7

\* Every alert heard or listed stays on the screen, or was overwritten or pushed out.
LEMMA ShownStep == ScreenInv /\ ServerInv /\ ShownInv /\ [Next]_vars => ShownInv'
<1> SUFFICES ASSUME ScreenInv, ServerInv, ShownInv, [Next]_vars PROVE ShownInv'
  OBVIOUS
<1> DEFINE mock == [id |-> Mock, status |-> "NEW"]
<1>1. /\ wire \in Seq(Alert) /\ list \in Seq(Entry)
      /\ mock \in Entry /\ \A a \in Alert : [id |-> a, status |-> "NEW"] \in Entry
  BY StatusAssumption DEF ScreenInv, Entry
<1> HIDE DEF mock
<1>2. CASE Close
  <2>1. /\ wire' = <<>> /\ heard' = heard \ Range(wire)
        /\ UNCHANGED <<list, load, page, listed, overwritten, pushedOut>>
    BY <1>2 DEF Close
  <2>2. QED
    BY <2>1 DEF ShownInv, Ids
<1>3. CASE Receive
  <2> DEFINE e == [id |-> Head(wire), status |-> "NEW"]
  <2>1. /\ wire # <<>> /\ wire' = Tail(wire) /\ list' = Prepend(e, list)
        /\ pushedOut' = pushedOut \cup (Ids(list) \ Ids(list'))
        /\ UNCHANGED <<load, page, heard, listed, overwritten>>
    BY <1>3 DEF Receive
  <2>2. e \in Entry /\ e.id = Head(wire)
    BY <1>1, <2>1
  <2> HIDE DEF e
  <2>3. Head(wire) \in Ids(list')
    BY <1>1, <2>1, <2>2, PrependIds
  <2>4. Range(wire) \subseteq Range(wire') \cup {Head(wire)}
    <3>1. \A i \in DOMAIN wire : wire[i] = Head(wire) \/ \E k \in DOMAIN Tail(wire) : Tail(wire)[k] = wire[i]
      <4> SUFFICES ASSUME NEW i \in 1..Len(wire), i # 1
                   PROVE  \E k \in DOMAIN Tail(wire) : Tail(wire)[k] = wire[i]
        BY <1>1, <2>1
      <4>1. i - 1 \in DOMAIN Tail(wire) /\ Tail(wire)[i - 1] = wire[i]
        BY <1>1, <2>1
      <4>2. QED
        BY <4>1
    <3>2. QED
      BY <2>1, <3>1 DEF Range
  <2>5. Ids(page') = Ids(page)
    BY <2>1
  <2>6. QED
    BY <2>1, <2>3, <2>4, <2>5 DEF ShownInv
<1>4. CASE Simulate
  <2>1. /\ list' = Prepend(mock, list)
        /\ pushedOut' = pushedOut \cup (Ids(list) \ (Ids(list') \cup {Mock}))
        /\ UNCHANGED <<wire, load, page, heard, listed, overwritten>>
    BY <1>4 DEF Simulate, mock
  <2>2. mock.id = Mock
    BY DEF mock
  <2>3. Mock \in Ids(list')
    BY <1>1, <2>1, <2>2, PrependIds
  <2>4. Ids(page') = Ids(page) /\ Range(wire') = Range(wire)
    BY <2>1
  <2>5. QED
    BY <2>1, <2>3, <2>4 DEF ShownInv
<1>5. CASE AnswerLoad
  <2>1. /\ load = "asked" /\ load' = "answered"
        /\ UNCHANGED <<wire, list, heard, overwritten, pushedOut>>
    BY <1>5 DEF AnswerLoad
  <2>2. listed' \subseteq Ids(page')
    BY <1>5, PageHasNewest
  <2>3. Ids(list') = Ids(list) /\ Range(wire') = Range(wire)
    BY <2>1
  <2>4. QED
    BY <2>1, <2>2, <2>3 DEF ShownInv
<1>6. CASE FailLoad
  <2>1. /\ load = "asked" /\ load' = "answered"
        /\ UNCHANGED <<wire, list, page, heard, listed, overwritten, pushedOut>>
    BY <1>6 DEF FailLoad, history
  <2>2. Ids(list') = Ids(list) /\ Range(wire') = Range(wire)
    BY <2>1
  <2>3. QED
    BY <2>1, <2>2 DEF ShownInv
<1>7. CASE ApplyLoad
  <2>1. /\ load = "answered" /\ load' = "done" /\ (page # <<>> => list' = page)
        /\ overwritten' = Ids(list) \ Ids(page)
        /\ UNCHANGED <<wire, heard, listed, pushedOut>>
    BY <1>7 DEF ApplyLoad
  <2>2. Ids(page) \subseteq Ids(list')
    BY <2>1 DEF Ids
  <2>3. Range(wire') = Range(wire)
    BY <2>1
  <2>4. QED
    BY <2>1, <2>2, <2>3 DEF ShownInv
<1>8. ASSUME NEW a \in Alert, Sent(a), UNCHANGED <<list, load, page, listed, overwritten, pushedOut>>
      PROVE  ShownInv'
  <2>1. heard' \subseteq heard \cup Range(wire') /\ Range(wire) \subseteq Range(wire')
    <3>1. CASE wire' = Append(wire, a) /\ heard' = heard \cup {a}
      <4>1. /\ Len(wire) + 1 \in DOMAIN wire' /\ wire'[Len(wire) + 1] = a
            /\ \A i \in DOMAIN wire : i \in DOMAIN wire' /\ wire'[i] = wire[i]
        BY <1>1, <3>1
      <4>2. a \in Range(wire')
        BY <4>1 DEF Range
      <4>3. Range(wire) \subseteq Range(wire')
        BY <4>1 DEF Range
      <4>4. QED
        BY <3>1, <4>2, <4>3
    <3>2. CASE UNCHANGED <<wire, heard>>
      BY <3>2
    <3>3. QED
      BY <1>8, <3>1, <3>2 DEF Sent
  <2>2. Ids(list') = Ids(list) /\ Ids(page') = Ids(page)
    BY <1>8
  <2>3. QED
    BY <1>8, <2>1, <2>2 DEF ShownInv
<1>9. ASSUME NEW t \in Triage, NEW a \in Alert, NEW s \in Status, Click(t, a, s) PROVE ShownInv'
  <2>1. /\ list' = Optimistic(a, s)
        /\ UNCHANGED <<wire, load, page, heard, listed, overwritten, pushedOut>>
    BY <1>9 DEF Click
  <2>2. Ids(list') = Ids(list)
    BY <1>1, <2>1, OptimisticShows
  <2>3. Ids(page') = Ids(page) /\ Range(wire') = Range(wire)
    BY <2>1
  <2>4. QED
    BY <2>1, <2>2, <2>3 DEF ShownInv
<1>10. CASE UNCHANGED <<screen, heard, listed, overwritten, pushedOut>>
  BY <1>10 DEF ShownInv, screen, Ids
<1>11. QED
  BY <1>2, <1>3, <1>4, <1>5, <1>6, <1>7, <1>8, <1>9, <1>10, ScreenCases

-----------------------------------------------------------------------------
(* The status on screen.                                                   *)

\* The alerts the console has asked to change.
LEMMA ClickedAlerts == \A a \in Alert : a \in Clicked <=> ClickedOn(a, triage)
  BY DEF Clicked, ClickedOn

\* A request under way is one the console clicked for.
LEMMA MineIsClicked ==
  ASSUME NEW a, NEW requests, NEW t \in Triage, Mine(requests[t], a)
  PROVE  ClickedOn(a, requests)
  BY DEF Mine, ClickedOn

\* A frame of an alert the console has clicked on is excused; any other shows
\* the status every alert of the table has that nobody has changed.
LEMMA ReceiveRight == ScreenInv /\ StatusInv /\ Receive => StatusInv'
<1> SUFFICES ASSUME ScreenInv, StatusInv, Receive PROVE StatusInv'
  OBVIOUS
<1> DEFINE e == [id |-> Head(wire), status |-> "NEW"]
<1>1. /\ list' = Prepend(e, list) /\ UNCHANGED <<triage, table, page>> /\ wire # <<>>
      /\ excused' = IF Head(wire) \in Clicked THEN excused \cup {Head(wire)} ELSE excused
  BY DEF Receive, changes, server
<1>2. e \in Entry /\ e.id \in Alert /\ e.status = "NEW" /\ list \in Seq(Entry) /\ e.id = Head(wire)
  BY <1>1, StatusAssumption DEF ScreenInv, Entry
<1> HIDE DEF e
<1>3. \A i \in DOMAIN list' : list'[i] = e \/ \E j \in DOMAIN list : list'[i] = list[j]
  BY <1>1, <1>2, PrependShows
<1>4. ASSUME NEW a \in Alert, a \notin excused'
      PROVE  Right(a, triage, table, list', page)
  <2>1. Right(a, triage, table, list, page)
    BY <1>1, <1>4 DEF StatusInv
  <2>2. \A s : AllShow(list, a, s) /\ (e.id = a => s = "NEW") => AllShow(list', a, s)
    BY <1>2, <1>3 DEF AllShow
  <2>3. e.id = a => ~ClickedOn(a, triage)
    BY <1>1, <1>2, <1>4, ClickedAlerts
  <2>4. e.id = a => table[a] = "NEW"
    BY <2>1, <2>3 DEF Right
  <2>5. \A t \in Triage : Mine(triage[t], a) => e.id # a
    BY <2>3, MineIsClicked
  <2>6. QED
    BY <2>1, <2>2, <2>4, <2>5 DEF Right
<1>5. QED
  BY <1>1, <1>4 DEF StatusInv

\* A simulated threat is no alert of the table.
LEMMA SimulateRight == ScreenInv /\ StatusInv /\ Simulate => StatusInv'
<1> SUFFICES ASSUME ScreenInv, StatusInv, Simulate PROVE StatusInv'
  OBVIOUS
<1> DEFINE e == [id |-> Mock, status |-> "NEW"]
<1>1. list' = Prepend(e, list) /\ UNCHANGED <<triage, table, page, excused>>
  BY DEF Simulate, changes, server
<1>2. e \in Entry /\ e.id = Mock /\ list \in Seq(Entry)
  BY StatusAssumption DEF ScreenInv, Entry
<1> HIDE DEF e
<1>3. \A i \in DOMAIN list' : list'[i] = e \/ \E j \in DOMAIN list : list'[i] = list[j]
  BY <1>1, <1>2, PrependShows
<1>4. \A a \in Alert : \A s : AllShow(list, a, s) => AllShow(list', a, s)
  BY <1>2, <1>3, MockAssumption DEF AllShow
<1>5. QED
  BY <1>1, <1>4 DEF StatusInv, Right

\* An answer has the status NEW for what the console has not clicked on, and
\* applying it excuses the rest.
LEMMA LoadRight == ScreenInv /\ ServerInv /\ StatusInv /\ (AnswerLoad \/ ApplyLoad) => StatusInv'
<1> SUFFICES ASSUME ScreenInv, ServerInv, StatusInv, AnswerLoad \/ ApplyLoad PROVE StatusInv'
  OBVIOUS
<1>1. CASE AnswerLoad
  <2>1. UNCHANGED <<triage, table, list, excused>>
    BY <1>1 DEF AnswerLoad, changes, server
  <2>2. \A a \in Alert : table[a] = "NEW" => AllShow(page', a, "NEW")
    BY <1>1, PageShows DEF AllShow
  <2>3. QED
    BY <2>1, <2>2 DEF StatusInv, Right
<1>2. CASE ApplyLoad
  <2>1. /\ UNCHANGED <<triage, table>> /\ page' = <<>>
        /\ list' = IF page # <<>> THEN page ELSE [i \in 1..3 |-> [id |-> Mock, status |-> "NEW"]]
        /\ excused' = excused \cup (Clicked \cap Ids(page))
    BY <1>2 DEF ApplyLoad, changes, server
  <2>2. ASSUME NEW a \in Alert, a \notin excused'
        PROVE  Right(a, triage, table, list', page')
    <3>1. Right(a, triage, table, list, page)
      BY <2>1, <2>2 DEF StatusInv
    <3>2. AllShow(page', a, "NEW")
      BY <2>1 DEF AllShow
    <3>3. CASE page # <<>> /\ a \in Ids(page)
      <4>1. ~ClickedOn(a, triage)
        BY <2>1, <2>2, <3>3, ClickedAlerts
      <4>2. table[a] = "NEW" /\ AllShow(list', a, "NEW")
        BY <2>1, <3>1, <3>3, <4>1 DEF Right
      <4>3. \A t \in Triage : ~Mine(triage[t], a)
        BY <4>1, MineIsClicked
      <4>4. QED
        BY <3>2, <4>2, <4>3 DEF Right
    <3>4. CASE ~(page # <<>> /\ a \in Ids(page))
      <4>1. \A i \in DOMAIN list' : list'[i].id # a
        <5>1. CASE page # <<>>
          BY <2>1, <3>4, <5>1 DEF Ids
        <5>2. CASE page = <<>>
          BY <2>1, <5>2, MockAssumption
        <5>3. QED
          BY <5>1, <5>2
      <4>2. \A s : AllShow(list', a, s)
        BY <4>1 DEF AllShow
      <4>3. QED
        BY <3>1, <3>2, <4>2 DEF Right
    <3>5. QED
      BY <3>3, <3>4
  <2>3. QED
    BY <2>1, <2>2 DEF StatusInv
<1>3. QED
  BY <1>1, <1>2

\* One request changes, that is not the console's for alert a.
LEMMA OthersRequest ==
  ASSUME TriageInv, NEW t \in Triage, NEW r, triage' = [triage EXCEPT ![t] = r],
         NEW a \in Alert, NEW stored, NEW shown, stored[a] = table[a],
         \A s : AllShow(list, a, s) => AllShow(shown, a, s),
         Right(a, triage, table, list, page),
         ~Mine(triage[t], a), ~Mine(r, a),
         ClickedOn(a, triage) => ClickedOn(a, triage')
  PROVE  Right(a, triage', stored, shown, page)
<1>1. \A u \in Triage : triage'[u] = IF u = t THEN r ELSE triage[u]
  BY DEF TriageInv
<1>2. \A u \in Triage : Mine(triage'[u], a) => u # t /\ triage'[u] = triage[u]
  BY <1>1
<1>3. \A u \in Triage : Mine(triage[u], a) => u # t /\ triage'[u] = triage[u]
  BY <1>1
<1>4. QED
  BY <1>2, <1>3 DEF Right

\* A request of the console's stays the same to the screen.
LEMMA SameRequest ==
  ASSUME TriageInv, StatusInv, NEW t \in Triage, NEW r, triage' = [triage EXCEPT ![t] = r],
         UNCHANGED <<table, list, page>>, excused \subseteq excused',
         triage[t] \in Asked \cup Working, r \in Working,
         r.mine = triage[t].mine, r.alert = triage[t].alert, r.status = triage[t].status,
         r.old = table[r.alert] \/ (triage[t] \in Working /\ r.old = triage[t].old)
  PROVE  StatusInv'
<1>1. \A u \in Triage : triage'[u] = IF u = t THEN r ELSE triage[u]
  BY DEF TriageInv
<1>2. \A b \in Alert : Mine(r, b) <=> Mine(triage[t], b)
  BY DEF Mine, Asked, Working
<1>3. r.stage # "none" /\ triage[t].stage # "none"
  BY DEF Asked, Working
<1>4. ASSUME NEW a \in Alert, Right(a, triage, table, list, page)
      PROVE  Right(a, triage', table, list, page)
  <2>1. ClickedOn(a, triage) <=> ClickedOn(a, triage')
    BY <1>1, <1>3 DEF ClickedOn
  <2>2. \A u \in Triage : /\ Mine(triage'[u], a) <=> Mine(triage[u], a)
                          /\ triage'[u].status = triage[u].status
    BY <1>1, <1>2
  <2>3. \A u \in Triage : Mine(triage[u], a) /\ triage'[u] \in Working => triage'[u].old = table[a]
    <3>1. Mine(triage[t], a) => r.old = table[a]
      BY <1>4 DEF Right, Mine
    <3>2. QED
      BY <1>1, <1>4, <3>1 DEF Right
  <2>4. QED
    BY <1>4, <2>1, <2>2, <2>3 DEF Right
<1>5. QED
  BY <1>4 DEF StatusInv

\* A click shows what its request asks for in every entry of the alert; with
\* another request for it under way, the alert is excused.
LEMMA ClickRight ==
  ASSUME ScreenInv, TriageInv, StatusInv, NEW t \in Triage, NEW a \in Alert, NEW s \in Status,
         Click(t, a, s)
  PROVE  StatusInv'
<1>1. PICK r \in Asked : /\ triage' = [triage EXCEPT ![t] = r] /\ triage[t] = Fresh
                         /\ r.alert = a /\ r.status = s /\ r.mine
  BY RequestSent
<1>2. /\ list' = Optimistic(a, s) /\ UNCHANGED <<table, page>>
      /\ excused' = IF \E u \in Triage : InFlight(u) /\ triage[u].alert = a
                      THEN excused \cup {a} ELSE excused
  BY DEF Click, server
<1>3. \A i \in DOMAIN list' : /\ i \in DOMAIN list /\ list'[i].id = list[i].id
                              /\ list'[i].status = IF list[i].id = a THEN s ELSE list[i].status
  BY <1>2, OptimisticShows DEF ScreenInv
<1>4. \A u \in Triage : triage'[u] = IF u = t THEN r ELSE triage[u]
  BY <1>1 DEF TriageInv
<1>5. r \notin Working /\ r.stage = "sent" /\ triage[t].stage = "none"
  BY <1>1 DEF Asked, Working, Fresh
<1>6. ASSUME NEW b \in Alert, b \notin excused', Right(b, triage, table, list, page)
      PROVE  Right(b, triage', table, list', page)
  <2>1. CASE b = a
    <3>1. \A u \in Triage : ~Mine(triage[u], a)
      BY <1>2, <1>6, <2>1 DEF Mine, InFlight
    <3>2. \A u \in Triage : Mine(triage'[u], a) => u = t
      BY <1>4, <3>1
    <3>3. AllShow(list', a, s)
      BY <1>3 DEF AllShow
    <3>4. Mine(triage'[t], a) /\ triage'[t] \notin Working /\ triage'[t].status = s
      BY <1>1, <1>4, <1>5 DEF Mine
    <3>5. ClickedOn(a, triage')
      BY <3>4, MineIsClicked
    <3>6. QED
      BY <2>1, <3>2, <3>3, <3>4, <3>5 DEF Right
  <2>2. CASE b # a
    <3>1. \A x : AllShow(list, b, x) => AllShow(list', b, x)
      BY <1>3, <2>2 DEF AllShow
    <3>2. ~Mine(triage[t], b) /\ ~Mine(r, b)
      BY <1>1, <1>5, <2>2 DEF Mine
    <3>3. ClickedOn(b, triage) => ClickedOn(b, triage')
      BY <1>4, <1>5 DEF ClickedOn
    <3>4. QED
      BY <1>1, <1>6, <3>1, <3>2, <3>3, OthersRequest
  <2>3. QED
    BY <2>1, <2>2
<1>7. QED
  BY <1>2, <1>6 DEF StatusInv

\* Another analyst's request is not the console's.
LEMMA OtherPatchRight ==
  ASSUME TriageInv, StatusInv, NEW t \in Triage, NEW a \in Alert, NEW s \in Status,
         OtherPatch(t, a, s)
  PROVE  StatusInv'
<1>1. PICK r \in Asked : /\ triage' = [triage EXCEPT ![t] = r] /\ triage[t] = Fresh
                         /\ (r.mine <=> Click(t, a, s))
  BY RequestSent
<1>2. UNCHANGED <<table, page, list, excused>>
  BY DEF OtherPatch, screen, server, history
<1>3. \A u \in Triage : triage'[u] = IF u = t THEN r ELSE triage[u]
  BY <1>1 DEF TriageInv
<1>4. ~r.mine /\ triage[t].stage = "none"
  <2>1. triage'[t].mine = FALSE
    BY DEF OtherPatch, TriageInv
  <2>2. QED
    BY <1>1, <1>3, <2>1 DEF Fresh
<1>5. ASSUME NEW b \in Alert, Right(b, triage, table, list, page)
      PROVE  Right(b, triage', table, list, page)
  <2>1. ~Mine(triage[t], b) /\ ~Mine(r, b)
    BY <1>4 DEF Mine
  <2>2. ClickedOn(b, triage) => ClickedOn(b, triage')
    BY <1>3, <1>4 DEF ClickedOn
  <2>3. QED
    BY <1>1, <1>5, <2>1, <2>2, OthersRequest
<1>6. QED
  BY <1>2, <1>5 DEF StatusInv

\* A request that ends is nobody's any more: for the alerts it was not the
\* console's request for, nothing changes.
LEMMA EndedRight ==
  ASSUME TriageInv, ServerInv, NEW t \in Triage,
         CommitTriage(t) \/ FailTriage(t) \/ (Read(t) /\ triage[t].alert \notin Committed),
         NEW a \in Alert, Right(a, triage, table, list, page), ~Mine(triage[t], a),
         table'[a] = table[a]
  PROVE  Right(a, triage', table', list, page)
<1>1. PICK r \in Over : /\ InFlight(t) /\ triage' = [triage EXCEPT ![t] = r]
                        /\ r.mine = triage[t].mine /\ r.alert = triage[t].alert
  BY RequestEnds
<1>2. ~Mine(r, a) /\ r.stage # "none"
  BY DEF Over, Mine
<1>3. ClickedOn(a, triage) => ClickedOn(a, triage')
  BY <1>1, <1>2 DEF ClickedOn, TriageInv
<1>4. QED
  BY <1>1, <1>2, <1>3, OthersRequest

\* A request that fails excuses its alert, if it was the console's.
LEMMA FailureRight ==
  ASSUME TriageInv, ServerInv, StatusInv, NEW t \in Triage,
         FailTriage(t) \/ (Read(t) /\ triage[t].alert \notin Committed)
  PROVE  StatusInv'
<1>1. /\ UNCHANGED <<table, list, page>>
      /\ excused' = IF triage[t].mine THEN excused \cup {triage[t].alert} ELSE excused
  BY DEF FailTriage, Read, screen, server
<1>2. ASSUME NEW a \in Alert, a \notin excused', Right(a, triage, table, list, page)
      PROVE  Right(a, triage', table, list, page)
  <2>1. ~Mine(triage[t], a)
    BY <1>1, <1>2 DEF Mine
  <2>2. QED
    BY <1>1, <1>2, <2>1, EndedRight
<1>3. excused \subseteq excused'
  BY <1>1
<1>4. QED
  BY <1>1, <1>2, <1>3 DEF StatusInv

\* The console's only request for an alert that nobody else changed stores
\* what is on the screen, whether or not there is an UPDATE to send.
LEMMA CommitRight ==
  ASSUME TriageInv, ServerInv, StatusInv, NEW t \in Triage, CommitTriage(t)
  PROVE  StatusInv'
<1> DEFINE a == triage[t].alert
<1>1. /\ UNCHANGED <<list, page>>
      /\ table' = IF triage[t].status # triage[t].old THEN [table EXCEPT ![a] = triage[t].status] ELSE table
      /\ excused' = IF triage[t].mine THEN excused ELSE excused \cup {a}
  BY DEF CommitTriage, Updates, screen
<1>2. triage[t] \in Working /\ a \in Alert /\ table \in [Alert -> Status]
  BY RequestStage DEF CommitTriage, Working, ServerInv
<1>3. PICK r \in Over : /\ triage' = [triage EXCEPT ![t] = r]
                        /\ r.mine = triage[t].mine /\ r.alert = a
  BY RequestEnds
<1>4. \A u \in Triage : triage'[u] = IF u = t THEN r ELSE triage[u]
  BY <1>3 DEF TriageInv
<1>5. ASSUME NEW b \in Alert, b \notin excused', Right(b, triage, table, list, page)
      PROVE  Right(b, triage', table', list, page)
  <2>1. CASE ~Mine(triage[t], b)
    <3>1. b # a
      BY <1>1, <1>2, <1>5, <2>1 DEF Mine, Working
    <3>2. table'[b] = table[b]
      BY <1>1, <1>2, <3>1
    <3>3. QED
      BY <1>5, <2>1, <3>2, EndedRight
  <2>2. CASE Mine(triage[t], b)
    <3>1. b = a
      BY <2>2 DEF Mine
    <3>2. AllShow(list, b, triage[t].status) /\ triage[t].old = table[b]
      BY <1>2, <1>5, <2>2 DEF Right
    <3>3. table'[b] = triage[t].status
      BY <1>1, <1>2, <3>1, <3>2
    <3>4. \A u \in Triage : Mine(triage[u], b) => u = t
      BY <1>5, <2>2 DEF Right
    <3>5. \A u \in Triage : ~Mine(triage'[u], b)
      BY <1>4, <3>4 DEF Mine, Over
    <3>6. ClickedOn(b, triage')
      <4>1. r.stage # "none" /\ r.mine /\ r.alert = b
        BY <1>3, <2>2, <3>1 DEF Over, Mine
      <4>2. QED
        BY <1>4, <4>1 DEF ClickedOn
    <3>7. QED
      BY <3>2, <3>3, <3>5, <3>6 DEF Right
  <2>3. QED
    BY <2>1, <2>2
<1>6. excused \subseteq excused'
  BY <1>1
<1>7. QED
  BY <1>1, <1>5, <1>6 DEF StatusInv

\* Every step keeps the status shown the stored one, or that of the console's own request.
LEMMA StatusStep ==
  ScreenInv /\ ServerInv /\ TriageInv /\ StatusInv /\ [Next]_vars => StatusInv'
<1> SUFFICES ASSUME ScreenInv, ServerInv, TriageInv, StatusInv, [Next]_vars PROVE StatusInv'
  OBVIOUS
<1>1. ASSUME UNCHANGED <<triage, table, list, page, excused>> PROVE StatusInv'
  BY <1>1 DEF StatusInv
<1>2. CASE Open \/ Close \/ TimerFires
  BY <1>1, <1>2 DEF Open, Close, TimerFires, screen, server, changes, history
<1>3. CASE Receive \/ Simulate \/ AnswerLoad \/ ApplyLoad
  BY <1>3, ReceiveRight, SimulateRight, LoadRight
<1>4. CASE FailLoad
  BY <1>1, <1>4 DEF FailLoad, server, changes, history
<1>5. ASSUME NEW a \in Alert, Insert(a) \/ WorkerAlert(a) \/ CommitAlert(a) \/ AbortAlert(a)
      PROVE  StatusInv'
  BY <1>1, <1>5 DEF Insert, WorkerAlert, CommitAlert, AbortAlert, screen, changes, history
<1>6. ASSUME NEW a \in Alert, Broadcast(a) \/ Echo(a) PROVE StatusInv'
  BY <1>1, <1>6 DEF Broadcast, Echo, changes
<1>7. ASSUME NEW a \in Alert, NEW published \in BOOLEAN, AuditAndPublish(a, published)
      PROVE  StatusInv'
  BY <1>1, <1>7 DEF AuditAndPublish, screen, changes, history
<1>8. ASSUME NEW t \in Triage, NEW a \in Alert, NEW s \in Status, Click(t, a, s) \/ OtherPatch(t, a, s)
      PROVE  StatusInv'
  BY <1>8, ClickRight, OtherPatchRight
<1>9. ASSUME NEW t \in Triage, Flush(t) \/ AuditTriage(t) PROVE StatusInv'
  <2>1. UNCHANGED <<table, list, page, excused>>
    BY <1>9 DEF Flush, AuditTriage, screen, server, history
  <2>2. QED
    BY <1>9, <2>1, RequestGoesOn, SameRequest
<1>10. ASSUME NEW t \in Triage, Read(t) PROVE StatusInv'
  <2>1. UNCHANGED <<table, list, page>>
    BY <1>10 DEF Read, screen, server
  <2>2. CASE triage[t].alert \in Committed
    BY <1>10, <2>1, <2>2, RequestRead, SameRequest
  <2>3. CASE triage[t].alert \notin Committed
    BY <1>10, <2>3, FailureRight
  <2>4. QED
    BY <2>2, <2>3
<1>11. ASSUME NEW t \in Triage, CommitTriage(t) \/ FailTriage(t) PROVE StatusInv'
  BY <1>11, CommitRight, FailureRight
<1>12. CASE UNCHANGED vars
  BY <1>1, <1>12 DEF vars, screen, server, changes, history
<1>13. QED
  BY <1>2, <1>3, <1>4, <1>5, <1>6, <1>7, <1>8, <1>9, <1>10, <1>11, <1>12, StepCases

-----------------------------------------------------------------------------
(* All together.                                                           *)

\* The invariant holds in every reachable state.
LEMMA Invariance == Spec => []IInv
<1>1. Init => IInv
  <2>1. Init => StatusInv
    <3> SUFFICES ASSUME Init PROVE StatusInv
      OBVIOUS
    <3>1. \A a \in Alert : Right(a, triage, table, list, page)
      BY DEF Init, Right, AllShow, Mine
    <3>2. QED
      BY <3>1 DEF StatusInv
  <2>2. QED
    BY <2>1, InitInv DEF IInv
<1>2. IInv /\ [Next]_vars => IInv'
  BY ConnStep, ScreenStep, ServerStep, TriageStep, AuditStep, ShownStep, StatusStep DEF IInv
<1>3. QED
  BY <1>1, <1>2, PTL DEF Spec

\* Types, and the lengths of list and page, for every Keep and Page (TypeOK).
THEOREM TypesCorrect == Spec => []TypeOK
<1>1. IInv => TypeOK
  <2> SUFFICES ASSUME IInv PROVE TypeOK
    BY DEF IInv
  <2>1. \A i \in DOMAIN list : list[i].id \in Alert \cup {Mock} /\ list[i].status \in Status
    <3>1. \A i \in DOMAIN list : list[i] \in Entry
      BY DEF IInv, ScreenInv
    <3>2. QED
      BY <3>1 DEF Entry
  <2>2. \A t \in Triage : triage[t].stage \in {"none", "sent", "read", "flushed", "audited",
                                               "committed", "failed"}
    BY DEF IInv, TriageInv, Fresh, Asked, Working, Over
  <2>3. Committed \subseteq Range(born)
    BY DEF IInv, ServerInv, Committed
  <2>4. QED
    BY <2>1, <2>2, <2>3 DEF IInv, ConnInv, ScreenInv, ServerInv, TypeOK
<1>2. QED
  BY <1>1, Invariance, PTL

\* Whenever nothing is under way, what the console was sent, or listed, is on
\* its screen, was pushed off by newer alerts, or was too new for the load
\* that overwrote it (SentOrListedIsShown): websocket.ts and App.tsx.
THEOREM SentOrListed == Spec => []SentOrListedIsShown
<1>1. IInv => SentOrListedIsShown
  BY DEF IInv, ShownInv, SentOrListedIsShown, Range
<1>2. QED
  BY <1>1, Invariance, PTL

\* A status on screen is the stored one, for every number of requests, frames
\* and entries, unless one of the named excuses applies to the alert
\* (StatusOnScreenIsStored): handleUpdateStatus changes the screen first and
\* never looks at the answer.
THEOREM StatusesShownAreStored == Spec => []StatusOnScreenIsStored
<1>1. IInv => StatusOnScreenIsStored
  <2> SUFFICES ASSUME StatusInv, NEW i \in DOMAIN list, list[i].id \in Committed \ excused,
                      \A t \in Triage : InFlight(t) => triage[t].alert # list[i].id
               PROVE  list[i].status = table[list[i].id]
    BY DEF IInv, StatusOnScreenIsStored
  <2> DEFINE a == list[i].id
  <2>1. a \in Alert /\ Right(a, triage, table, list, page)
    BY DEF StatusInv, Committed
  <2>2. \A t \in Triage : ~Mine(triage[t], a)
    BY DEF Mine, InFlight
  <2>3. QED
    BY <2>1, <2>2 DEF Right, AllShow
<1>2. QED
  BY <1>1, Invariance, PTL
=============================================================================
