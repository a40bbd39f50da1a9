----------------------------- MODULE SocConsole -----------------------------
(***************************************************************************)
(* One SOC dashboard in a browser and the API it talks to: the WebSocket   *)
(* client that reconnects (websocket.ts), the list of alerts that pushed   *)
(* frames and the initial load both write (App.tsx), and alerts that are   *)
(* created and triaged in transactions (alert_service.py), by this console *)
(* and by others.                                                          *)
(*                                                                         *)
(* How the API finds the clients to send a frame to is AlertGateway; here  *)
(* a frame goes to the console whenever its connection is open.  Fields of *)
(* an alert other than its status are left out, and so is the detail panel.*)
(***************************************************************************)
EXTENDS Integers, Sequences, FiniteSets, SequencesExt, FiniteSetsExt

CONSTANTS
  Alert,     \* alerts the API or a worker may create
  Mock,      \* an alert the console makes up
  Status,    \* triage states; every alert begins in "NEW"
  Triage,    \* requests PATCH /alerts/{id}, of the console or of others
  Keep,      \* alerts the list keeps (50)
  Page,      \* alerts the initial load asks for (15)
  MaxRequests, \* bound on alerts and PATCH requests together
  MaxMocks   \* bound on the entries of one list that are simulated on purpose

ASSUME StatusAssumption == "NEW" \in Status
ASSUME MockAssumption == Mock \notin Alert
ASSUME SizeAssumption ==
  /\ Page \in Nat \ {0} /\ Keep \in Nat /\ Keep >= 3 /\ Keep >= Page
  /\ MaxRequests \in Nat /\ MaxMocks \in Nat

VARIABLES
  conn,       \* isConnected and the attempt under way: "connecting", "open", "closed"
  timer,      \* reconnectTimer: "none", "set", or "fired" (still not null)
  wire,       \* frames on the connection
  list,       \* the alerts on screen, newest first: entries [id, status]
  load,       \* "asked", "answered" or "done"
  page,       \* the answer to the initial load
  born,       \* alerts in the order of their timestamps
  creation,   \* creation[a]: "none", "inserted", "audited", "broadcast", "committed", "aborted"
  echo,       \* alerts published on Redis that the listener has yet to see
  table,      \* committed statuses
  triage,     \* the PATCH requests
  audit,      \* committed ALERT_TRIAGED records, [alert, old, new]
  retryFailed, heard, listed, overwritten, pushedOut, excused  \* history

client  == <<conn, timer>>
screen  == <<wire, list, load, page>>
server  == <<born, creation, echo, table>>
changes == <<triage, audit>>
history == <<retryFailed, heard, listed, overwritten, pushedOut, excused>>
vars    == <<client, screen, server, changes, history>>

Committed == {a \in Alert : creation[a] = "committed"}
Ids(entries) == {entries[i].id : i \in DOMAIN entries}

Init ==
  /\ conn = "connecting" /\ timer = "none"
  /\ wire = <<>> /\ list = <<>> /\ load = "asked" /\ page = <<>>
  /\ born = <<>> /\ echo = {}
  /\ creation = [a \in Alert |-> "none"]
  /\ table = [a \in Alert |-> "NEW"]
  /\ triage = [t \in Triage |-> [stage |-> "none"]]
  /\ audit = <<>>
  /\ retryFailed = FALSE
  /\ heard = {} /\ listed = {} /\ overwritten = {} /\ pushedOut = {} /\ excused = {}

-----------------------------------------------------------------------------
(* The connection.                                                         *)

\* scheduleReconnect: nothing, if there is a timer, even one that has fired.
ScheduleReconnect == timer' = IF timer = "none" THEN "set" ELSE timer

\* Fault: the timer of the outage is kept.
TimerKept == timer

\* onopen clears the timer, if any.
TimerCleared == "none"

Open ==
  /\ conn = "connecting"
  /\ conn' = "open" /\ timer' = TimerCleared
  /\ retryFailed' = FALSE
  /\ UNCHANGED <<screen, server, changes, heard, listed, overwritten, pushedOut, excused>>

\* The attempt fails or the connection ends: onerror, onclose.  Frames that
\* were under way are lost.
Close ==
  /\ conn # "closed"
  /\ conn' = "closed"
  /\ ScheduleReconnect
  /\ wire' = <<>>
  /\ retryFailed' = (conn = "connecting" /\ timer = "fired")
  /\ heard' = heard \ Range(wire)
  /\ UNCHANGED <<list, load, page, server, changes, listed, overwritten, pushedOut, excused>>

\* The timeout of 5 s has passed: initWebSocket.
TimerFires ==
  /\ timer = "set"
  /\ timer' = "fired" /\ conn' = "connecting"
  /\ UNCHANGED <<screen, server, changes, history>>

-----------------------------------------------------------------------------
(* The list.                                                               *)

\* Fault: slice(0, 50) before the new one.
PrependKeepingAll(e, entries) == <<e>> \o SubSeq(entries, 1, Min({Len(entries), Keep}))

\* setAlerts((prev) => [newAlert, ...prev.slice(0, 49)])
Prepend(e, entries) == <<e>> \o SubSeq(entries, 1, Min({Len(entries), Keep - 1}))

\* Alerts the console itself has asked to change.
Clicked == {triage[t].alert : t \in {u \in Triage : triage[u].stage # "none" /\ triage[u].mine}}

\* A frame has arrived, normalised and with the status it was created with.
Receive ==
  /\ wire # <<>>
  /\ LET a == Head(wire)
     IN  /\ list' = Prepend([id |-> a, status |-> "NEW"], list)
         /\ pushedOut' = pushedOut \cup (Ids(list) \ Ids(list'))
         /\ excused' = IF a \in Clicked THEN excused \cup {a} ELSE excused
  /\ wire' = Tail(wire)
  /\ UNCHANGED <<client, load, page, server, changes, retryFailed, heard, listed, overwritten>>

\* A simulated threat: by the user, or every 8 s in simulation mode.
Simulate ==
  /\ Cardinality({i \in DOMAIN list : list[i].id = Mock}) < MaxMocks
  /\ list' = Prepend([id |-> Mock, status |-> "NEW"], list)
  /\ pushedOut' = pushedOut \cup (Ids(list) \ (Ids(list') \cup {Mock}))
  /\ UNCHANGED <<client, wire, load, page, server, changes, retryFailed, heard, listed,
                 overwritten, excused>>

Before(a, b) == \E i, j \in DOMAIN born : i < j /\ born[i] = a /\ born[j] = b

\* The committed rows of the table, one after the other.
Rows == Bijection(1..Cardinality(Committed), Committed)

\* Fault: ascending order.
OldestFirst == {rows \in Rows : \A i, j \in DOMAIN rows : i < j => Before(rows[i], rows[j])}

\* order_by(Alert.timestamp.desc())
NewestFirst == {rows \in Rows : \A i, j \in DOMAIN rows : i < j => Before(rows[j], rows[i])}

\* GET /alerts?limit=15 is answered: list_alerts.
AnswerLoad ==
  /\ load = "asked"
  /\ load' = "answered"
  /\ \E rows \in NewestFirst :
       page' = [i \in 1..Min({Page, Cardinality(Committed)}) |->
                  [id |-> rows[i], status |-> table[rows[i]]]]
  /\ listed' = {a \in Committed : Cardinality({b \in Committed : Before(a, b)}) < Page}
  /\ UNCHANGED <<client, wire, list, server, changes, retryFailed, heard, overwritten,
                 pushedOut, excused>>

\* The API is out of reach: fetchRecentAlerts returns an empty list.
FailLoad ==
  /\ load = "asked"
  /\ load' = "answered"
  /\ UNCHANGED <<client, wire, list, page, server, changes, history>>

\* loadInitial goes on: its answer replaces the list, and three made-up
\* alerts do when there is none.
ApplyLoad ==
  /\ load = "answered"
  /\ load' = "done"
  /\ list' = IF page # <<>> THEN page ELSE [i \in 1..3 |-> [id |-> Mock, status |-> "NEW"]]
  /\ page' = <<>>
  /\ overwritten' = Ids(list) \ Ids(page)
  /\ excused' = excused \cup (Clicked \cap Ids(page))
  /\ UNCHANGED <<client, wire, server, changes, retryFailed, heard, listed, pushedOut>>

-----------------------------------------------------------------------------
(* Creating alerts.  The audit record's advisory lock is held to the end of *)
(* the transaction (AuditLedger).                                           *)

AuditLocked ==
  \/ \E a \in Alert : creation[a] \in {"audited", "broadcast"}
  \/ \E t \in Triage : triage[t].stage = "audited"

Sent(a) == IF conn = "open" THEN wire' = Append(wire, a) /\ heard' = heard \cup {a}
           ELSE UNCHANGED <<wire, heard>>

MayBegin ==
  Cardinality({a \in Alert : creation[a] # "none"})
    + Cardinality({t \in Triage : triage[t].stage # "none"}) < MaxRequests

\* create_alert: insert and flush.
Insert(a) ==
  /\ creation[a] = "none" /\ MayBegin
  /\ creation' = [creation EXCEPT ![a] = "inserted"]
  /\ born' = Append(born, a)
  /\ UNCHANGED <<client, screen, echo, table, changes, history>>

\* The audit record, then publish_event, which may not reach Redis.
AuditAndPublish(a, published) ==
  /\ creation[a] = "inserted" /\ ~AuditLocked
  /\ creation' = [creation EXCEPT ![a] = "audited"]
  /\ echo' = IF published THEN echo \cup {a} ELSE echo
  /\ UNCHANGED <<client, screen, born, table, changes, history>>

\* ws_manager.broadcast_alert, with the transaction still open.
Broadcast(a) ==
  /\ creation[a] = "audited"
  /\ creation' = [creation EXCEPT ![a] = "broadcast"]
  /\ Sent(a)
  /\ UNCHANGED <<client, list, load, page, born, echo, table, changes, retryFailed, listed,
                 overwritten, pushedOut, excused>>

\* The listener of this process reads the message back and broadcasts it.
Echo(a) ==
  /\ a \in echo
  /\ echo' = echo \ {a}
  /\ Sent(a)
  /\ UNCHANGED <<client, list, load, page, born, creation, table, changes, retryFailed, listed,
                 overwritten, pushedOut, excused>>

CommitAlert(a) ==
  /\ creation[a] = "broadcast"
  /\ creation' = [creation EXCEPT ![a] = "committed"]
  /\ UNCHANGED <<client, screen, born, echo, table, changes, history>>

\* The request fails before its commit, or the commit does.
AbortAlert(a) ==
  /\ creation[a] \in {"inserted", "audited", "broadcast"}
  /\ creation' = [creation EXCEPT ![a] = "aborted"]
  /\ UNCHANGED <<client, screen, born, echo, table, changes, history>>

\* A worker's task commits an alert; nothing is sent.
WorkerAlert(a) ==
  /\ creation[a] = "none" /\ MayBegin /\ ~AuditLocked
  /\ creation' = [creation EXCEPT ![a] = "committed"]
  /\ born' = Append(born, a)
  /\ UNCHANGED <<client, screen, echo, table, changes, history>>

-----------------------------------------------------------------------------
(* Triage: update_alert in the transaction of its request.                 *)

InFlight(t) == triage[t].stage \in {"sent", "read", "flushed", "audited"}

\* Fault: only the first entry found is updated.
OptimisticFirst(a, s) ==
  LET at == Min({i \in DOMAIN list : list[i].id = a})
  IN  [list EXCEPT ![at].status = s]

\* setAlerts(prev.map(a => a.id === alertId ? {...a, status} : a))
Optimistic(a, s) ==
  [i \in DOMAIN list |-> IF list[i].id = a THEN [list[i] EXCEPT !.status = s] ELSE list[i]]

\* handleUpdateStatus: the screen changes at once, then the PATCH is sent.
Click(t, a, s) ==
  /\ triage[t].stage = "none" /\ MayBegin /\ a \in Ids(list)
  /\ list' = Optimistic(a, s)
  /\ triage' = [triage EXCEPT ![t] = [stage |-> "sent", mine |-> TRUE, alert |-> a, status |-> s]]
  /\ excused' = IF \E u \in Triage : InFlight(u) /\ triage[u].alert = a
                  THEN excused \cup {a} ELSE excused
  /\ UNCHANGED <<client, wire, load, page, server, audit, retryFailed, heard, listed,
                 overwritten, pushedOut>>

\* Another analyst's PATCH.
OtherPatch(t, a, s) ==
  /\ triage[t].stage = "none" /\ MayBegin /\ a \in Committed
  /\ triage' = [triage EXCEPT ![t] = [stage |-> "sent", mine |-> FALSE, alert |-> a, status |-> s]]
  /\ UNCHANGED <<client, screen, server, audit, history>>

To(t, stage) == triage' = [triage EXCEPT ![t].stage = stage]

\* The request is over.
End(t, stage) ==
  triage' = [triage EXCEPT ![t] = [stage |-> stage, mine |-> @.mine, alert |-> @.alert]]

\* The SELECT; the row is not locked.  Without a row the answer is 404.
Read(t) ==
  /\ triage[t].stage = "sent"
  /\ IF triage[t].alert \in Committed
       THEN /\ triage' = [triage EXCEPT ![t] = [stage |-> "read", mine |-> @.mine, alert |-> @.alert,
                                                status |-> @.status, old |-> table[@.alert]]]
            /\ UNCHANGED excused
       ELSE /\ End(t, "failed")
            /\ excused' = IF triage[t].mine THEN excused \cup {triage[t].alert} ELSE excused
  /\ UNCHANGED <<client, screen, server, audit, retryFailed, heard, listed, overwritten, pushedOut>>

\* Fault: an UPDATE whatever the old value.
AlwaysUpdates(t) == TRUE

\* The flush sends an UPDATE only for a column whose value has changed.
Updates(t) == triage[t].status # triage[t].old

\* db.flush(): the UPDATE waits for one that is not committed yet.
Flush(t) ==
  /\ triage[t].stage = "read"
  /\ Updates(t) =>
       \A u \in Triage : triage[u].stage \in {"flushed", "audited"} /\ Updates(u)
                           => triage[u].alert # triage[t].alert
  /\ To(t, "flushed")
  /\ UNCHANGED <<client, screen, server, audit, history>>

\* append_async of ALERT_TRIAGED.
AuditTriage(t) ==
  /\ triage[t].stage = "flushed" /\ ~AuditLocked
  /\ To(t, "audited")
  /\ UNCHANGED <<client, screen, server, audit, history>>

CommitTriage(t) ==
  /\ triage[t].stage = "audited"
  /\ End(t, "committed")
  /\ LET a == triage[t].alert
     IN  /\ table' = IF Updates(t) THEN [table EXCEPT ![a] = triage[t].status] ELSE table
         /\ audit' = Append(audit, [alert |-> a, old |-> triage[t].old, new |-> triage[t].status])
         /\ excused' = IF triage[t].mine THEN excused ELSE excused \cup {a}
  /\ UNCHANGED <<client, screen, born, creation, echo, retryFailed, heard, listed, overwritten,
                 pushedOut>>

\* The request never arrives, or fails and is rolled back; updateAlertTriage
\* returns false, which nobody looks at.
FailTriage(t) ==
  /\ InFlight(t)
  /\ End(t, "failed")
  /\ excused' = IF triage[t].mine THEN excused \cup {triage[t].alert} ELSE excused
  /\ UNCHANGED <<client, screen, server, audit, retryFailed, heard, listed, overwritten, pushedOut>>

Next ==
  \/ Open \/ Close \/ TimerFires
  \/ Receive \/ Simulate \/ AnswerLoad \/ FailLoad \/ ApplyLoad
  \/ \E a \in Alert : \/ Insert(a) \/ Broadcast(a) \/ Echo(a)
                      \/ CommitAlert(a) \/ AbortAlert(a) \/ WorkerAlert(a)
  \/ \E a \in Alert, published \in BOOLEAN : AuditAndPublish(a, published)
  \/ \E t \in Triage, a \in Alert, s \in Status : Click(t, a, s) \/ OtherPatch(t, a, s)
  \/ \E t \in Triage : \/ Read(t) \/ Flush(t) \/ AuditTriage(t)
                       \/ CommitTriage(t) \/ FailTriage(t)

Spec == Init /\ [][Next]_vars

-----------------------------------------------------------------------------
(* Properties.                                                             *)

\* The type invariant.  The list never holds more than Keep alerts.
TypeOK ==
  /\ conn \in {"connecting", "open", "closed"} /\ timer \in {"none", "set", "fired"}
  /\ wire \in Seq(Alert)
  /\ Len(list) <= Keep
  /\ \A i \in DOMAIN list : list[i].id \in Alert \cup {Mock} /\ list[i].status \in Status
  /\ load \in {"asked", "answered", "done"} /\ Len(page) <= Page
  /\ IsInjective(born) /\ Committed \subseteq Range(born) /\ echo \subseteq Alert
  /\ table \in [Alert -> Status]
  /\ \A t \in Triage : triage[t].stage \in {"none", "sent", "read", "flushed", "audited",
                                            "committed", "failed"}

\* The console is only left without a timer, and so offline for good, when an
\* attempt that a timer began has failed; any other loss is retried.
OfflineAfterFailedRetry == conn = "closed" /\ timer # "set" => retryFailed

Changed(a) == {i \in DOMAIN audit : audit[i].alert = a /\ audit[i].old # audit[i].new}

\* The ledger tells an alert's status: the last record of it that changed
\* something has the status in the table, whatever else its requests read
\* before; and the old status of every record is one the alert has had.
AuditTellsStatus ==
  /\ \A a \in Alert :
       \/ Changed(a) = {} /\ table[a] = "NEW"
       \/ \E i \in Changed(a) : (\A j \in Changed(a) : j <= i) /\ table[a] = audit[i].new
  /\ \A i \in DOMAIN audit :
       \/ audit[i].old = "NEW"
       \/ \E j \in 1..(i - 1) : audit[j].alert = audit[i].alert /\ audit[j].new = audit[i].old

\* A status on screen is the one in the table when no request for the alert
\* is under way, in every entry of the alert, unless: a PATCH of the console
\* failed, or overlapped with another; somebody else changed the alert; or
\* older data of it arrived after the click.
StatusOnScreenIsStored ==
  \A i \in DOMAIN list :
    LET a == list[i].id
    IN  a \in Committed \ excused /\ (\A t \in Triage : InFlight(t) => triage[t].alert # a) =>
          list[i].status = table[a]

\* When nothing is under way, an alert the console was sent a frame of, or
\* that was among the newest of the table when its load was answered, is on
\* the screen; unless newer ones, or simulated ones, pushed it off, or the
\* load's answer overwrote it, being older than the alert's commit.
SentOrListedIsShown ==
  load = "done" /\ wire = <<>> =>
    \A a \in Committed :
      /\ a \in listed => a \in Ids(list) \cup pushedOut
      /\ a \in heard /\ ~(a \in overwritten \cup pushedOut) => a \in Ids(list)
      /\ a \in overwritten => a \notin listed
=============================================================================
