---------------------------- MODULE AlertGateway ----------------------------
(***************************************************************************)
(* How a new alert reaches the SOC dashboards.  POST /alerts inserts the   *)
(* alert, publishes it on a Redis channel and hands it to the WebSocket    *)
(* manager of its own process, then commits; the manager's listener task   *)
(* reads the same channel and broadcasts what it gets (alert_service.py,   *)
(* core/redis.py, core/websocket.py, endpoints/ws.py).                     *)
(*                                                                         *)
(* One API process, one event loop: a step runs from one suspension to the *)
(* next.  The manager's asyncio lock is only ever held between two         *)
(* suspensions, so taking it never suspends.                               *)
(***************************************************************************)
EXTENDS Integers, Sequences, FiniteSets

CONSTANTS
  Socket,      \* WebSocket connections; a dashboard that reconnects has a new one
  Client,      \* client_id's
  IdOf,        \* IdOf[s]: the client_id connection s asks for
  Level,       \* severities, ranked by severity_order
  Query,       \* Query[s]: the filter in the query of connection s
  Change,      \* what a filter update may ask for: parts of a filter
  ApiAlert,    \* alerts that POST /alerts creates, one request each
  WorkerAlert, \* alerts that a Celery task creates
  Severity,    \* Severity[a]: the severity of alert a
  MaxUpdates,  \* MaxUpdates[s]: bound on the filter updates of connection s
  Nobody       \* "no connection": the client_id is not registered

Alert    == ApiAlert \cup WorkerAlert
Listener == "listener"
Job      == ApiAlert \cup {Listener}

ASSUME ClientAssumption == IdOf \in [Socket -> Client] /\ Nobody \notin Socket
ASSUME LevelAssumption ==
  Level \subseteq Nat /\ Severity \in [Alert -> Level]

\* A subscription's filter: the least severity; whether it names a MITRE
\* tactic; and the alerts whose behavior_class contains one it names, or all.
Filter == [level : Level, tactics : BOOLEAN, behaviors : SUBSET Alert]

ASSUME FilterAssumption ==
  /\ Query \in [Socket -> Filter]
  /\ \A change \in Change : \E f \in Filter : \E parts \in SUBSET DOMAIN f :
       change = [part \in parts |-> f[part]]
ASSUME AlertAssumption ==
  /\ ApiAlert \cap WorkerAlert = {} /\ Listener \notin Alert
  /\ MaxUpdates \in [Socket -> Nat]

VARIABLES
  active,     \* active_clients: the registered connection of each client_id
  filter,     \* filter[s]: what the subscription of s lets through
  spc,        \* spc[s]: where the endpoint coroutine of s is
  open,       \* open[s]: is the connection up?
  updates,    \* updates[s]: filter updates s has asked for
  inbox,      \* inbox[s]: frames that reached the dashboard, oldest first
  jpc,        \* jpc[j]: where an alert's request, or the listener, is
  cargo,      \* the alert the listener is broadcasting
  todo,       \* todo[j]: connections of j's snapshot still to be served
  dead,       \* dead[j]: client_ids whose send failed during j's broadcast
  subscribed, \* does Redis know the listener's subscription?
  channel,    \* messages Redis has sent it and it has not read
  committed,  \* alerts committed to the database
  audience    \* history: <<a, s>> where s was served when a worker committed a

socketVars == <<active, filter, spc, open, updates, inbox>>
jobVars    == <<jpc, cargo, todo, dead>>
redisVars  == <<subscribed, channel>>
alertVars  == <<committed, audience>>
vars == <<socketVars, jobVars, redisVars, alertVars>>

FilterFrame(f)   == [kind |-> "filter", filter |-> f]
AlertFrame(a, j) == [kind |-> "alert", alert |-> a, by |-> j]

Init ==
  /\ active = [c \in Client |-> Nobody]
  /\ filter = Query
  /\ spc = [s \in Socket |-> "none"]
  /\ open = [s \in Socket |-> FALSE]
  /\ updates = [s \in Socket |-> 0]
  /\ inbox = [s \in Socket |-> <<>>]
  /\ jpc = [j \in Job |-> IF j = Listener THEN "subscribing" ELSE "idle"]
  /\ cargo = Nobody
  /\ todo = [j \in Job |-> {}]
  /\ dead = [j \in Job |-> {}]
  /\ subscribed = FALSE /\ channel = <<>>
  /\ committed = {} /\ audience = {}

-----------------------------------------------------------------------------
(* Connections.                                                            *)

Registered(s) == active[IdOf[s]] = s

\* disconnect(client_id): whoever is registered under s's id goes.
Unregister(s) == active' = [active EXCEPT ![IdOf[s]] = Nobody]

\* A dashboard connects and the endpoint awaits websocket.accept().
Dial(s) ==
  /\ spc[s] = "none"
  /\ spc' = [spc EXCEPT ![s] = "accepting"]
  /\ open' = [open EXCEPT ![s] = TRUE]
  /\ UNCHANGED <<active, filter, updates, inbox, jobVars, redisVars, alertVars>>

\* A frame to s: lost when the connection is down.
Send(s, frame) ==
  inbox' = IF open[s] THEN [inbox EXCEPT ![s] = Append(@, frame)] ELSE inbox

\* connect(): register, replacing an older connection, and say CONNECTED.
Register(s) ==
  /\ spc[s] = "accepting"
  /\ spc' = [spc EXCEPT ![s] = "serving"]
  /\ active' = [active EXCEPT ![IdOf[s]] = s]
  /\ Send(s, FilterFrame(filter[s]))
  /\ UNCHANGED <<filter, open, updates, jobVars, redisVars, alertVars>>

\* The parts of a filter an update does not name stay as they are.
Updated(f, change) ==
  [part \in DOMAIN f |-> IF part \in DOMAIN change THEN change[part] ELSE f[part]]

\* update_filter(client_id): of the connection registered under s's id.
UpdateFilter(s, change) ==
  /\ spc[s] = "serving" /\ open[s]
  /\ updates[s] < MaxUpdates[s]
  /\ updates' = [updates EXCEPT ![s] = @ + 1]
  /\ LET sub == active[IdOf[s]]
     IN  IF sub = Nobody
           THEN UNCHANGED <<filter, inbox>>
           ELSE /\ filter' = [filter EXCEPT ![sub] = Updated(@, change)]
                /\ Send(sub, FilterFrame(filter'[sub]))
  /\ UNCHANGED <<active, spc, open, jobVars, redisVars, alertVars>>

\* The dashboard closes, or the network loses it; the endpoint is not told yet.
HangUp(s) ==
  /\ open[s]
  /\ open' = [open EXCEPT ![s] = FALSE]
  /\ UNCHANGED <<active, filter, spc, updates, inbox, jobVars, redisVars, alertVars>>

\* WebSocketDisconnect in receive_text.
EndpointEnds(s) ==
  /\ spc[s] = "serving" /\ ~open[s]
  /\ spc' = [spc EXCEPT ![s] = "ended"]
  /\ Unregister(s)
  /\ UNCHANGED <<filter, open, updates, inbox, jobVars, redisVars, alertVars>>

\* Any other exception, a frame that is no JSON object for one: the endpoint
\* returns and the server closes the connection.
EndpointFails(s) ==
  /\ spc[s] = "serving" /\ open[s]
  /\ spc' = [spc EXCEPT ![s] = "ended"]
  /\ open' = [open EXCEPT ![s] = FALSE]
  /\ Unregister(s)
  /\ UNCHANGED <<filter, updates, inbox, jobVars, redisVars, alertVars>>

-----------------------------------------------------------------------------
(* Broadcasts: by the request that creates an alert, and by the listener.  *)

AlertOf(j) == IF j = Listener THEN cargo ELSE j

\* The payload of an alert has none of the fields a tactic is looked for in:
\* a filter that names one lets nothing through.
Passes(f, a) == Severity[a] >= f.level /\ ~f.tactics /\ a \in f.behaviors

\* Fault: the filter of the connection's query, updates forgotten.
MatchesAtFirst(s, a) == Passes(Query[s], a)

\* ClientSubscription.matches.
Matches(s, a) == Passes(filter[s], a)

\* The snapshot of active_clients a broadcast starts from.
Snapshot == {active[c] : c \in Client} \ {Nobody}

JobAt(j, from, to) ==
  /\ jpc[j] = from
  /\ jpc' = [jpc EXCEPT ![j] = to]

\* create_alert: insert, flush, append to the audit ledger.
CreateAlert(a) ==
  /\ JobAt(a, "idle", "publish")
  /\ UNCHANGED <<socketVars, cargo, todo, dead, redisVars, alertVars>>

\* publish_event: fire and forget, before the commit.
Publish(a) ==
  /\ JobAt(a, "publish", "broadcast")
  /\ channel' = IF subscribed THEN Append(channel, a) ELSE channel
  /\ UNCHANGED <<socketVars, cargo, todo, dead, subscribed, alertVars>>

\* It raises: logged, and the request goes on.
PublishFails(a) ==
  /\ JobAt(a, "publish", "broadcast")
  /\ UNCHANGED <<socketVars, cargo, todo, dead, redisVars, alertVars>>

\* broadcast_alert of the request's own process.
StartBroadcast(a) ==
  /\ JobAt(a, "broadcast", "sending")
  /\ todo' = [todo EXCEPT ![a] = Snapshot]
  /\ UNCHANGED <<socketVars, cargo, dead, redisVars, alertVars>>

\* Fault: messages are read again after each broadcast.
TakeMessageAgain ==
  /\ channel # <<>>
  /\ JobAt(Listener, "listening", "sending")
  /\ cargo' = Head(channel)
  /\ todo' = [todo EXCEPT ![Listener] = Snapshot]
  /\ UNCHANGED <<socketVars, dead, redisVars, alertVars>>

\* The listener reads a message and starts its broadcast.
TakeMessage ==
  /\ channel # <<>>
  /\ JobAt(Listener, "listening", "sending")
  /\ cargo' = Head(channel)
  /\ channel' = Tail(channel)
  /\ todo' = [todo EXCEPT ![Listener] = Snapshot]
  /\ UNCHANGED <<socketVars, dead, subscribed, alertVars>>

Served(j, s) == jpc[j] = "sending" /\ s \in todo[j]

\* The filter is consulted as the loop reaches the connection.
SkipClient(j, s) ==
  /\ Served(j, s) /\ ~Matches(s, AlertOf(j))
  /\ todo' = [todo EXCEPT ![j] = @ \ {s}]
  /\ UNCHANGED <<socketVars, jpc, cargo, dead, redisVars, alertVars>>

\* send_json: a connection that is down may swallow the frame unnoticed.
SendAlert(j, s) ==
  /\ Served(j, s) /\ Matches(s, AlertOf(j))
  /\ Send(s, AlertFrame(AlertOf(j), j))
  /\ todo' = [todo EXCEPT ![j] = @ \ {s}]
  /\ UNCHANGED <<active, filter, spc, open, updates, jpc, cargo, dead,
                 redisVars, alertVars>>

\* Fault: send_json lets the exception out, and the loop ends.
SendFailsAndRaises(j, s) ==
  /\ Served(j, s) /\ Matches(s, AlertOf(j)) /\ ~open[s]
  /\ todo' = [todo EXCEPT ![j] = {}]
  /\ dead' = [dead EXCEPT ![j] = @ \cup {IdOf[s]}]
  /\ UNCHANGED <<socketVars, jpc, cargo, redisVars, alertVars>>

\* ... or raise, and the client is noted as dead.
SendFails(j, s) ==
  /\ Served(j, s) /\ Matches(s, AlertOf(j)) /\ ~open[s]
  /\ todo' = [todo EXCEPT ![j] = @ \ {s}]
  /\ dead' = [dead EXCEPT ![j] = @ \cup {IdOf[s]}]
  /\ UNCHANGED <<socketVars, jpc, cargo, redisVars, alertVars>>

\* Fault: everybody is dropped after a failed send.
EndBroadcastDropsAll(j) ==
  /\ todo[j] = {}
  /\ JobAt(j, "sending", IF j = Listener THEN "listening" ELSE "commit")
  /\ active' = [c \in Client |-> IF dead[j] # {} THEN Nobody ELSE active[c]]
  /\ dead' = [dead EXCEPT ![j] = {}]
  /\ cargo' = IF j = Listener THEN Nobody ELSE cargo
  /\ UNCHANGED <<filter, spc, open, updates, inbox, todo, redisVars, alertVars>>

\* Fault: dead_clients kept on the manager instead of in the call.
EndBroadcastKeepsDead(j) ==
  /\ todo[j] = {}
  /\ JobAt(j, "sending", IF j = Listener THEN "listening" ELSE "commit")
  /\ active' = [c \in Client |-> IF c \in dead[j] THEN Nobody ELSE active[c]]
  /\ cargo' = IF j = Listener THEN Nobody ELSE cargo
  /\ UNCHANGED <<filter, spc, open, updates, inbox, todo, dead, redisVars, alertVars>>

\* The dead clients go, whoever is registered under their ids by now.
EndBroadcast(j) ==
  /\ todo[j] = {}
  /\ JobAt(j, "sending", IF j = Listener THEN "listening" ELSE "commit")
  /\ active' = [c \in Client |-> IF c \in dead[j] THEN Nobody ELSE active[c]]
  /\ dead' = [dead EXCEPT ![j] = {}]
  /\ cargo' = IF j = Listener THEN Nobody ELSE cargo
  /\ UNCHANGED <<filter, spc, open, updates, inbox, todo, redisVars, alertVars>>

\* The request's session commits, after everybody has been told.
CommitAlert(a) ==
  /\ JobAt(a, "commit", "committed")
  /\ committed' = committed \cup {a}
  /\ UNCHANGED <<socketVars, cargo, todo, dead, redisVars, audience>>

CommitFails(a) ==
  /\ JobAt(a, "commit", "aborted")
  /\ UNCHANGED <<socketVars, cargo, todo, dead, redisVars, alertVars>>

\* detect_threats_for_flow_task commits an alert: it publishes nothing.
WorkerCommits(a) ==
  /\ a \notin committed
  /\ committed' = committed \cup {a}
  /\ audience' = audience \cup {<<a, s>> : s \in {t \in Snapshot : open[t]}}
  /\ UNCHANGED <<socketVars, jobVars, redisVars>>

-----------------------------------------------------------------------------
(* The listener's subscription.                                            *)

Subscribe ==
  /\ JobAt(Listener, "subscribing", "listening")
  /\ subscribed' = TRUE
  /\ UNCHANGED <<socketVars, cargo, todo, dead, channel, alertVars>>

\* The connection to Redis breaks; what it had sent is lost.
RedisDrops ==
  /\ subscribed
  /\ subscribed' = FALSE /\ channel' = <<>>
  /\ UNCHANGED <<socketVars, jobVars, alertVars>>

\* get_message raises: wait, then subscribe again.
ListenerBacksOff ==
  /\ ~subscribed
  /\ JobAt(Listener, "listening", "subscribing")
  /\ UNCHANGED <<socketVars, cargo, todo, dead, redisVars, alertVars>>

-----------------------------------------------------------------------------
\* What the event loop does by itself.
BroadcastStep(j) ==
  \/ \E s \in Socket : SkipClient(j, s) \/ SendAlert(j, s) \/ SendFails(j, s)
  \/ EndBroadcast(j)

AlertStep(a) ==
  \/ Publish(a)
  \/ PublishFails(a)
  \/ StartBroadcast(a)
  \/ BroadcastStep(a)
  \/ CommitAlert(a)
  \/ CommitFails(a)

ListenerStep ==
  \/ Subscribe
  \/ TakeMessage
  \/ BroadcastStep(Listener)
  \/ ListenerBacksOff

EndpointStep(s) == Register(s) \/ EndpointEnds(s)

\* What dashboards, analysts, workers and the network do.
Environment ==
  \/ \E s \in Socket :
       \/ Dial(s) \/ HangUp(s) \/ EndpointFails(s)
       \/ \E change \in Change : UpdateFilter(s, change)
  \/ \E a \in ApiAlert : CreateAlert(a)
  \/ \E a \in WorkerAlert : WorkerCommits(a)
  \/ RedisDrops

Next ==
  \/ \E a \in ApiAlert : AlertStep(a)
  \/ ListenerStep
  \/ \E s \in Socket : EndpointStep(s)
  \/ Environment

Spec == Init /\ [][Next]_vars

\* Every coroutine that can go on does; nothing outside is bound to happen.
FairSpec ==
  /\ Spec
  /\ \A a \in ApiAlert : WF_vars(AlertStep(a))
  /\ WF_vars(ListenerStep)
  /\ \A s \in Socket : WF_vars(EndpointStep(s))

-----------------------------------------------------------------------------
(* Properties.                                                             *)

AlertsIn(s) == {i \in DOMAIN inbox[s] : inbox[s][i].kind = "alert"}
Received(s, a) == \E i \in AlertsIn(s) : inbox[s][i].alert = a

TypeOK ==
  /\ active \in [Client -> Socket \cup {Nobody}]
  /\ \A c \in Client : active[c] # Nobody => IdOf[active[c]] = c
  /\ filter \in [Socket -> Filter]
  /\ spc \in [Socket -> {"none", "accepting", "serving", "ended"}]
  /\ open \in [Socket -> BOOLEAN]
  /\ updates \in [Socket -> Nat] /\ \A s \in Socket : updates[s] <= MaxUpdates[s]
  /\ \A s \in Socket : \A i \in DOMAIN inbox[s] :
       \/ inbox[s][i].kind = "filter" /\ inbox[s][i].filter \in Filter
       \/ \E a \in ApiAlert, j \in Job : inbox[s][i] = AlertFrame(a, j)
  /\ \A a \in ApiAlert : jpc[a] \in {"idle", "publish", "broadcast", "sending",
                                     "commit", "committed", "aborted"}
  /\ jpc[Listener] \in {"subscribing", "listening", "sending"}
  /\ IF jpc[Listener] = "sending" THEN cargo \in ApiAlert ELSE cargo = Nobody
  /\ todo \in [Job -> SUBSET Socket] /\ dead \in [Job -> SUBSET Client]
  /\ \A j \in Job : jpc[j] # "sending" => todo[j] = {} /\ dead[j] = {}
  /\ subscribed \in BOOLEAN /\ channel \in Seq(ApiAlert)
  /\ ~subscribed => channel = <<>>
  /\ committed \subseteq Alert /\ audience \subseteq WorkerAlert \X Socket

\* Once a dashboard has been told that its filter is in force, it receives no
\* alert it turns down, not even from a broadcast that had begun before; and
\* none at all while it names a tactic, of whatever technique the alert is.
FilterHonoured ==
  \A s \in Socket : \A i \in AlertsIn(s) :
    \E k \in 1..(i - 1) :
      /\ inbox[s][k].kind = "filter"
      /\ \A m \in (k + 1)..(i - 1) : inbox[s][m].kind # "filter"
      /\ LET f == inbox[s][k].filter
         IN  /\ Severity[inbox[s][i].alert] >= f.level
             /\ inbox[s][i].alert \in f.behaviors
             /\ ~f.tactics

\* A dashboard sees an alert at most once from the request that creates it and
\* at most once from the listener, whatever Redis does meanwhile.
OncePerPath ==
  \A s \in Socket : \A i, k \in AlertsIn(s) : inbox[s][i] = inbox[s][k] => i = k

\* While a dashboard's endpoint serves it, its client_id is registered:
\* broadcasts reach it and GET /ws/status lists it; and when the endpoint has
\* ended, by whatever exception, its connection is not: the dictionary holds
\* no dead connection for ever.  The code keeps this when connections have
\* ids of their own.  It does not when a dashboard reconnects under its id:
\* the end of the old connection unregisters the new one.
ServedIsListed ==
  \A s \in Socket :
    /\ spc[s] = "serving" /\ open[s] => active[IdOf[s]] # Nobody
    /\ spc[s] = "ended" => ~Registered(s)

\* An alert that POST /alerts creates reaches every dashboard that was there,
\* stays, and does not filter it out: Redis may fail, other dashboards may be
\* dead.
Wants(s, a) == Registered(s) /\ open[s] /\ Matches(s, a)
ApiAlertsArrive ==
  \A a \in ApiAlert, s \in Socket :
    jpc[a] = "publish" /\ Wants(s, a) ~> Received(s, a) \/ ~Wants(s, a)

\* README, architecture diagram: worker -> alerts engine -> Redis Pub/Sub ->
\* SOC dashboard.  The code does not do this: only POST /alerts publishes.
WorkerAlertsArrive ==
  \A a \in WorkerAlert, s \in Socket :
    <<a, s>> \in audience ~> Received(s, a) \/ ~Wants(s, a)
=============================================================================
