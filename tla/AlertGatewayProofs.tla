------------------------- MODULE AlertGatewayProofs -------------------------
(***************************************************************************)
(* For every number of dashboards, alerts and filter updates: a dashboard  *)
(* gets no alert its filter turns down, none twice by the same path, and,  *)
(* when dashboards have client_ids of their own, the one that is served is *)
(* registered.                                                             *)
(***************************************************************************)
EXTENDS AlertGateway, SequenceTheorems, TLAPS

-----------------------------------------------------------------------------
(* The inductive invariant, one part per property.                         *)

Frame == {FilterFrame(f) : f \in Filter} \cup {AlertFrame(a, j) : a \in ApiAlert, j \in Job}

\* Who is registered is served by its endpoint.
SocketInv ==
  /\ active \in [Client -> Socket \cup {Nobody}]
  /\ \A c \in Client : active[c] # Nobody => IdOf[active[c]] = c /\ spc[active[c]] = "serving"
  /\ filter \in [Socket -> Filter]
  /\ spc \in [Socket -> {"none", "accepting", "serving", "ended"}]
  /\ open \in [Socket -> BOOLEAN]
  /\ updates \in [Socket -> Nat] /\ \A s \in Socket : updates[s] <= MaxUpdates[s]
  /\ inbox \in [Socket -> Seq(Frame)]

\* Where requests and the listener are.
PlaceInv ==
  /\ jpc \in [Job -> {"idle", "publish", "broadcast", "sending", "commit", "committed",
                      "aborted", "subscribing", "listening"}]
  /\ \A a \in ApiAlert : jpc[a] \notin {"subscribing", "listening"}
  /\ jpc[Listener] \in {"subscribing", "listening", "sending"}
  /\ IF jpc[Listener] = "sending" THEN cargo \in ApiAlert ELSE cargo = Nobody

\* Whom a broadcast still serves, and whom it found dead, was registered once:
\* its connection will not come up again.
SnapshotInv ==
  /\ todo \in [Job -> SUBSET Socket] /\ dead \in [Job -> SUBSET Client]
  /\ \A j \in Job : jpc[j] # "sending" => todo[j] = {} /\ dead[j] = {}
  /\ \A j \in Job : \A s \in todo[j] : spc[s] \in {"serving", "ended"}
  /\ \A j \in Job : \A c \in dead[j] :
       \E s \in Socket : IdOf[s] = c /\ ~open[s] /\ spc[s] \in {"serving", "ended"}

Distinct(q) == \A i, k \in DOMAIN q : q[i] = q[k] => i = k

Published(a, places) == places[a] \notin {"idle", "publish"}

\* An alert is in Redis or with the listener, once, after it was published.
RedisInv ==
  /\ subscribed \in BOOLEAN /\ channel \in Seq(ApiAlert)
  /\ ~subscribed => channel = <<>>
  /\ Distinct(channel)
  /\ \A i \in DOMAIN channel : Published(channel[i], jpc)
  /\ jpc[Listener] = "sending" => Published(cargo, jpc) /\ \A i \in DOMAIN channel : channel[i] # cargo

CommitInv == committed \subseteq Alert /\ audience \subseteq WorkerAlert \X Socket

\* The filter frame before place i in q that no other has followed is k.
FilterAt(q, k, i) ==
  /\ k \in 1..(i - 1)
  /\ q[k].kind = "filter"
  /\ \A m \in (k + 1)..(i - 1) : q[m].kind # "filter"

\* The last filter that q tells of is f.
Told(q, f) == \E k \in 1..Len(q) : FilterAt(q, k, Len(q) + 1) /\ q[k].filter = f

\* Every alert in q passes the filter told last before it.
Honoured(q) ==
  \A i \in DOMAIN q : q[i].kind = "alert" =>
    \E k \in 1..(i - 1) : FilterAt(q, k, i) /\ Passes(q[k].filter, q[i].alert)

\* Broadcasts consult the filter the dashboard was told of.
FilterInv ==
  /\ \A s \in Socket : Registered(s) /\ open[s] => Told(inbox[s], filter[s])
  /\ \A j \in Job : \A s \in todo[j] : open[s] => Told(inbox[s], filter[s])
  /\ \A s \in Socket : Honoured(inbox[s])

\* A broadcast by j of alert a to s lies behind, or will never be.
Behind(j, a, s) ==
  /\ j = a => jpc[a] \notin {"idle", "publish", "broadcast"} /\ s \notin todo[a]
  /\ j = Listener => /\ Published(a, jpc)
                     /\ \A i \in DOMAIN channel : channel[i] # a
                     /\ a = cargo => s \notin todo[Listener]
  /\ j \in {a, Listener}

NoAlertTwice(q) ==
  \A i, k \in DOMAIN q : q[i].kind = "alert" /\ q[k].kind = "alert" /\ q[i] = q[k] => i = k

OnceInv ==
  \A s \in Socket :
    /\ NoAlertTwice(inbox[s])
    /\ \A i \in DOMAIN inbox[s], a \in ApiAlert, j \in Job :
         inbox[s][i] = AlertFrame(a, j) => Behind(j, a, s)

IInv == SocketInv /\ PlaceInv /\ SnapshotInv /\ RedisInv /\ CommitInv /\ FilterInv /\ OnceInv

\* Every connection has a client_id of its own.
OwnIds == \A s, t \in Socket : IdOf[s] = IdOf[t] => s = t

\* Then the connection that its endpoint serves is the registered one.
ListedInv == \A s \in Socket : spc[s] = "serving" /\ open[s] => Registered(s)

-----------------------------------------------------------------------------
(* Steps and the operators of the model.                                   *)

\* A step of a connection, a request, a broadcast, the listener or a worker.
LEMMA StepCases ==
  ASSUME [Next]_vars
  PROVE  \/ \E s \in Socket : Dial(s) \/ HangUp(s) \/ EndpointEnds(s) \/ EndpointFails(s)
         \/ \E s \in Socket : Register(s)
         \/ \E s \in Socket, change \in Change : UpdateFilter(s, change)
         \/ \E a \in ApiAlert : CreateAlert(a) \/ PublishFails(a)
         \/ \E a \in ApiAlert : Publish(a)
         \/ \E a \in ApiAlert : StartBroadcast(a)
         \/ \E a \in ApiAlert : CommitAlert(a) \/ CommitFails(a)
         \/ \E j \in Job, s \in Socket : SkipClient(j, s)
         \/ \E j \in Job, s \in Socket : SendAlert(j, s)
         \/ \E j \in Job, s \in Socket : SendFails(j, s)
         \/ \E j \in Job : EndBroadcast(j)
         \/ Subscribe \/ ListenerBacksOff
         \/ TakeMessage
         \/ RedisDrops
         \/ \E a \in WorkerAlert : WorkerCommits(a)
         \/ UNCHANGED vars
<1>1. ApiAlert \subseteq Job /\ Listener \in Job
  BY DEF Job
<1>2. QED
  BY <1>1 DEF Next, AlertStep, ListenerStep, EndpointStep, Environment, BroadcastStep

\* A filter stays a filter, whichever parts of it an update names.
LEMMA UpdatedIsFilter ==
  ASSUME NEW f \in Filter, NEW change \in Change
  PROVE  Updated(f, change) \in Filter
<1>1. PICK g \in Filter : \E parts \in SUBSET DOMAIN g : change = [part \in parts |-> g[part]]
  BY FilterAssumption
<1>2. PICK parts \in SUBSET DOMAIN g : change = [part \in parts |-> g[part]]
  BY <1>1
<1>3. DOMAIN f = {"level", "tactics", "behaviors"} /\ DOMAIN g = DOMAIN f
  BY DEF Filter
<1>4. Updated(f, change) = [part \in {"level", "tactics", "behaviors"} |->
                              IF part \in parts THEN g[part] ELSE f[part]]
  BY <1>2, <1>3 DEF Updated
<1>5. QED
  BY <1>4 DEF Filter

\* What a broadcast sends is an alert of POST /alerts.
LEMMA AlertSent ==
  ASSUME PlaceInv, NEW j \in Job, jpc[j] = "sending"
  PROVE  AlertOf(j) \in ApiAlert
  BY DEF PlaceInv, AlertOf, Job

\* One more frame.
LEMMA AppendFrame ==
  ASSUME NEW q \in Seq(Frame), NEW e \in Frame
  PROVE  /\ Append(q, e) \in Seq(Frame)
         /\ Len(q) \in Nat /\ Len(Append(q, e)) = Len(q) + 1
         /\ DOMAIN q = 1..Len(q) /\ DOMAIN Append(q, e) = 1..(Len(q) + 1)
         /\ \A i \in 1..Len(q) : Append(q, e)[i] = q[i]
         /\ Append(q, e)[Len(q) + 1] = e
  OBVIOUS

\* A filter told is the last one told.
LEMMA TellFilter ==
  ASSUME NEW q \in Seq(Frame), NEW f \in Filter, Honoured(q)
  PROVE  /\ Told(Append(q, FilterFrame(f)), f)
         /\ Honoured(Append(q, FilterFrame(f)))
<1> DEFINE e == FilterFrame(f)
           r == Append(q, e)
<1>1. e \in Frame /\ e.kind = "filter" /\ e.filter = f
  BY DEF Frame, FilterFrame
<1> HIDE DEF e
<1>2. /\ Len(q) \in Nat /\ Len(r) = Len(q) + 1
      /\ DOMAIN q = 1..Len(q) /\ DOMAIN r = 1..(Len(q) + 1)
      /\ \A i \in 1..Len(q) : r[i] = q[i]
      /\ r[Len(q) + 1] = e
  BY <1>1, AppendFrame
<1> HIDE DEF r
<1>3. Told(r, f)
  <2>1. FilterAt(r, Len(r), Len(r) + 1)
    BY <1>1, <1>2 DEF FilterAt
  <2>2. Len(r) \in 1..Len(r) /\ r[Len(r)].filter = f
    BY <1>1, <1>2
  <2>3. QED
    BY <2>1, <2>2 DEF Told
<1>4. Honoured(r)
  <2> SUFFICES ASSUME NEW i \in DOMAIN r, r[i].kind = "alert"
               PROVE  \E k \in 1..(i - 1) : FilterAt(r, k, i) /\ Passes(r[k].filter, r[i].alert)
    BY DEF Honoured
  <2>1. i \in DOMAIN q /\ r[i] = q[i]
    BY <1>1, <1>2
  <2>2. PICK k \in 1..(i - 1) : FilterAt(q, k, i) /\ Passes(q[k].filter, q[i].alert)
    BY <2>1 DEF Honoured
  <2>3. FilterAt(r, k, i) /\ r[k] = q[k]
    BY <1>2, <2>1, <2>2 DEF FilterAt
  <2>4. QED
    BY <2>1, <2>2, <2>3
<1>5. QED
  BY <1>3, <1>4 DEF r, e

\* An alert that passes the filter told last is honoured, and tells none.
LEMMA TellAlert ==
  ASSUME NEW q \in Seq(Frame), NEW f \in Filter, Honoured(q), Told(q, f),
         NEW a \in ApiAlert, NEW j \in Job, Passes(f, a)
  PROVE  /\ Told(Append(q, AlertFrame(a, j)), f)
         /\ Honoured(Append(q, AlertFrame(a, j)))
<1> DEFINE e == AlertFrame(a, j)
           r == Append(q, e)
<1>1. e \in Frame /\ e.kind = "alert" /\ e.alert = a
  BY DEF Frame, AlertFrame
<1> HIDE DEF e
<1>2. /\ Len(q) \in Nat /\ Len(r) = Len(q) + 1
      /\ DOMAIN q = 1..Len(q) /\ DOMAIN r = 1..(Len(q) + 1)
      /\ \A i \in 1..Len(q) : r[i] = q[i]
      /\ r[Len(q) + 1] = e
  BY <1>1, AppendFrame
<1> HIDE DEF r
<1>3. PICK last \in 1..Len(q) : FilterAt(q, last, Len(q) + 1) /\ q[last].filter = f
  BY DEF Told
<1>4. FilterAt(r, last, Len(q) + 1) /\ r[last] = q[last]
  BY <1>2, <1>3 DEF FilterAt
<1>5. Told(r, f)
  <2>1. FilterAt(r, last, Len(r) + 1)
    BY <1>1, <1>2, <1>4 DEF FilterAt
  <2>2. QED
    BY <1>2, <1>3, <1>4, <2>1 DEF Told
<1>6. Honoured(r)
  <2> SUFFICES ASSUME NEW i \in DOMAIN r, r[i].kind = "alert"
               PROVE  \E k \in 1..(i - 1) : FilterAt(r, k, i) /\ Passes(r[k].filter, r[i].alert)
    BY DEF Honoured
  <2>1. CASE i = Len(q) + 1
    BY <1>1, <1>2, <1>3, <1>4, <2>1
  <2>2. CASE i # Len(q) + 1
    <3>1. i \in DOMAIN q /\ r[i] = q[i]
      BY <1>2, <2>2
    <3>2. PICK k \in 1..(i - 1) : FilterAt(q, k, i) /\ Passes(q[k].filter, q[i].alert)
      BY <3>1 DEF Honoured
    <3>3. FilterAt(r, k, i) /\ r[k] = q[k]
      BY <1>2, <3>1, <3>2 DEF FilterAt
    <3>4. QED
      BY <3>1, <3>2, <3>3
  <2>3. QED
    BY <2>1, <2>2
<1>7. QED
  BY <1>5, <1>6 DEF r, e

-----------------------------------------------------------------------------
(* Connections, places, snapshots and the channel.                         *)

\* Sending keeps inboxes: the one told grows by the frame, if it is open.
LEMMA SendKeepsFrames ==
  ASSUME inbox \in [Socket -> Seq(Frame)], NEW s \in Socket, NEW e \in Frame,
         NEW told, told = IF open[s] THEN [inbox EXCEPT ![s] = Append(@, e)] ELSE inbox
  PROVE  /\ told \in [Socket -> Seq(Frame)]
         /\ \A t \in Socket : told[t] = IF t = s /\ open[s] THEN Append(inbox[t], e) ELSE inbox[t]
<1>1. Append(inbox[s], e) \in Seq(Frame)
  BY AppendFrame
<1>2. QED
  BY <1>1

\* The steps of a connection keep the types of its variables, and let nobody
\* but a connection being served be registered.
LEMMA SocketStep == SocketInv /\ PlaceInv /\ SnapshotInv /\ [Next]_vars => SocketInv'
<1> SUFFICES ASSUME SocketInv, PlaceInv, SnapshotInv, [Next]_vars PROVE SocketInv'
  OBVIOUS
<1> USE ClientAssumption DEF SocketInv
<1>1. ASSUME NEW s \in Socket,
             Dial(s) \/ HangUp(s) \/ EndpointEnds(s) \/ EndpointFails(s)
      PROVE  SocketInv'
  <2>1. UNCHANGED <<filter, updates, inbox>> /\ open' \in [Socket -> BOOLEAN]
    BY <1>1 DEF Dial, HangUp, EndpointEnds, EndpointFails
  <2>2. CASE HangUp(s)
    BY <2>1, <2>2 DEF HangUp
  <2>3. CASE Dial(s)
    <3>1. /\ spc' \in [Socket -> {"none", "accepting", "serving", "ended"}] /\ active' = active
          /\ spc[s] = "none" /\ \A t \in Socket : t # s => spc'[t] = spc[t]
      BY <2>3 DEF Dial
    <3>2. \A c \in Client : active[c] # Nobody => active[c] # s /\ active[c] \in Socket
      BY <3>1
    <3>3. \A c \in Client : active'[c] # Nobody => IdOf[active'[c]] = c /\ spc'[active'[c]] = "serving"
      BY <3>1, <3>2
    <3>4. QED
      BY <2>1, <3>1, <3>3
  <2>4. CASE EndpointEnds(s) \/ EndpointFails(s)
    <3>1. /\ spc' \in [Socket -> {"none", "accepting", "serving", "ended"}]
          /\ \A t \in Socket : t # s => spc'[t] = spc[t]
      BY <2>4 DEF EndpointEnds, EndpointFails
    <3>2. /\ active' \in [Client -> Socket \cup {Nobody}]
          /\ \A c \in Client : active'[c] = IF c = IdOf[s] THEN Nobody ELSE active[c]
      <4>1. active' = [active EXCEPT ![IdOf[s]] = Nobody]
        BY <2>4 DEF EndpointEnds, EndpointFails, Unregister
      <4>2. QED
        BY <4>1
    <3>3. ASSUME NEW c \in Client, active'[c] # Nobody
          PROVE  IdOf[active'[c]] = c /\ spc'[active'[c]] = "serving"
      <4>1. active'[c] = active[c] /\ active[c] \in Socket /\ IdOf[active[c]] = c /\ c # IdOf[s]
        BY <3>2, <3>3
      <4>2. active[c] # s
        BY <4>1
      <4>3. QED
        BY <3>1, <3>3, <4>1, <4>2
    <3>4. QED
      BY <2>1, <3>1, <3>2, <3>3
  <2>5. QED
    BY <1>1, <2>2, <2>3, <2>4
<1>2. ASSUME NEW s \in Socket, Register(s) PROVE SocketInv'
  <2>1. FilterFrame(filter[s]) \in Frame
    BY DEF Frame
  <2>2. inbox' \in [Socket -> Seq(Frame)]
    BY <1>2, <2>1, SendKeepsFrames DEF Register, Send
  <2>3. /\ spc' \in [Socket -> {"none", "accepting", "serving", "ended"}]
        /\ \A t \in Socket : spc'[t] = IF t = s THEN "serving" ELSE spc[t]
    BY <1>2 DEF Register
  <2>4. /\ active' \in [Client -> Socket \cup {Nobody}]
        /\ \A c \in Client : active'[c] = IF c = IdOf[s] THEN s ELSE active[c]
    BY <1>2 DEF Register
  <2>5. \A c \in Client : active'[c] # Nobody => IdOf[active'[c]] = c /\ spc'[active'[c]] = "serving"
    BY <2>3, <2>4
  <2>6. UNCHANGED <<filter, open, updates>>
    BY <1>2 DEF Register
  <2>7. QED
    BY <2>2, <2>3, <2>4, <2>5, <2>6
<1>3. ASSUME NEW s \in Socket, NEW change \in Change, UpdateFilter(s, change) PROVE SocketInv'
  <2> DEFINE sub == active[IdOf[s]]
  <2>1. /\ updates' \in [Socket -> Nat] /\ \A t \in Socket : updates'[t] <= MaxUpdates[t]
        /\ UNCHANGED <<active, spc, open>>
    <3>1. /\ updates[s] \in Nat /\ MaxUpdates[s] \in Nat /\ updates[s] < MaxUpdates[s]
          /\ updates' = [updates EXCEPT ![s] = updates[s] + 1] /\ UNCHANGED <<active, spc, open>>
      BY <1>3, AlertAssumption DEF UpdateFilter
    <3>2. updates[s] + 1 \in Nat /\ updates[s] + 1 <= MaxUpdates[s]
      BY <3>1
    <3>3. QED
      BY <3>1, <3>2
  <2>2. CASE sub = Nobody
    BY <1>3, <2>1, <2>2 DEF UpdateFilter
  <2>3. CASE sub # Nobody
    <3>1. sub \in Socket
      BY <2>3
    <3>2. Updated(filter[sub], change) \in Filter
      BY <3>1, UpdatedIsFilter
    <3>3. filter' = [filter EXCEPT ![sub] = Updated(filter[sub], change)]
      BY <1>3, <2>3 DEF UpdateFilter
    <3>4. filter' \in [Socket -> Filter]
      BY <3>1, <3>2, <3>3
    <3>5. FilterFrame(filter'[sub]) \in Frame
      BY <3>1, <3>4 DEF Frame
    <3>6. inbox' = IF open[sub] THEN [inbox EXCEPT ![sub] = Append(@, FilterFrame(filter'[sub]))]
                                ELSE inbox
      BY <1>3, <2>3 DEF UpdateFilter, Send
    <3>7. inbox' \in [Socket -> Seq(Frame)]
      BY <3>1, <3>5, <3>6, SendKeepsFrames
    <3>8. QED
      BY <2>1, <3>4, <3>7
  <2>4. QED
    BY <2>2, <2>3
<1>4. ASSUME NEW j \in Job, NEW s \in Socket, SendAlert(j, s) PROVE SocketInv'
  <2>1. AlertOf(j) \in ApiAlert
    BY <1>4, AlertSent DEF SendAlert, Served
  <2>2. AlertFrame(AlertOf(j), j) \in Frame
    BY <2>1 DEF Frame
  <2>3. inbox' \in [Socket -> Seq(Frame)]
    BY <1>4, <2>2, SendKeepsFrames DEF SendAlert, Send
  <2>4. QED
    BY <1>4, <2>3 DEF SendAlert
<1>5. ASSUME NEW j \in Job, EndBroadcast(j) PROVE SocketInv'
  BY <1>5 DEF EndBroadcast
<1>6. ASSUME NEW a \in ApiAlert,
             \/ CreateAlert(a) \/ Publish(a) \/ PublishFails(a) \/ StartBroadcast(a)
             \/ CommitAlert(a) \/ CommitFails(a)
      PROVE  SocketInv'
  BY <1>6 DEF CreateAlert, Publish, PublishFails, StartBroadcast, CommitAlert, CommitFails,
              socketVars
<1>7. ASSUME NEW j \in Job, NEW s \in Socket, SkipClient(j, s) \/ SendFails(j, s)
      PROVE  SocketInv'
  BY <1>7 DEF SkipClient, SendFails, socketVars
<1>8. ASSUME Subscribe \/ ListenerBacksOff \/ TakeMessage \/ RedisDrops PROVE SocketInv'
  BY <1>8 DEF Subscribe, ListenerBacksOff, TakeMessage, RedisDrops, socketVars
<1>9. ASSUME NEW a \in WorkerAlert, WorkerCommits(a) PROVE SocketInv'
  BY <1>9 DEF WorkerCommits, socketVars
<1>10. CASE UNCHANGED vars
  BY <1>10 DEF vars, socketVars
<1>11. QED
  BY StepCases, <1>1, <1>2, <1>3, <1>4, <1>5, <1>6, <1>7, <1>8, <1>9, <1>10

\* A request, or the listener, goes from one of its places to the next.
LEMMA JobMoves ==
  ASSUME PlaceInv, NEW j \in Job, NEW from, NEW to, JobAt(j, from, to)
  PROVE  jpc[j] = from /\ jpc'[j] = to /\ (\A i \in Job : i # j => jpc'[i] = jpc[i])
  BY DEF PlaceInv, JobAt

\* Only these steps move a request or the listener.
LEMMA PlaceCases ==
  ASSUME [Next]_vars
  PROVE  \/ \E a \in ApiAlert : \/ CreateAlert(a) \/ Publish(a) \/ PublishFails(a)
                                \/ StartBroadcast(a) \/ CommitAlert(a) \/ CommitFails(a)
         \/ \E j \in Job : EndBroadcast(j)
         \/ Subscribe \/ ListenerBacksOff \/ TakeMessage
         \/ UNCHANGED <<jpc, cargo>>
<1>1. ASSUME NEW s \in Socket,
             Dial(s) \/ HangUp(s) \/ EndpointEnds(s) \/ EndpointFails(s) \/ Register(s)
      PROVE  UNCHANGED <<jpc, cargo>>
  BY <1>1 DEF Dial, HangUp, EndpointEnds, EndpointFails, Register, jobVars
<1>2. ASSUME NEW s \in Socket, NEW change \in Change, UpdateFilter(s, change)
      PROVE  UNCHANGED <<jpc, cargo>>
  BY <1>2 DEF UpdateFilter, jobVars
<1>3. ASSUME NEW j \in Job, NEW s \in Socket, SkipClient(j, s) \/ SendAlert(j, s) \/ SendFails(j, s)
      PROVE  UNCHANGED <<jpc, cargo>>
  BY <1>3 DEF SkipClient, SendAlert, SendFails
<1>4. CASE RedisDrops \/ (\E a \in WorkerAlert : WorkerCommits(a)) \/ UNCHANGED vars
  BY <1>4 DEF RedisDrops, WorkerCommits, vars, jobVars
<1>5. QED
  BY StepCases, <1>1, <1>2, <1>3, <1>4

\* Requests and the listener are where the code can be.
LEMMA PlaceStep == PlaceInv /\ RedisInv /\ [Next]_vars => PlaceInv'
<1> SUFFICES ASSUME PlaceInv, RedisInv, [Next]_vars PROVE PlaceInv'
  OBVIOUS
<1> DEFINE Places == {"idle", "publish", "broadcast", "sending", "commit", "committed",
                      "aborted", "subscribing", "listening"}
<1>1. ASSUME NEW a \in ApiAlert,
             \/ CreateAlert(a) \/ Publish(a) \/ PublishFails(a) \/ StartBroadcast(a)
             \/ CommitAlert(a) \/ CommitFails(a)
      PROVE  PlaceInv'
  <2>1. PICK from \in Places, to \in Places \ {"subscribing", "listening"} :
          JobAt(a, from, to) /\ cargo' = cargo
    BY <1>1 DEF CreateAlert, Publish, PublishFails, StartBroadcast, CommitAlert, CommitFails
  <2>2. a # Listener /\ a \in Job
    BY AlertAssumption DEF Alert, Job
  <2>3. QED
    BY <2>1, <2>2 DEF PlaceInv, JobAt, Job
<1>2. ASSUME NEW j \in Job, EndBroadcast(j) PROVE PlaceInv'
  <2>1. CASE j = Listener
    BY <1>2, <2>1, AlertAssumption DEF EndBroadcast, JobAt, PlaceInv, Alert, Job
  <2>2. CASE j # Listener
    BY <1>2, <2>2, AlertAssumption DEF EndBroadcast, JobAt, PlaceInv, Alert, Job
  <2>3. QED
    BY <2>1, <2>2
<1>3. CASE Subscribe \/ ListenerBacksOff
  BY <1>3, AlertAssumption DEF Subscribe, ListenerBacksOff, JobAt, PlaceInv, Alert, Job
<1>4. CASE TakeMessage
  <2>1. Head(channel) \in ApiAlert
    BY <1>4 DEF TakeMessage, RedisInv
  <2>2. QED
    BY <1>4, <2>1, AlertAssumption DEF TakeMessage, JobAt, PlaceInv, Alert, Job
<1>5. CASE UNCHANGED <<jpc, cargo>>
  BY <1>5 DEF PlaceInv
<1>6. QED
  BY PlaceCases, <1>1, <1>2, <1>3, <1>4, <1>5

\* Only these steps concern the broadcasts' snapshots and their dead clients.
LEMMA SnapshotCases ==
  ASSUME [Next]_vars
  PROVE  \/ \E a \in ApiAlert : StartBroadcast(a)
         \/ TakeMessage
         \/ \E j \in Job, s \in Socket : SkipClient(j, s) \/ SendAlert(j, s)
         \/ \E j \in Job, s \in Socket : SendFails(j, s)
         \/ \E j \in Job : EndBroadcast(j)
         \/ UNCHANGED <<todo, dead>>
<1>1. ASSUME NEW s \in Socket,
             Dial(s) \/ HangUp(s) \/ EndpointEnds(s) \/ EndpointFails(s) \/ Register(s)
      PROVE  UNCHANGED <<todo, dead>>
  BY <1>1 DEF Dial, HangUp, EndpointEnds, EndpointFails, Register, jobVars
<1>2. ASSUME NEW s \in Socket, NEW change \in Change, UpdateFilter(s, change)
      PROVE  UNCHANGED <<todo, dead>>
  BY <1>2 DEF UpdateFilter, jobVars
<1>3. ASSUME NEW a \in ApiAlert,
             CreateAlert(a) \/ Publish(a) \/ PublishFails(a) \/ CommitAlert(a) \/ CommitFails(a)
      PROVE  UNCHANGED <<todo, dead>>
  BY <1>3 DEF CreateAlert, Publish, PublishFails, CommitAlert, CommitFails
<1>4. CASE Subscribe \/ ListenerBacksOff
  BY <1>4 DEF Subscribe, ListenerBacksOff
<1>5. CASE RedisDrops \/ (\E a \in WorkerAlert : WorkerCommits(a)) \/ UNCHANGED vars
  BY <1>5 DEF RedisDrops, WorkerCommits, vars, jobVars
<1>6. QED
  BY StepCases, <1>1, <1>2, <1>3, <1>4, <1>5

\* A connection that was registered stays one that was; one that is down and
\* was registered stays down.
LEMMA OnceRegistered ==
  ASSUME SocketInv, [Next]_vars, NEW s \in Socket, spc[s] \in {"serving", "ended"}
  PROVE  spc'[s] \in {"serving", "ended"} /\ (open'[s] => open[s])
<1> USE DEF SocketInv
<1>1. ASSUME NEW t \in Socket,
             Dial(t) \/ HangUp(t) \/ EndpointEnds(t) \/ EndpointFails(t) \/ Register(t)
      PROVE  spc'[s] \in {"serving", "ended"} /\ (open'[s] => open[s])
  BY <1>1 DEF Dial, HangUp, EndpointEnds, EndpointFails, Register
<1>2. ASSUME NEW t \in Socket, NEW change \in Change, UpdateFilter(t, change)
      PROVE  UNCHANGED <<spc, open>>
  BY <1>2 DEF UpdateFilter
<1>3. ASSUME NEW a \in ApiAlert,
             \/ CreateAlert(a) \/ Publish(a) \/ PublishFails(a) \/ StartBroadcast(a)
             \/ CommitAlert(a) \/ CommitFails(a)
      PROVE  UNCHANGED <<spc, open>>
  BY <1>3 DEF CreateAlert, Publish, PublishFails, StartBroadcast, CommitAlert, CommitFails,
              socketVars
<1>4. ASSUME NEW j \in Job, NEW t \in Socket,
             SkipClient(j, t) \/ SendAlert(j, t) \/ SendFails(j, t)
      PROVE  UNCHANGED <<spc, open>>
  BY <1>4 DEF SkipClient, SendAlert, SendFails, socketVars
<1>5. CASE Subscribe \/ ListenerBacksOff \/ TakeMessage \/ RedisDrops
           \/ (\E a \in WorkerAlert : WorkerCommits(a)) \/ UNCHANGED vars
  BY <1>5 DEF Subscribe, ListenerBacksOff, TakeMessage, RedisDrops, WorkerCommits, vars, socketVars
<1>6. CASE \E j \in Job : EndBroadcast(j)
  BY <1>6 DEF EndBroadcast
<1>7. QED
  BY StepCases, <1>1, <1>2, <1>3, <1>4, <1>5, <1>6

\* The snapshot holds registered connections.
LEMMA SnapshotServes ==
  ASSUME SocketInv
  PROVE  Snapshot \subseteq Socket /\ \A s \in Snapshot : spc[s] = "serving" /\ Registered(s)
<1> SUFFICES ASSUME NEW s \in Snapshot
             PROVE  s \in Socket /\ spc[s] = "serving" /\ Registered(s)
  OBVIOUS
<1>1. PICK c \in Client : s = active[c] /\ s # Nobody
  BY DEF Snapshot
<1>2. QED
  BY <1>1 DEF SocketInv, Registered

\* Only its end ends a broadcast.
LEMMA StaysSending ==
  ASSUME PlaceInv, [Next]_vars, NEW j \in Job, jpc[j] = "sending", ~EndBroadcast(j)
  PROVE  jpc'[j] = "sending"
<1>1. ApiAlert \subseteq Job /\ Listener \in Job
  BY DEF Job
<1>2. ASSUME NEW i \in Job, NEW from, NEW to, JobAt(i, from, to), from # "sending"
      PROVE  jpc'[j] = "sending"
  BY <1>2, JobMoves
<1>3. ASSUME NEW a \in ApiAlert,
             \/ CreateAlert(a) \/ Publish(a) \/ PublishFails(a) \/ StartBroadcast(a)
             \/ CommitAlert(a) \/ CommitFails(a)
      PROVE  jpc'[j] = "sending"
  BY <1>1, <1>2, <1>3 DEF CreateAlert, Publish, PublishFails, StartBroadcast, CommitAlert, CommitFails
<1>4. ASSUME NEW i \in Job, EndBroadcast(i) PROVE jpc'[j] = "sending"
  BY <1>4, JobMoves DEF EndBroadcast
<1>5. CASE Subscribe \/ ListenerBacksOff \/ TakeMessage
  BY <1>1, <1>2, <1>5 DEF Subscribe, ListenerBacksOff, TakeMessage
<1>6. QED
  BY PlaceCases, <1>3, <1>4, <1>5

\* Broadcasts only serve, and only find dead, connections that were registered.
LEMMA SnapshotStep == SocketInv /\ PlaceInv /\ SnapshotInv /\ [Next]_vars => SnapshotInv'
<1> SUFFICES ASSUME SocketInv, PlaceInv, SnapshotInv, [Next]_vars PROVE SnapshotInv'
  OBVIOUS
<1> DEFINE Once(s) == spc'[s] \in {"serving", "ended"}
           Dead(c) == \E s \in Socket : IdOf[s] = c /\ ~open'[s] /\ Once(s)
<1>1. \A j \in Job : \A s \in todo[j] : Once(s)
  BY OnceRegistered DEF SnapshotInv
<1>2. ASSUME NEW j \in Job, NEW c \in dead[j] PROVE Dead(c)
  <2>1. PICK s \in Socket : IdOf[s] = c /\ ~open[s] /\ spc[s] \in {"serving", "ended"}
    BY DEF SnapshotInv
  <2>2. QED
    BY <2>1, OnceRegistered
<1>3. \A s \in Snapshot : s \in Socket /\ Once(s)
  BY SnapshotServes, OnceRegistered
<1>4. \A s \in Socket : open[s] \in BOOLEAN
  BY DEF SocketInv
<1> HIDE DEF Once, Dead
<1>5. /\ todo' \in [Job -> SUBSET Socket] /\ dead' \in [Job -> SUBSET Client]
      /\ \A j \in Job : jpc'[j] # "sending" => todo'[j] = {} /\ dead'[j] = {}
      /\ \A j \in Job : \A s \in todo'[j] : Once(s)
      /\ \A j \in Job : \A c \in dead'[j] : Dead(c)
  <2> DEFINE Goal == /\ todo' \in [Job -> SUBSET Socket] /\ dead' \in [Job -> SUBSET Client]
                     /\ \A j \in Job : jpc'[j] # "sending" => todo'[j] = {} /\ dead'[j] = {}
                     /\ \A j \in Job : \A s \in todo'[j] : Once(s)
                     /\ \A j \in Job : \A c \in dead'[j] : Dead(c)
  <2> SUFFICES Goal
    OBVIOUS
  <2> USE DEF SnapshotInv
  <2>1. ASSUME NEW j \in Job, jpc' = [jpc EXCEPT ![j] = "sending"], dead' = dead,
               todo' = [todo EXCEPT ![j] = Snapshot]
        PROVE  Goal
    BY <1>1, <1>2, <1>3, <2>1 DEF PlaceInv
  <2>2. ASSUME NEW a \in ApiAlert, StartBroadcast(a) PROVE Goal
    <3>1. a \in Job
      BY DEF Job
    <3>2. QED
      BY <2>1, <2>2, <3>1 DEF StartBroadcast, JobAt
  <2>3. CASE TakeMessage
    <3>1. Listener \in Job
      BY DEF Job
    <3>2. QED
      BY <2>1, <2>3, <3>1 DEF TakeMessage, JobAt
  <2>4. ASSUME NEW j \in Job, NEW s \in Socket, SkipClient(j, s) \/ SendAlert(j, s) PROVE Goal
    <3>1. jpc' = jpc /\ dead' = dead /\ todo' = [todo EXCEPT ![j] = @ \ {s}]
      BY <2>4 DEF SkipClient, SendAlert
    <3>2. QED
      BY <1>1, <1>2, <3>1
  <2>5. ASSUME NEW j \in Job, NEW s \in Socket, SendFails(j, s) PROVE Goal
    <3>1. /\ jpc' = jpc /\ todo' = [todo EXCEPT ![j] = @ \ {s}]
          /\ dead' = [dead EXCEPT ![j] = @ \cup {IdOf[s]}] /\ jpc[j] = "sending"
          /\ s \in todo[j] /\ ~open[s] /\ open' = open
      BY <2>5 DEF SendFails, Served, socketVars
    <3>2. Once(s) /\ IdOf[s] \in Client
      BY <1>1, <3>1, ClientAssumption
    <3>3. Dead(IdOf[s])
      BY <3>1, <3>2 DEF Dead
    <3>4. QED
      BY <1>1, <1>2, <3>1, <3>2, <3>3
  <2>6. ASSUME NEW j \in Job, EndBroadcast(j) PROVE Goal
    <3>1. /\ todo[j] = {} /\ todo' = todo /\ dead' = [dead EXCEPT ![j] = {}]
          /\ \A i \in Job : i # j => jpc'[i] = jpc[i]
      BY <2>6, JobMoves DEF EndBroadcast
    <3>2. QED
      BY <1>1, <1>2, <3>1
  <2>7. CASE UNCHANGED <<todo, dead>> /\ ~\E j \in Job : EndBroadcast(j)
    <3>1. ASSUME NEW j \in Job, jpc[j] = "sending" PROVE jpc'[j] = "sending"
      BY <2>7, <3>1, StaysSending
    <3>2. QED
      BY <1>1, <1>2, <2>7, <3>1
  <2>8. QED
    BY SnapshotCases, <2>2, <2>3, <2>4, <2>5, <2>6, <2>7
<1>6. QED
  BY <1>5 DEF SnapshotInv, Once, Dead

\* What is published stays so, and a broadcast begun is never begun again.
LEMMA PublishedStays ==
  ASSUME PlaceInv, [Next]_vars, NEW a \in ApiAlert
  PROVE  /\ Published(a, jpc) => Published(a, jpc')
         /\ jpc[a] \notin {"idle", "publish", "broadcast"} =>
              jpc'[a] \notin {"idle", "publish", "broadcast"}
<1>1. ApiAlert \subseteq Job /\ Listener \in Job /\ a # Listener
  BY AlertAssumption DEF Alert, Job
<1> DEFINE Goal == /\ Published(a, jpc) => Published(a, jpc')
                   /\ jpc[a] \notin {"idle", "publish", "broadcast"} =>
                        jpc'[a] \notin {"idle", "publish", "broadcast"}
<1> SUFFICES Goal
  OBVIOUS
<1>2. ASSUME NEW j \in Job, NEW from, NEW to, JobAt(j, from, to),
             to \notin {"idle", "publish", "broadcast"}
      PROVE  Goal
  BY <1>1, <1>2, JobMoves DEF Published
<1> HIDE DEF Goal
<1>3. ASSUME NEW b \in ApiAlert, CreateAlert(b) \/ Publish(b) \/ PublishFails(b) PROVE Goal
  <2>1. JobAt(b, "idle", "publish") \/ JobAt(b, "publish", "broadcast")
    BY <1>3 DEF CreateAlert, Publish, PublishFails
  <2>2. b \in Job
    BY <1>1
  <2>3. CASE JobAt(b, "idle", "publish")
    BY <1>1, <2>2, <2>3, JobMoves DEF Published, Goal
  <2>4. CASE JobAt(b, "publish", "broadcast")
    BY <1>1, <2>2, <2>4, JobMoves DEF Published, Goal
  <2>5. QED
    BY <2>1, <2>3, <2>4
<1>4. ASSUME NEW b \in ApiAlert, StartBroadcast(b) \/ CommitAlert(b) \/ CommitFails(b) PROVE Goal
  BY <1>1, <1>2, <1>4 DEF StartBroadcast, CommitAlert, CommitFails
<1>5. ASSUME NEW j \in Job, EndBroadcast(j) PROVE Goal
  BY <1>2, <1>5 DEF EndBroadcast
<1>6. CASE Subscribe \/ ListenerBacksOff \/ TakeMessage
  BY <1>1, <1>2, <1>6 DEF Subscribe, ListenerBacksOff, TakeMessage
<1>7. CASE UNCHANGED <<jpc, cargo>>
  BY <1>7 DEF Published, Goal
<1>8. QED
  BY PlaceCases, <1>3, <1>4, <1>5, <1>6, <1>7

\* Only a message starts a broadcast of the listener.
LEMMA ListenerCarries ==
  ASSUME PlaceInv, [Next]_vars, jpc'[Listener] = "sending", ~TakeMessage
  PROVE  jpc[Listener] = "sending" /\ cargo' = cargo
<1>1. ApiAlert \subseteq Job /\ Listener \in Job /\ Listener \notin ApiAlert
  BY AlertAssumption DEF Alert, Job
<1>2. ASSUME NEW a \in ApiAlert,
             \/ CreateAlert(a) \/ Publish(a) \/ PublishFails(a) \/ StartBroadcast(a)
             \/ CommitAlert(a) \/ CommitFails(a)
      PROVE  jpc[Listener] = "sending" /\ cargo' = cargo
  <2>1. cargo' = cargo /\ \E from, to : JobAt(a, from, to)
    BY <1>2 DEF CreateAlert, Publish, PublishFails, StartBroadcast, CommitAlert, CommitFails
  <2>2. QED
    BY <1>1, <2>1, JobMoves
<1>3. ASSUME NEW j \in Job, EndBroadcast(j) PROVE jpc[Listener] = "sending" /\ cargo' = cargo
  BY <1>1, <1>3, JobMoves DEF EndBroadcast
<1>4. CASE Subscribe \/ ListenerBacksOff
  BY <1>1, <1>4, JobMoves DEF Subscribe, ListenerBacksOff
<1>5. QED
  BY PlaceCases, <1>2, <1>3, <1>4

\* Only these steps concern Redis.
LEMMA RedisCases ==
  ASSUME [Next]_vars
  PROVE  \/ \E a \in ApiAlert : Publish(a)
         \/ Subscribe \/ TakeMessage \/ RedisDrops
         \/ UNCHANGED redisVars
<1>1. ASSUME NEW s \in Socket,
             Dial(s) \/ HangUp(s) \/ EndpointEnds(s) \/ EndpointFails(s) \/ Register(s)
      PROVE  UNCHANGED redisVars
  BY <1>1 DEF Dial, HangUp, EndpointEnds, EndpointFails, Register
<1>2. ASSUME NEW s \in Socket, NEW change \in Change, UpdateFilter(s, change)
      PROVE  UNCHANGED redisVars
  BY <1>2 DEF UpdateFilter
<1>3. ASSUME NEW a \in ApiAlert,
             \/ CreateAlert(a) \/ PublishFails(a) \/ StartBroadcast(a)
             \/ CommitAlert(a) \/ CommitFails(a)
      PROVE  UNCHANGED redisVars
  BY <1>3 DEF CreateAlert, PublishFails, StartBroadcast, CommitAlert, CommitFails
<1>4. ASSUME NEW j \in Job, NEW s \in Socket,
             SkipClient(j, s) \/ SendAlert(j, s) \/ SendFails(j, s)
      PROVE  UNCHANGED redisVars
  BY <1>4 DEF SkipClient, SendAlert, SendFails
<1>5. CASE \/ \E j \in Job : EndBroadcast(j)
           \/ ListenerBacksOff \/ (\E a \in WorkerAlert : WorkerCommits(a)) \/ UNCHANGED vars
  BY <1>5 DEF EndBroadcast, ListenerBacksOff, WorkerCommits, vars
<1>6. QED
  BY StepCases, <1>1, <1>2, <1>3, <1>4, <1>5

\* A published alert is once in Redis, or once with the listener.
LEMMA RedisStep == PlaceInv /\ RedisInv /\ [Next]_vars => RedisInv'
<1> SUFFICES ASSUME PlaceInv, RedisInv, [Next]_vars PROVE RedisInv'
  OBVIOUS
<1>1. \A a \in ApiAlert : Published(a, jpc) => Published(a, jpc')
  BY PublishedStays
<1>2. ApiAlert \subseteq Job /\ Listener \in Job
  BY DEF Job
<1>3. Len(channel) \in Nat /\ DOMAIN channel = 1..Len(channel)
      /\ \A i \in DOMAIN channel : channel[i] \in ApiAlert
  BY DEF RedisInv
<1>4. jpc[Listener] = "sending" => cargo \in ApiAlert
  BY DEF PlaceInv
<1>5. <<>> \in Seq(ApiAlert) /\ DOMAIN <<>> = {} /\ Distinct(<<>>)
  BY DEF Distinct
<1> DEFINE Carried(q) == jpc'[Listener] = "sending" =>
                           Published(cargo', jpc') /\ \A i \in DOMAIN q : q[i] # cargo'
<1>6. ASSUME ~TakeMessage, NEW q \in Seq(ApiAlert),
             \A i \in DOMAIN q : q[i] \in {channel[k] : k \in DOMAIN channel}
                                 \/ jpc[q[i]] = "publish"
      PROVE  Carried(q)
  <2> SUFFICES ASSUME jpc'[Listener] = "sending"
               PROVE  Published(cargo', jpc') /\ \A i \in DOMAIN q : q[i] # cargo'
    OBVIOUS
  <2>1. jpc[Listener] = "sending" /\ cargo' = cargo /\ cargo \in ApiAlert
    BY <1>4, <1>6, ListenerCarries
  <2>2. Published(cargo, jpc) /\ \A k \in DOMAIN channel : channel[k] # cargo
    BY <2>1 DEF RedisInv
  <2>3. Published(cargo', jpc')
    BY <1>1, <2>1, <2>2 DEF Published
  <2>4. QED
    BY <1>6, <2>1, <2>2, <2>3 DEF Published
<1>7. ASSUME NEW a \in ApiAlert, Publish(a) PROVE RedisInv'
  <2>1. jpc[a] = "publish" /\ jpc'[a] = "broadcast" /\ subscribed' = subscribed
    BY <1>2, <1>7, JobMoves DEF Publish
  <2>2. ~TakeMessage
    <3>1. TakeMessage => jpc'[Listener] = "sending" /\ jpc[Listener] = "listening"
      BY <1>2, JobMoves DEF TakeMessage
    <3>2. a # Listener
      BY AlertAssumption DEF Alert
    <3>3. jpc'[Listener] = jpc[Listener]
      BY <1>2, <1>7, <3>2, JobMoves DEF Publish
    <3>4. QED
      BY <3>1, <3>3
  <2>3. Published(a, jpc') /\ ~Published(a, jpc)
    BY <2>1 DEF Published
  <2>4. CASE subscribed
    <3>1. channel' = Append(channel, a)
      BY <1>7, <2>4 DEF Publish
    <3>2. /\ channel' \in Seq(ApiAlert) /\ DOMAIN channel' = 1..(Len(channel) + 1)
          /\ \A i \in DOMAIN channel : channel'[i] = channel[i]
          /\ channel'[Len(channel) + 1] = a
      BY <1>3, <3>1 DEF RedisInv
    <3>3. \A i \in DOMAIN channel : channel[i] # a
      BY <2>3 DEF RedisInv
    <3>4. Distinct(channel')
      BY <1>3, <3>2, <3>3 DEF RedisInv, Distinct
    <3>5. \A i \in DOMAIN channel' : Published(channel'[i], jpc')
      BY <1>1, <1>3, <2>3, <3>2 DEF RedisInv
    <3>6. Carried(channel')
      BY <1>3, <1>6, <2>1, <2>2, <3>2
    <3>7. QED
      BY <2>1, <2>4, <3>2, <3>4, <3>5, <3>6 DEF RedisInv
  <2>5. CASE ~subscribed
    <3>1. channel' = <<>> /\ channel = <<>>
      BY <1>7, <2>5 DEF Publish, RedisInv
    <3>2. Carried(channel')
      BY <1>6, <1>5, <2>2, <3>1
    <3>3. QED
      BY <1>5, <2>1, <3>1, <3>2 DEF RedisInv
  <2>6. QED
    BY <2>4, <2>5
<1>8. CASE TakeMessage
  <2>1. /\ channel # <<>> /\ cargo' = Head(channel) /\ channel' = Tail(channel)
        /\ subscribed' = subscribed
    BY <1>8 DEF TakeMessage
  <2>2. /\ channel' \in Seq(ApiAlert) /\ Len(channel) > 0 /\ DOMAIN channel' = 1..(Len(channel) - 1)
        /\ \A i \in DOMAIN channel' : channel'[i] = channel[i + 1] /\ i + 1 \in DOMAIN channel
        /\ cargo' = channel[1] /\ 1 \in DOMAIN channel
    BY <1>3, <2>1 DEF RedisInv
  <2>3. Distinct(channel')
    BY <1>3, <2>2 DEF RedisInv, Distinct
  <2>4. \A i \in DOMAIN channel : Published(channel[i], jpc')
    BY <1>1, <1>3 DEF RedisInv
  <2>5. \A i \in DOMAIN channel' : Published(channel'[i], jpc')
    BY <2>2, <2>4
  <2>6. Published(cargo', jpc')
    BY <2>2, <2>4 DEF Published
  <2>7. \A i \in DOMAIN channel' : channel'[i] # cargo'
    BY <1>3, <2>2 DEF RedisInv, Distinct
  <2>8. ~subscribed' => channel' = <<>>
    BY <2>1 DEF RedisInv
  <2>9. QED
    BY <2>1, <2>2, <2>3, <2>5, <2>6, <2>7, <2>8 DEF RedisInv
<1>9. CASE (RedisDrops \/ Subscribe \/ UNCHANGED redisVars) /\ ~TakeMessage
  <2>1. /\ subscribed' \in BOOLEAN /\ (channel' = channel \/ channel' = <<>>)
        /\ (~subscribed' => channel' = <<>>)
    <3>1. CASE RedisDrops
      BY <3>1 DEF RedisDrops
    <3>2. CASE Subscribe
      BY <3>2 DEF Subscribe
    <3>3. CASE UNCHANGED redisVars
      BY <3>3 DEF redisVars, RedisInv
    <3>4. QED
      BY <1>9, <3>1, <3>2, <3>3
  <2>2. Carried(channel')
    BY <1>6, <1>9, <2>1 DEF RedisInv
  <2>3. \A i \in DOMAIN channel : Published(channel[i], jpc')
    BY <1>1, <1>3 DEF RedisInv
  <2>4. \A i \in DOMAIN channel' : Published(channel'[i], jpc')
    BY <2>1, <2>3
  <2>5. channel' \in Seq(ApiAlert) /\ Distinct(channel')
    BY <1>5, <2>1 DEF RedisInv
  <2>6. QED
    BY <2>1, <2>2, <2>4, <2>5 DEF RedisInv
<1>10. QED
  BY RedisCases, <1>7, <1>8, <1>9

\* Only commits concern the database.
LEMMA CommitStep == CommitInv /\ SocketInv /\ [Next]_vars => CommitInv'
<1> SUFFICES ASSUME CommitInv, SocketInv, [Next]_vars PROVE CommitInv'
  OBVIOUS
<1> USE DEF CommitInv
<1>1. ASSUME NEW s \in Socket,
             Dial(s) \/ HangUp(s) \/ EndpointEnds(s) \/ EndpointFails(s) \/ Register(s)
      PROVE  UNCHANGED alertVars
  BY <1>1 DEF Dial, HangUp, EndpointEnds, EndpointFails, Register
<1>2. ASSUME NEW s \in Socket, NEW change \in Change, UpdateFilter(s, change)
      PROVE  UNCHANGED alertVars
  BY <1>2 DEF UpdateFilter
<1>3. ASSUME NEW a \in ApiAlert,
             CreateAlert(a) \/ PublishFails(a) \/ Publish(a) \/ StartBroadcast(a) \/ CommitFails(a)
      PROVE  UNCHANGED alertVars
  BY <1>3 DEF CreateAlert, PublishFails, Publish, StartBroadcast, CommitFails
<1>4. ASSUME NEW j \in Job, NEW s \in Socket,
             SkipClient(j, s) \/ SendAlert(j, s) \/ SendFails(j, s)
      PROVE  UNCHANGED alertVars
  BY <1>4 DEF SkipClient, SendAlert, SendFails
<1>5. ASSUME \/ \E j \in Job : EndBroadcast(j)
             \/ Subscribe \/ ListenerBacksOff \/ TakeMessage \/ RedisDrops \/ UNCHANGED vars
      PROVE  UNCHANGED alertVars
  BY <1>5 DEF EndBroadcast, Subscribe, ListenerBacksOff, TakeMessage, RedisDrops, vars
<1>6. ASSUME NEW a \in ApiAlert, CommitAlert(a) PROVE CommitInv'
  BY <1>6 DEF CommitAlert, Alert
<1>7. ASSUME NEW a \in WorkerAlert, WorkerCommits(a) PROVE CommitInv'
  BY <1>7, SnapshotServes DEF WorkerCommits, Alert
<1>8. CASE UNCHANGED alertVars
  BY <1>8 DEF alertVars
<1>9. QED
  BY StepCases, <1>1, <1>2, <1>3, <1>4, <1>5, <1>6, <1>7, <1>8

-----------------------------------------------------------------------------
(* What dashboards are told.                                               *)

\* An inbox only grows: by a filter, or by an alert that is being broadcast.
LEMMA InboxCases ==
  ASSUME SocketInv, PlaceInv, [Next]_vars, NEW s \in Socket
  PROVE  \/ inbox'[s] = inbox[s]
         \/ \E f \in Filter : inbox'[s] = Append(inbox[s], FilterFrame(f))
         \/ \E j \in Job : SendAlert(j, s) /\ open[s]
                           /\ inbox'[s] = Append(inbox[s], AlertFrame(AlertOf(j), j))
<1> DEFINE Goal == \/ inbox'[s] = inbox[s]
                   \/ \E f \in Filter : inbox'[s] = Append(inbox[s], FilterFrame(f))
                   \/ \E j \in Job : SendAlert(j, s) /\ open[s]
                                     /\ inbox'[s] = Append(inbox[s], AlertFrame(AlertOf(j), j))
<1> SUFFICES Goal
  OBVIOUS
<1>1. ASSUME NEW t \in Socket, Register(t) PROVE Goal
  <2>1. FilterFrame(filter[t]) \in Frame /\ filter[t] \in Filter
    BY DEF Frame, SocketInv
  <2>2. inbox'[s] = IF s = t /\ open[t] THEN Append(inbox[s], FilterFrame(filter[t])) ELSE inbox[s]
    BY <1>1, <2>1, SendKeepsFrames DEF Register, Send, SocketInv
  <2>3. QED
    BY <2>1, <2>2
<1>2. ASSUME NEW t \in Socket, NEW change \in Change, UpdateFilter(t, change) PROVE Goal
  <2> DEFINE sub == active[IdOf[t]]
  <2>1. CASE sub = Nobody
    BY <1>2, <2>1 DEF UpdateFilter
  <2>2. CASE sub # Nobody
    <3>1. sub \in Socket
      BY <2>2, ClientAssumption DEF SocketInv
    <3>2. filter'[sub] \in Filter
      BY <1>2, <2>2, <3>1, UpdatedIsFilter DEF UpdateFilter, SocketInv
    <3>3. FilterFrame(filter'[sub]) \in Frame
      BY <3>2 DEF Frame
    <3>4. inbox' = IF open[sub] THEN [inbox EXCEPT ![sub] = Append(@, FilterFrame(filter'[sub]))]
                                ELSE inbox
      BY <1>2, <2>2 DEF UpdateFilter, Send
    <3>5. inbox'[s] = IF s = sub /\ open[sub] THEN Append(inbox[s], FilterFrame(filter'[sub]))
                                              ELSE inbox[s]
      BY <3>1, <3>3, <3>4, SendKeepsFrames DEF SocketInv
    <3>6. QED
      BY <3>2, <3>5
  <2>3. QED
    BY <2>1, <2>2
<1>3. ASSUME NEW j \in Job, NEW t \in Socket, SendAlert(j, t) PROVE Goal
  <2>1. AlertFrame(AlertOf(j), j) \in Frame
    BY <1>3, AlertSent DEF SendAlert, Served, Frame
  <2>2. inbox'[s] = IF s = t /\ open[t] THEN Append(inbox[s], AlertFrame(AlertOf(j), j))
                                        ELSE inbox[s]
    BY <1>3, <2>1, SendKeepsFrames DEF SendAlert, Send, SocketInv
  <2>3. QED
    BY <1>3, <2>2
<1>4. ASSUME NEW t \in Socket, Dial(t) \/ HangUp(t) \/ EndpointEnds(t) \/ EndpointFails(t)
      PROVE  inbox' = inbox
  BY <1>4 DEF Dial, HangUp, EndpointEnds, EndpointFails
<1>5. ASSUME NEW a \in ApiAlert,
             \/ CreateAlert(a) \/ Publish(a) \/ PublishFails(a) \/ StartBroadcast(a)
             \/ CommitAlert(a) \/ CommitFails(a)
      PROVE  inbox' = inbox
  BY <1>5 DEF CreateAlert, Publish, PublishFails, StartBroadcast, CommitAlert, CommitFails,
              socketVars
<1>6. ASSUME NEW j \in Job, NEW t \in Socket, SkipClient(j, t) \/ SendFails(j, t)
      PROVE  inbox' = inbox
  BY <1>6 DEF SkipClient, SendFails, socketVars
<1>7. CASE \/ \E j \in Job : EndBroadcast(j)
           \/ Subscribe \/ ListenerBacksOff \/ TakeMessage \/ RedisDrops
           \/ (\E a \in WorkerAlert : WorkerCommits(a)) \/ UNCHANGED vars
  BY <1>7 DEF EndBroadcast, Subscribe, ListenerBacksOff, TakeMessage, RedisDrops, WorkerCommits,
              vars, socketVars
<1>8. QED
  BY StepCases, <1>1, <1>2, <1>3, <1>4, <1>5, <1>6, <1>7

\* An alert that was sent, or filtered out, or found its dashboard dead, once
\* by a path is not sent by it again.
LEMMA BehindStays ==
  ASSUME PlaceInv, SnapshotInv, RedisInv, [Next]_vars, SnapshotInv', PlaceInv',
         NEW s \in Socket, NEW a \in ApiAlert, NEW j \in Job, Behind(j, a, s)
  PROVE  Behind(j, a, s)'
<1>1. ApiAlert \subseteq Job /\ Listener \in Job /\ Listener \notin ApiAlert
  BY AlertAssumption DEF Alert, Job
<1>2. \A b \in ApiAlert : Published(b, jpc) => Published(b, jpc')
  BY PublishedStays
<1>3. ASSUME NEW i \in Job, s \notin todo[i], s \in todo'[i]
      PROVE  (i \in ApiAlert /\ jpc[i] = "broadcast") \/ (i = Listener /\ TakeMessage)
  <2>1. CASE \E b \in ApiAlert : StartBroadcast(b)
    BY <1>3, <2>1 DEF StartBroadcast, JobAt, SnapshotInv
  <2>2. CASE TakeMessage
    BY <1>1, <1>3, <2>2 DEF TakeMessage, SnapshotInv
  <2>3. CASE \E k \in Job, t \in Socket : SkipClient(k, t) \/ SendAlert(k, t) \/ SendFails(k, t)
    BY <1>3, <2>3 DEF SkipClient, SendAlert, SendFails, SnapshotInv
  <2>4. CASE \E k \in Job : EndBroadcast(k)
    BY <1>3, <2>4 DEF EndBroadcast
  <2>5. CASE UNCHANGED <<todo, dead>>
    BY <1>3, <2>5
  <2>6. QED
    BY SnapshotCases, <2>1, <2>2, <2>3, <2>4, <2>5
<1>4. CASE j = a
  <2>1. jpc[a] \notin {"idle", "publish", "broadcast"} /\ s \notin todo[a]
    BY <1>4 DEF Behind
  <2>2. jpc'[a] \notin {"idle", "publish", "broadcast"}
    BY <2>1, PublishedStays
  <2>3. s \notin todo'[a]
    BY <1>1, <1>3, <2>1
  <2>4. QED
    BY <1>1, <1>4, <2>2, <2>3 DEF Behind
<1>5. CASE j = Listener
  <2>1. Published(a, jpc) /\ (\A i \in DOMAIN channel : channel[i] # a)
        /\ (a = cargo => s \notin todo[Listener])
    BY <1>5 DEF Behind
  <2>2. Published(a, jpc')
    BY <1>2, <2>1
  <2>3. \A i \in DOMAIN channel' : channel'[i] # a
    <3>1. DOMAIN channel = 1..Len(channel) /\ Len(channel) \in Nat /\ channel \in Seq(ApiAlert)
      BY DEF RedisInv
    <3>2. ASSUME NEW b \in ApiAlert, Publish(b) PROVE \A i \in DOMAIN channel' : channel'[i] # a
      <4>1. b # a
        BY <2>1, <3>2 DEF Publish, JobAt, Published
      <4>2. channel' = Append(channel, b) \/ channel' = channel
        BY <3>2 DEF Publish
      <4>3. QED
        BY <2>1, <3>1, <4>1, <4>2
    <3>3. CASE TakeMessage
      <4>1. channel' = Tail(channel) /\ channel # <<>>
        BY <3>3 DEF TakeMessage
      <4>2. QED
        BY <2>1, <3>1, <4>1
    <3>4. CASE RedisDrops
      BY <3>4 DEF RedisDrops
    <3>5. CASE Subscribe \/ UNCHANGED redisVars
      BY <2>1, <3>5 DEF Subscribe, redisVars
    <3>6. QED
      BY RedisCases, <3>2, <3>3, <3>4, <3>5
  <2>4. a = cargo' => s \notin todo'[Listener]
    <3>1. CASE TakeMessage
      <4>1. cargo' = channel[1] /\ 1 \in DOMAIN channel
        BY <3>1 DEF TakeMessage, RedisInv
      <4>2. QED
        BY <2>1, <4>1
    <3>2. CASE jpc'[Listener] # "sending"
      BY <1>1, <3>2 DEF SnapshotInv
    <3>3. CASE ~TakeMessage /\ jpc'[Listener] = "sending"
      BY <1>1, <1>3, <2>1, <3>3, ListenerCarries
    <3>4. QED
      BY <3>1, <3>2, <3>3
  <2>5. QED
    BY <1>1, <1>5, <2>2, <2>3, <2>4 DEF Behind
<1>6. QED
  BY <1>4, <1>5 DEF Behind

\* No alert comes twice by the same path.
LEMMA OnceStep ==
  SocketInv /\ PlaceInv /\ SnapshotInv /\ RedisInv /\ OnceInv /\ [Next]_vars => OnceInv'
<1> SUFFICES ASSUME SocketInv, PlaceInv, SnapshotInv, RedisInv, OnceInv, [Next]_vars PROVE OnceInv'
  OBVIOUS
<1>1. PlaceInv' /\ SnapshotInv'
  BY PlaceStep, SnapshotStep
<1> SUFFICES ASSUME NEW s \in Socket
             PROVE  /\ NoAlertTwice(inbox'[s])
                    /\ \A i \in DOMAIN inbox'[s], a \in ApiAlert, j \in Job :
                         inbox'[s][i] = AlertFrame(a, j) => Behind(j, a, s)'
  BY DEF OnceInv
<1> DEFINE q == inbox[s]
           r == inbox'[s]
<1>2. q \in Seq(Frame) /\ NoAlertTwice(q)
  BY DEF SocketInv, OnceInv
<1>3. ASSUME NEW i \in DOMAIN q, NEW a \in ApiAlert, NEW j \in Job, q[i] = AlertFrame(a, j)
      PROVE  Behind(j, a, s)'
  BY <1>1, <1>3, BehindStays DEF OnceInv
<1>4. CASE r = q
  BY <1>2, <1>3, <1>4
<1>5. ASSUME NEW f \in Filter, r = Append(q, FilterFrame(f))
      PROVE  /\ NoAlertTwice(r)
             /\ \A i \in DOMAIN r, a \in ApiAlert, j \in Job :
                  r[i] = AlertFrame(a, j) => Behind(j, a, s)'
  <2>1. FilterFrame(f) \in Frame /\ FilterFrame(f).kind = "filter"
    BY DEF Frame, FilterFrame
  <2>2. /\ DOMAIN q = 1..Len(q) /\ DOMAIN r = 1..(Len(q) + 1) /\ Len(q) \in Nat
        /\ \A i \in 1..Len(q) : r[i] = q[i]
        /\ r[Len(q) + 1] = FilterFrame(f)
    BY <1>2, <1>5, <2>1, AppendFrame
  <2>3. \A a \in ApiAlert, j \in Job : FilterFrame(f) # AlertFrame(a, j)
    BY DEF FilterFrame, AlertFrame
  <2> HIDE DEF q, r
  <2>4. NoAlertTwice(r)
    BY <1>2, <2>1, <2>2 DEF NoAlertTwice
  <2>5. \A i \in DOMAIN r, a \in ApiAlert, j \in Job :
          r[i] = AlertFrame(a, j) => i \in DOMAIN q /\ q[i] = AlertFrame(a, j)
    BY <2>2, <2>3
  <2>6. QED
    BY <1>3, <2>4, <2>5
<1>6. ASSUME NEW j \in Job, SendAlert(j, s), r = Append(q, AlertFrame(AlertOf(j), j))
      PROVE  /\ NoAlertTwice(r)
             /\ \A i \in DOMAIN r, a \in ApiAlert, k \in Job :
                  r[i] = AlertFrame(a, k) => Behind(k, a, s)'
  <2>1. PICK b \in ApiAlert : b = AlertOf(j)
    BY <1>6, AlertSent DEF SendAlert, Served
  <2>2. /\ jpc[j] = "sending" /\ s \in todo[j]
        /\ todo' = [todo EXCEPT ![j] = @ \ {s}] /\ UNCHANGED <<jpc, cargo, channel>>
    BY <1>6 DEF SendAlert, Served, redisVars
  <2>3. IF j = Listener THEN b = cargo ELSE b = j
    BY <2>1 DEF AlertOf
  <2>4. ~Behind(j, b, s)
    BY <2>2, <2>3 DEF Behind
  <2>5. \A i \in DOMAIN q : q[i] # AlertFrame(b, j)
    BY <2>4 DEF OnceInv
  <2>6. s \notin todo'[j]
    BY <2>2 DEF SnapshotInv
  <2>7. Behind(j, b, s)'
    <3>1. CASE j = Listener
      <4>1. Published(b, jpc) /\ \A i \in DOMAIN channel : channel[i] # b
        BY <2>2, <2>3, <3>1 DEF RedisInv
      <4>2. b # Listener
        BY AlertAssumption DEF Alert
      <4>3. QED
        BY <2>2, <2>6, <3>1, <4>1, <4>2 DEF Behind
    <3>2. CASE j # Listener
      BY <2>2, <2>3, <2>6, <3>2 DEF Behind
    <3>3. QED
      BY <3>1, <3>2
  <2>8. /\ AlertFrame(b, j) \in Frame
        /\ \A a \in ApiAlert, k \in Job : AlertFrame(b, j) = AlertFrame(a, k) => a = b /\ k = j
    BY DEF Frame, AlertFrame
  <2>9. /\ DOMAIN q = 1..Len(q) /\ DOMAIN r = 1..(Len(q) + 1) /\ Len(q) \in Nat
        /\ \A i \in 1..Len(q) : r[i] = q[i]
        /\ r[Len(q) + 1] = AlertFrame(b, j)
    BY <1>2, <1>6, <2>1, <2>8, AppendFrame
  <2> SUFFICES /\ NoAlertTwice(r)
               /\ \A i \in DOMAIN r, a \in ApiAlert, k \in Job :
                    r[i] = AlertFrame(a, k) => Behind(k, a, s)'
    OBVIOUS
  <2> HIDE DEF q, r
  <2>10. NoAlertTwice(r)
    BY <1>2, <2>5, <2>9 DEF NoAlertTwice
  <2>11. ASSUME NEW i \in DOMAIN r, NEW a \in ApiAlert, NEW k \in Job, r[i] = AlertFrame(a, k)
         PROVE  Behind(k, a, s)'
    <3>1. CASE i \in DOMAIN q
      BY <1>3, <2>9, <2>11, <3>1
    <3>2. CASE i = Len(q) + 1
      <4>1. a = b /\ k = j
        BY <2>8, <2>9, <2>11, <3>2
      <4>2. QED
        BY <2>7, <4>1
    <3>3. QED
      BY <2>9, <3>1, <3>2
  <2>12. QED
    BY <2>10, <2>11
<1>7. QED
  BY InboxCases, <1>4, <1>5, <1>6

\* Who is told nothing new, and is not newly registered, served or up.
LEMMA FilterKept ==
  ASSUME FilterInv, UNCHANGED <<filter, inbox>>,
         \A s \in Socket : active'[IdOf[s]] = s /\ open'[s] => Registered(s) /\ open[s],
         \A j \in Job : \A s \in todo'[j] : open'[s] => s \in Socket /\ open[s] /\ (s \in todo[j] \/ Registered(s))
  PROVE  FilterInv'
  BY DEF FilterInv, Registered

\* One connection's snapshot is what another's is: only filter and inbox of s
\* change, and s is told the filter it has from now on.
LEMMA FilterTold ==
  ASSUME SocketInv, FilterInv, SocketInv', NEW s \in Socket, NEW f \in Filter,
         filter' = [filter EXCEPT ![s] = f], UNCHANGED <<open, todo>>,
         inbox' = IF open[s] THEN [inbox EXCEPT ![s] = Append(@, FilterFrame(f))] ELSE inbox,
         \A t \in Socket : t # s /\ active'[IdOf[t]] = t => Registered(t),
         SnapshotInv
  PROVE  FilterInv'
<1>1. FilterFrame(f) \in Frame
  BY DEF Frame
<1>2. \A t \in Socket :
        inbox'[t] = IF t = s /\ open[s] THEN Append(inbox[t], FilterFrame(f)) ELSE inbox[t]
  BY <1>1, SendKeepsFrames DEF SocketInv
<1>3. open[s] => Told(inbox'[s], f) /\ Honoured(inbox'[s])
  BY <1>2, TellFilter DEF SocketInv, FilterInv
<1>4. filter'[s] = f /\ \A t \in Socket : t # s => filter'[t] = filter[t]
  BY DEF SocketInv
<1>5. \A t \in Socket : Honoured(inbox'[t])
  BY <1>2, <1>3 DEF FilterInv
<1>6. ASSUME NEW t \in Socket, open[t], t = s \/ Told(inbox[t], filter[t])
      PROVE  Told(inbox'[t], filter'[t])
  BY <1>2, <1>3, <1>4, <1>6
<1>7. \A t \in Socket : active'[IdOf[t]] = t /\ open[t] => Told(inbox'[t], filter'[t])
  BY <1>6 DEF FilterInv
<1>8. \A j \in Job : \A t \in todo[j] : t \in Socket /\ (open[t] => Told(inbox'[t], filter'[t]))
  BY <1>6 DEF FilterInv, SnapshotInv
<1>9. QED
  BY <1>5, <1>7, <1>8 DEF FilterInv, Registered

\* Dashboards get what the filter they were told of lets through.
LEMMA FilterStep ==
  SocketInv /\ PlaceInv /\ SnapshotInv /\ FilterInv /\ [Next]_vars => FilterInv'
<1> SUFFICES ASSUME SocketInv, PlaceInv, SnapshotInv, FilterInv, [Next]_vars PROVE FilterInv'
  OBVIOUS
<1>1. SocketInv' /\ SnapshotInv'
  BY SocketStep, SnapshotStep
<1>2. \A j \in Job : todo[j] \subseteq Socket /\ todo'[j] \subseteq Socket
  BY <1>1 DEF SnapshotInv
<1>3. ASSUME NEW s \in Socket, Dial(s) PROVE FilterInv'
  <2>1. /\ spc[s] = "none" /\ UNCHANGED <<active, filter, inbox, todo>>
        /\ \A t \in Socket : t # s => open'[t] = open[t]
    BY <1>3 DEF Dial, jobVars, SocketInv
  <2>2. \A t \in Socket : Registered(t) => spc[t] = "serving"
    BY ClientAssumption DEF SocketInv, Registered
  <2>3. \A j \in Job : \A t \in todo[j] : spc[t] \in {"serving", "ended"}
    BY DEF SnapshotInv
  <2>4. QED
    BY <1>2, <2>1, <2>2, <2>3, FilterKept DEF Registered
<1>4. ASSUME NEW s \in Socket, HangUp(s) \/ EndpointEnds(s) \/ EndpointFails(s) PROVE FilterInv'
  <2>1. UNCHANGED <<filter, inbox, todo>> /\ \A t \in Socket : open'[t] => open[t]
    BY <1>4 DEF HangUp, EndpointEnds, EndpointFails, jobVars, SocketInv
  <2>2. active' = active \/ active' = [active EXCEPT ![IdOf[s]] = Nobody]
    BY <1>4 DEF HangUp, EndpointEnds, EndpointFails, Unregister
  <2>3. \A t \in Socket : active'[IdOf[t]] = t => Registered(t)
    BY <2>2, ClientAssumption DEF SocketInv, Registered
  <2>4. QED
    BY <1>2, <2>1, <2>3, FilterKept
<1>5. ASSUME NEW s \in Socket, Register(s) PROVE FilterInv'
  <2>1. /\ active' = [active EXCEPT ![IdOf[s]] = s] /\ filter' = filter /\ UNCHANGED <<open, todo>>
        /\ inbox' = IF open[s] THEN [inbox EXCEPT ![s] = Append(@, FilterFrame(filter[s]))] ELSE inbox
    BY <1>5 DEF Register, Send, jobVars
  <2>2. filter[s] \in Filter /\ filter' = [filter EXCEPT ![s] = filter[s]]
    BY <2>1 DEF SocketInv
  <2>3. \A t \in Socket : t # s /\ active'[IdOf[t]] = t => Registered(t)
    BY <2>1, ClientAssumption DEF SocketInv, Registered
  <2>4. QED
    BY <1>1, <2>1, <2>2, <2>3, FilterTold
<1>6. ASSUME NEW s \in Socket, NEW change \in Change, UpdateFilter(s, change) PROVE FilterInv'
  <2> DEFINE sub == active[IdOf[s]]
  <2>1. UNCHANGED <<active, open, todo>>
    BY <1>6 DEF UpdateFilter, jobVars
  <2>2. CASE sub = Nobody
    <3>1. UNCHANGED <<filter, inbox>>
      BY <1>6, <2>2 DEF UpdateFilter
    <3>2. QED
      BY <1>2, <2>1, <3>1, FilterKept DEF Registered
  <2>3. CASE sub # Nobody
    <3>1. PICK t \in Socket : t = sub
      BY <2>3, ClientAssumption DEF SocketInv
    <3>2. PICK f \in Filter : f = Updated(filter[t], change)
      BY UpdatedIsFilter DEF SocketInv
    <3>3. filter' = [filter EXCEPT ![t] = f]
      BY <1>6, <2>3, <3>1, <3>2 DEF UpdateFilter
    <3>4. filter'[t] = f
      BY <3>3 DEF SocketInv
    <3>5. inbox' = IF open[t] THEN [inbox EXCEPT ![t] = Append(@, FilterFrame(f))] ELSE inbox
      BY <1>6, <2>3, <3>1, <3>4 DEF UpdateFilter, Send
    <3>6. QED
      BY <1>1, <2>1, <3>3, <3>5, FilterTold DEF Registered
  <2>4. QED
    BY <2>2, <2>3
<1>7. ASSUME NEW j \in Job, UNCHANGED <<active, filter, open, inbox>>, todo' = [todo EXCEPT ![j] = Snapshot]
      PROVE  FilterInv'
  <2>1. \A i \in Job : \A s \in todo'[i] : s \in todo[i] \/ Registered(s)
    BY <1>7, SnapshotServes DEF SnapshotInv
  <2>2. QED
    BY <1>2, <1>7, <2>1, FilterKept DEF Registered
<1>8. ASSUME NEW a \in ApiAlert, StartBroadcast(a) PROVE FilterInv'
  <2>1. a \in Job
    BY DEF Job
  <2>2. QED
    BY <1>7, <1>8, <2>1 DEF StartBroadcast, socketVars
<1>9. CASE TakeMessage
  <2>1. Listener \in Job
    BY DEF Job
  <2>2. QED
    BY <1>7, <1>9, <2>1 DEF TakeMessage, socketVars
<1>10. ASSUME NEW j \in Job, NEW s \in Socket, SkipClient(j, s) \/ SendFails(j, s) PROVE FilterInv'
  <2>1. UNCHANGED <<active, filter, open, inbox>> /\ todo' = [todo EXCEPT ![j] = @ \ {s}]
    BY <1>10 DEF SkipClient, SendFails, socketVars
  <2>2. \A i \in Job : todo'[i] \subseteq todo[i]
    BY <2>1 DEF SnapshotInv
  <2>3. QED
    BY <1>2, <2>1, <2>2, FilterKept DEF Registered
<1>11. ASSUME NEW j \in Job, NEW s \in Socket, SendAlert(j, s) PROVE FilterInv'
  <2>1. PICK a \in ApiAlert : a = AlertOf(j)
    BY <1>11, AlertSent DEF SendAlert, Served
  <2>2. /\ UNCHANGED <<active, filter, open>> /\ todo' = [todo EXCEPT ![j] = @ \ {s}]
        /\ s \in todo[j] /\ Passes(filter[s], a)
        /\ inbox' = IF open[s] THEN [inbox EXCEPT ![s] = Append(@, AlertFrame(a, j))] ELSE inbox
    BY <1>11, <2>1 DEF SendAlert, Send, Served, Matches
  <2>3. \A i \in Job : todo'[i] \subseteq todo[i]
    BY <2>2 DEF SnapshotInv
  <2>4. CASE ~open[s]
    BY <1>2, <2>2, <2>3, <2>4, FilterKept DEF Registered
  <2>5. CASE open[s]
    <3>1. AlertFrame(a, j) \in Frame
      BY DEF Frame
    <3>2. \A t \in Socket :
            inbox'[t] = IF t = s /\ open[s] THEN Append(inbox[t], AlertFrame(a, j)) ELSE inbox[t]
      BY <2>2, <3>1, SendKeepsFrames DEF SocketInv
    <3>3. inbox[s] \in Seq(Frame) /\ filter[s] \in Filter /\ Honoured(inbox[s]) /\ Told(inbox[s], filter[s])
      BY <2>2, <2>5 DEF SocketInv, FilterInv
    <3>4. Told(inbox'[s], filter[s]) /\ Honoured(inbox'[s])
      BY <2>2, <2>5, <3>2, <3>3, TellAlert
    <3>5. \A t \in Socket : Honoured(inbox'[t])
      BY <3>2, <3>4 DEF FilterInv
    <3>6. \A t \in Socket : Told(inbox[t], filter[t]) => Told(inbox'[t], filter'[t])
      BY <2>2, <3>2, <3>4
    <3>7. \A t \in Socket : Registered(t) /\ open[t] => Told(inbox'[t], filter'[t])
      BY <3>6 DEF FilterInv
    <3>8. \A i \in Job : \A t \in todo'[i] : open[t] => Told(inbox'[t], filter'[t])
      BY <1>2, <2>3, <3>6 DEF FilterInv
    <3>9. QED
      BY <2>2, <3>5, <3>7, <3>8 DEF FilterInv, Registered
  <2>6. QED
    BY <2>4, <2>5
<1>12. ASSUME NEW j \in Job, EndBroadcast(j) PROVE FilterInv'
  <2>1. /\ UNCHANGED <<filter, open, inbox, todo>>
        /\ \A c \in Client : active'[c] \in {Nobody, active[c]}
    BY <1>12 DEF EndBroadcast
  <2>2. \A t \in Socket : active'[IdOf[t]] = t => Registered(t)
    BY <2>1, ClientAssumption DEF Registered
  <2>3. QED
    BY <1>2, <2>1, <2>2, FilterKept
<1>13. ASSUME UNCHANGED <<active, filter, open, inbox, todo>> PROVE FilterInv'
  BY <1>2, <1>13, FilterKept DEF Registered
<1>14. ASSUME NEW a \in ApiAlert,
              CreateAlert(a) \/ Publish(a) \/ PublishFails(a) \/ CommitAlert(a) \/ CommitFails(a)
       PROVE  FilterInv'
  BY <1>13, <1>14 DEF CreateAlert, Publish, PublishFails, CommitAlert, CommitFails, socketVars
<1>15. CASE \/ Subscribe \/ ListenerBacksOff \/ RedisDrops
            \/ (\E a \in WorkerAlert : WorkerCommits(a)) \/ UNCHANGED vars
  BY <1>13, <1>15 DEF Subscribe, ListenerBacksOff, RedisDrops, WorkerCommits, vars, socketVars, jobVars
<1>16. QED
  BY StepCases, <1>3, <1>4, <1>5, <1>6, <1>8, <1>9, <1>10, <1>11, <1>12, <1>14, <1>15

-----------------------------------------------------------------------------
(* The theorems.                                                           *)

\* No connection, no frame, no message: the invariant holds when the process starts.
LEMMA InitInv == Init => IInv
<1> SUFFICES ASSUME Init PROVE IInv
  OBVIOUS
<1> USE DEF Init
<1>1. SocketInv
  BY ClientAssumption, FilterAssumption, AlertAssumption DEF SocketInv
<1>2. PlaceInv
  BY AlertAssumption DEF PlaceInv, Alert, Job
<1>3. SnapshotInv /\ CommitInv
  BY DEF SnapshotInv, CommitInv
<1>4. Listener \in Job /\ jpc[Listener] # "sending"
  BY DEF Job
<1>5. <<>> \in Seq(ApiAlert) /\ DOMAIN <<>> = {}
  OBVIOUS
<1>6. RedisInv
  BY <1>4, <1>5 DEF RedisInv, Distinct
<1>7. FilterInv
  BY <1>5, ClientAssumption DEF FilterInv, Registered, Honoured
<1>8. OnceInv
  BY <1>5 DEF OnceInv, NoAlertTwice
<1>9. QED
  BY <1>1, <1>2, <1>3, <1>6, <1>7, <1>8 DEF IInv

\* The invariant is inductive.
LEMMA Invariance == Spec => []IInv
<1>1. IInv /\ [Next]_vars => IInv'
  BY SocketStep, PlaceStep, SnapshotStep, RedisStep, CommitStep, FilterStep, OnceStep DEF IInv
<1>2. QED
  BY InitInv, <1>1, PTL DEF Spec

\* The type invariant of a process with any number of connections and alerts.
THEOREM TypesCorrect == Spec => []TypeOK
<1>1. IInv => TypeOK
  <2> SUFFICES ASSUME IInv PROVE TypeOK
    OBVIOUS
  <2>1. ASSUME NEW s \in Socket, NEW i \in DOMAIN inbox[s]
        PROVE  \/ inbox[s][i].kind = "filter" /\ inbox[s][i].filter \in Filter
               \/ \E a \in ApiAlert, j \in Job : inbox[s][i] = AlertFrame(a, j)
    <3>1. inbox[s][i] \in Frame
      BY DEF IInv, SocketInv
    <3>2. QED
      BY <3>1 DEF Frame, FilterFrame
  <2>2. \A a \in ApiAlert : jpc[a] \in {"idle", "publish", "broadcast", "sending",
                                        "commit", "committed", "aborted"}
    BY DEF IInv, PlaceInv, Job
  <2>3. QED
    BY <2>1, <2>2 DEF IInv, SocketInv, PlaceInv, SnapshotInv, RedisInv, CommitInv, TypeOK
<1>2. QED
  BY <1>1, Invariance, PTL

\* Once told that its filter is in force, a dashboard gets no alert the filter
\* turns down, whatever broadcasts had begun, connections been replaced and
\* updates been sent meanwhile (FilterHonoured): websocket.py consults the
\* filter as its loop reaches the connection and not when it takes the snapshot.
THEOREM FiltersHonoured == Spec => []FilterHonoured
<1>1. IInv => FilterHonoured
  <2> SUFFICES ASSUME IInv, NEW s \in Socket, NEW i \in AlertsIn(s)
               PROVE  \E k \in 1..(i - 1) :
                        /\ inbox[s][k].kind = "filter"
                        /\ \A m \in (k + 1)..(i - 1) : inbox[s][m].kind # "filter"
                        /\ LET f == inbox[s][k].filter
                           IN  /\ Severity[inbox[s][i].alert] >= f.level
                               /\ inbox[s][i].alert \in f.behaviors
                               /\ ~f.tactics
    BY DEF FilterHonoured
  <2>1. i \in DOMAIN inbox[s] /\ inbox[s][i].kind = "alert" /\ Honoured(inbox[s])
    BY DEF AlertsIn, IInv, FilterInv
  <2>2. PICK k \in 1..(i - 1) : FilterAt(inbox[s], k, i) /\ Passes(inbox[s][k].filter, inbox[s][i].alert)
    BY <2>1 DEF Honoured
  <2>3. QED
    BY <2>2 DEF FilterAt, Passes
<1>2. QED
  BY <1>1, Invariance, PTL

\* A dashboard gets an alert at most once from the request that creates it
\* and at most once from the listener, however often Redis drops the listener
\* and dashboards come and go (OncePerPath): publish_event before the commit,
\* and the listener that reads the process's own messages.
THEOREM AlertsComeOncePerPath == Spec => []OncePerPath
<1>1. IInv => OncePerPath
  BY DEF IInv, OnceInv, NoAlertTwice, OncePerPath, AlertsIn
<1>2. QED
  BY <1>1, Invariance, PTL

\* With client_ids of their own, a connection that is up and served stays the
\* registered one: no other connection's end, and no failed send, drops it.
LEMMA ListedStep ==
  OwnIds /\ SocketInv /\ SnapshotInv /\ ListedInv /\ [Next]_vars => ListedInv'
<1> SUFFICES ASSUME OwnIds, SocketInv, SnapshotInv, ListedInv, [Next]_vars,
                    NEW s \in Socket, spc'[s] = "serving" /\ open'[s]
             PROVE  active'[IdOf[s]] = s
  BY DEF ListedInv, Registered
<1>1. \A t \in Socket : t # s => IdOf[t] # IdOf[s]
  BY DEF OwnIds
<1>2. IdOf[s] \in Client /\ (spc[s] = "serving" /\ open[s] => active[IdOf[s]] = s)
  BY ClientAssumption DEF ListedInv, Registered
<1>3. ASSUME NEW t \in Socket,
             Dial(t) \/ HangUp(t) \/ EndpointEnds(t) \/ EndpointFails(t) \/ Register(t)
      PROVE  active'[IdOf[s]] = s
  <2>1. CASE Dial(t) \/ HangUp(t)
    <3>1. active' = active /\ spc[s] = "serving" /\ open[s]
      BY <2>1 DEF Dial, HangUp, SocketInv
    <3>2. QED
      BY <1>2, <3>1
  <2>2. CASE EndpointEnds(t) \/ EndpointFails(t)
    <3>1. t # s /\ spc[s] = "serving" /\ open[s]
      BY <2>2 DEF EndpointEnds, EndpointFails, SocketInv
    <3>2. active' = [active EXCEPT ![IdOf[t]] = Nobody]
      BY <2>2 DEF EndpointEnds, EndpointFails, Unregister
    <3>3. QED
      BY <1>1, <1>2, <3>1, <3>2 DEF SocketInv
  <2>3. CASE Register(t)
    <3>1. active' = [active EXCEPT ![IdOf[t]] = t] /\ open' = open
          /\ (t # s => spc'[s] = spc[s])
      BY <2>3 DEF Register, SocketInv
    <3>2. QED
      BY <1>1, <1>2, <3>1 DEF SocketInv
  <2>4. QED
    BY <1>3, <2>1, <2>2, <2>3
<1>4. ASSUME NEW j \in Job, EndBroadcast(j) PROVE active'[IdOf[s]] = s
  <2>1. /\ active' = [c \in Client |-> IF c \in dead[j] THEN Nobody ELSE active[c]]
        /\ UNCHANGED <<spc, open>>
    BY <1>4 DEF EndBroadcast
  <2>2. IdOf[s] \notin dead[j]
    BY <1>1, <2>1 DEF SnapshotInv
  <2>3. QED
    BY <1>2, <2>1, <2>2
<1>5. ASSUME UNCHANGED <<active, spc, open>> PROVE active'[IdOf[s]] = s
  BY <1>2, <1>5
<1>6. ASSUME NEW t \in Socket, NEW change \in Change, UpdateFilter(t, change)
      PROVE  UNCHANGED <<active, spc, open>>
  BY <1>6 DEF UpdateFilter
<1>7. ASSUME NEW a \in ApiAlert,
             \/ CreateAlert(a) \/ Publish(a) \/ PublishFails(a) \/ StartBroadcast(a)
             \/ CommitAlert(a) \/ CommitFails(a)
      PROVE  UNCHANGED <<active, spc, open>>
  BY <1>7 DEF CreateAlert, Publish, PublishFails, StartBroadcast, CommitAlert, CommitFails,
              socketVars
<1>8. ASSUME NEW j \in Job, NEW t \in Socket, SkipClient(j, t) \/ SendAlert(j, t) \/ SendFails(j, t)
      PROVE  UNCHANGED <<active, spc, open>>
  BY <1>8 DEF SkipClient, SendAlert, SendFails, socketVars
<1>9. ASSUME \/ Subscribe \/ ListenerBacksOff \/ TakeMessage \/ RedisDrops
             \/ (\E a \in WorkerAlert : WorkerCommits(a)) \/ UNCHANGED vars
      PROVE  UNCHANGED <<active, spc, open>>
  BY <1>9 DEF Subscribe, ListenerBacksOff, TakeMessage, RedisDrops, WorkerCommits, vars, socketVars
<1>10. QED
  BY StepCases, <1>3, <1>4, <1>5, <1>6, <1>7, <1>8, <1>9

\* When dashboards have client_ids of their own, whoever is served is listed,
\* and who has ended is not (ServedIsListed).  The hypothesis is needed: a run
\* shows that a dashboard which reconnects under its id is dropped.
THEOREM OwnIdsAreListed == OwnIds => (Spec => []ServedIsListed)
<1> SUFFICES ASSUME OwnIds PROVE Spec => []ServedIsListed
  OBVIOUS
<1>1. Init => ListedInv
  BY DEF Init, ListedInv
<1>2. IInv /\ ListedInv /\ [Next]_vars => ListedInv'
  BY ListedStep DEF IInv
<1>3. IInv /\ ListedInv => ServedIsListed
  BY ClientAssumption DEF IInv, SocketInv, ListedInv, Registered, ServedIsListed
<1>4. QED
  BY <1>1, <1>2, <1>3, Invariance, PTL DEF Spec
=============================================================================
