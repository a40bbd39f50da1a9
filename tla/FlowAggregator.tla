--------------------------- MODULE FlowAggregator ---------------------------
(***************************************************************************)
(* From a capture to stored flows: iter_pcap_packets decodes record after  *)
(* record, UnidirectionalFlowAggregator collects packets into windows of   *)
(* one 5-tuple and finalises a window when it is full, when its flow has   *)
(* been silent for too long, or at the end (pcap_service.py).  Two users:  *)
(* POST /flows/ingest/pcap stores all windows of an upload at once, and    *)
(* the replay script posts windows as they are finalised.                  *)
(*                                                                         *)
(* Every use has an aggregator of its own, so one is enough: its limits    *)
(* are those of the use.                                                   *)
(***************************************************************************)
EXTENDS FlowFeatures, TLC

CONSTANTS
  Flow,        \* 5-tuples
  Tcp,         \* those of protocol TCP
  Size,        \* Size[k]: bytes of a packet of flow k
  Header,      \* what a packet may carry: records [flags, ttl]
  Gap,         \* ticks from one record of the capture to the next; may be negative
  Start,       \* time of the capture's first record, less its gap
  Upload,      \* uses of an aggregator by the upload endpoint
  Replay,      \* uses by the replay script
  Record,      \* Record[u]: bound on the packets in captures of use u: <<flow, header, gap>>
  Timeout,     \* Timeout[u]: inactivity_timeout_s, in ticks
  MaxPackets,  \* MaxPackets[u]: max_packets_per_window
  MaxRecords,  \* bound on the records of a capture
  MaxLost      \* bound on the POSTs that do not reach the API

Source == Upload \cup Replay

ASSUME FlowAssumption == Tcp \subseteq Flow /\ Size \in [Flow -> Nat \ {0}]
ASSUME HeaderAssumption ==
  Header \subseteq [flags : SUBSET {"SYN", "ACK", "FIN", "RST", "PSH", "URG"}, ttl : 0..255]
ASSUME TimeAssumption == Gap \subseteq Int /\ Start \in Nat /\ Timeout \in [Source -> Nat]
ASSUME LimitAssumption ==
  MaxPackets \in [Source -> Nat \ {0}] /\ MaxRecords \in Nat /\ MaxLost \in Nat
ASSUME UseAssumption ==
  Upload \cap Replay = {} /\ Record \in [Source -> SUBSET (Flow \X Header \X Gap)]

VARIABLES
  source,     \* the use: who feeds the aggregator
  phase,      \* "submitted", "reading" the capture, "flushed" or "done"
  left,       \* records the capture still has
  clock,      \* timestamp of the record read last
  captured,   \* history: the decoded packets, with their flows
  flows,      \* self.flows: the open windows, in insertion order
  finalized,  \* the windows finalised, in order, with their features
  outcome,    \* HTTP status of the upload; 0 while there is none
  stored,     \* indexes of the finalised windows that became flows
  unreached   \* indexes of those whose POST did not reach the API

vars == <<source, phase, left, clock, captured, flows, finalized, outcome, stored,
          unreached>>

Init ==
  /\ source \in Source
  /\ phase = "submitted"
  /\ left \in 0..MaxRecords
  /\ clock = Start
  /\ captured = <<>> /\ flows = <<>> /\ finalized = <<>>
  /\ outcome = 0 /\ stored = {} /\ unreached = {}

-----------------------------------------------------------------------------
(* Finalising windows.                                                     *)

\* extract_features of an open window f, with the verdicts on its times and its volume.
Features(f, beacon, burst) ==
  [beacon  |-> beacon,
   markers |-> IF f.key \in Tcp THEN TcpMarkers(f.packets) ELSE {},
   spoofed |-> TtlSpoofed(f.packets),
   burst   |-> burst]

RateOf(f) == Rate(f.packets, Size[f.key])

\* The results of extracting the windows ws one after the other: they share
\* global_ewma, so each is measured against all that were finalised before.
Extractions(ws) ==
  LET rates == [i \in DOMAIN finalized |-> RateOf(finalized[i])]
               \o [i \in DOMAIN ws |-> RateOf(ws[i])]
      past(i) == SubSeq(rates, 1, Len(finalized) + i - 1)
      verdicts == {v \in [DOMAIN ws -> BOOLEAN \X BOOLEAN] :
                     \A i \in DOMAIN ws : /\ v[i][1] \in BeaconVerdicts(ws[i].packets)
                                          /\ v[i][2] \in VolumeVerdicts(past(i), RateOf(ws[i]))}
  IN  {[i \in DOMAIN ws |-> [key |-> ws[i].key, packets |-> ws[i].packets,
                             features |-> Features(ws[i], v[i][1], v[i][2])]] : v \in verdicts}

\* Fault: gt where the schema has ge.
ValidStrictly(f) == Duration(f.packets) > 0

\* FlowCreate and FlowIngest refuse a negative duration.
Valid(f) == Duration(f.packets) >= 0

\* The script POSTs the windows it is given and ignores every answer.
Posted(first, last) ==
  IF source \in Replay
    THEN \E lost \in SUBSET (first..last) :
           /\ Cardinality(unreached \cup lost) <= MaxLost
           /\ unreached' = unreached \cup lost
           /\ stored' = stored \cup {i \in (first..last) \ lost : Valid(finalized'[i])}
    ELSE UNCHANGED <<stored, unreached>>

-----------------------------------------------------------------------------
(* Reading the capture.                                                    *)

\* The open window of flow k: its place in flows, 0 if there is none.
PlaceOf(k) == SelectInSeq(flows, LAMBDA f : f.key = k)

\* Fault: the silence is measured from the window's first packet.
ExpiredSinceStart(f, p) == p.ts - f.packets[1].ts > Timeout[source]

\* The flow has been silent for longer than the timeout.
Expired(f, p) == p.ts - Last(f.packets).ts > Timeout[source]

\* Fault: > where the code has >=.
OverFull(w) == Len(w) > MaxPackets[source]

\* The window has its last packet.
Full(w) == Len(w) >= MaxPackets[source]

\* process_packet(pkt).
ProcessPacket(k, p) ==
  LET at    == PlaceOf(k)
      stale == at # 0 /\ Expired(flows[at], p)
      w     == IF at = 0 \/ stale THEN <<p>> ELSE Append(flows[at].packets, p)
      full  == Full(w)
      open  == [key |-> k, packets |-> w]
      out   == (IF stale THEN <<flows[at]>> ELSE <<>>) \o (IF full THEN <<open>> ELSE <<>>)
  IN  /\ flows' = CASE full /\ at # 0  -> RemoveAt(flows, at)
                    [] full /\ at = 0  -> flows
                    [] ~full /\ at # 0 -> ReplaceAt(flows, at, open)
                    [] ~full /\ at = 0 -> Append(flows, open)
      /\ \E done \in Extractions(out) : finalized' = finalized \o done
      /\ Posted(Len(finalized) + 1, Len(finalized) + Len(out))

\* dpkt's Reader accepts the capture.
OpenCapture ==
  /\ phase = "submitted"
  /\ phase' = "reading"
  /\ UNCHANGED <<source, left, clock, captured, flows, finalized, outcome, stored, unreached>>

\* Not a capture by its name (400), or the Reader refuses it (422); the
\* script ends with the Reader's exception.
RefuseCapture(status) ==
  /\ phase = "submitted"
  /\ phase' = "done"
  /\ outcome' = IF source \in Upload THEN status ELSE 0
  /\ UNCHANGED <<source, left, clock, captured, flows, finalized, stored, unreached>>

\* A record that decodes to a packet of flow k.  Its number is history.
ReadPacket(k, h, gap) ==
  /\ phase = "reading" /\ left > 0
  /\ left' = left - 1
  /\ clock' = clock + gap
  /\ LET p == [ts |-> clock', flags |-> h.flags, ttl |-> h.ttl, no |-> Len(captured) + 1]
     IN  /\ captured' = Append(captured, [key |-> k, packet |-> p])
         /\ ProcessPacket(k, p)
  /\ UNCHANGED <<source, phase, outcome>>

\* A frame that is not IP, or one dpkt cannot parse: the loop goes on.
SkipRecord ==
  /\ phase = "reading" /\ left > 0
  /\ left' = left - 1
  /\ UNCHANGED <<source, phase, clock, captured, flows, finalized, outcome, stored, unreached>>

\* The end of the capture: flush_all.
FlushAll ==
  /\ phase = "reading" /\ left = 0
  /\ phase' = IF source \in Upload THEN "flushed" ELSE "done"
  /\ \E done \in Extractions(flows) : finalized' = finalized \o done
  /\ flows' = <<>>
  /\ UNCHANGED <<source, left, clock, captured, outcome, stored, unreached>>

-----------------------------------------------------------------------------
(* The upload endpoint.                                                    *)

\* Nothing extracted (400); a FlowCreate that raises, outside any handler
\* (500); or one create_batch for all (201).
AnswerUpload ==
  /\ phase = "flushed"
  /\ phase' = "done"
  /\ outcome' = IF finalized = <<>> THEN 400
                ELSE IF \A i \in DOMAIN finalized : Valid(finalized[i]) THEN 201 ELSE 500
  /\ stored' = IF outcome' = 201 THEN DOMAIN finalized ELSE {}
  /\ UNCHANGED <<source, left, clock, captured, flows, finalized, unreached>>

Finished == phase = "done" /\ UNCHANGED vars

Next ==
  \/ OpenCapture
  \/ \E status \in {400, 422} : RefuseCapture(status)
  \/ \E r \in Record[source] : ReadPacket(r[1], r[2], r[3])
  \/ SkipRecord
  \/ FlushAll
  \/ AnswerUpload
  \/ Finished

Spec == Init /\ [][Next]_vars

-----------------------------------------------------------------------------
(* Properties.                                                             *)

Packet == [ts : Int, flags : SUBSET {"SYN", "ACK", "FIN", "RST", "PSH", "URG"}, ttl : 0..255,
           no : Nat \ {0}]
Window == [key : Flow, packets : Seq(Packet)]

\* The type invariant.  No window is empty, none is open under two places,
\* and an open one is not yet full.
TypeOK ==
  /\ source \in Source /\ phase \in {"submitted", "reading", "flushed", "done"}
  /\ left \in 0..MaxRecords /\ clock \in Int
  /\ \A i \in DOMAIN flows :
       /\ flows[i] \in Window /\ Len(flows[i].packets) \in 1..(MaxPackets[source] - 1)
       /\ \A j \in DOMAIN flows : flows[i].key = flows[j].key => i = j
  /\ \A i \in DOMAIN finalized : finalized[i].packets \in Seq(Packet) \ {<<>>}
  /\ outcome \in {0, 201, 400, 422, 500}
  /\ stored \subseteq DOMAIN finalized /\ unreached \subseteq DOMAIN finalized

Numbers(w) == {w[n].no : n \in DOMAIN w}

\* Places in windows after i with a window of the same flow, and the next one.
Later(i, windows) == {j \in DOMAIN windows : j > i /\ windows[j].key = windows[i].key}
NextOf(i, windows) ==
  {j \in Later(i, windows) : \A l \in (i + 1)..(j - 1) : windows[l].key # windows[i].key}

\* Every decoded packet is in exactly one window, one of its flow, and the
\* windows of a flow, finalised and open, hold its packets in the order of the
\* capture, however timeouts, full windows and the other flows' packets fall
\* in between.  They are cut where the limits say and nowhere else: no window
\* holds more than MaxPackets packets or a silence longer than the timeout, and
\* of two consecutive windows of a flow the first is full or the second begins
\* after such a silence.
WindowsPartitionFlows ==
  LET windows == finalized \o flows
      w(i)    == windows[i].packets
  IN  /\ \A c \in DOMAIN captured : \E i \in DOMAIN windows : c \in Numbers(w(i))
      /\ \A i \in DOMAIN windows : \A n \in DOMAIN w(i) :
           /\ w(i)[n].no \in DOMAIN captured
           /\ captured[w(i)[n].no] = [key |-> windows[i].key, packet |-> w(i)[n]]
      /\ \A i \in DOMAIN windows : \A j \in Later(i, windows) \cup {i} :
           \A n \in DOMAIN w(i), m \in DOMAIN w(j) : i < j \/ n < m => w(i)[n].no < w(j)[m].no
      /\ \A i \in DOMAIN windows :
           /\ Len(w(i)) <= MaxPackets[source]
           /\ \A n \in 1..(Len(w(i)) - 1) : w(i)[n + 1].ts - w(i)[n].ts <= Timeout[source]
           /\ \A j \in NextOf(i, windows) :
                Len(w(i)) = MaxPackets[source] \/ w(j)[1].ts - Last(w(i)).ts > Timeout[source]

\* What becomes a stored flow.  An upload is stored whole or not at all: a
\* 201 means that every decoded packet is in a stored flow, any other answer
\* that none is, and a capture in order of time is never turned down as
\* invalid.  Of a replayed capture the windows are stored that were full or
\* followed by more packets of their flow, whose POST arrived and was valid,
\* and no other: the end of every flow, and all of a short one, is flushed to
\* the summary that is printed and reaches no API.
StoredAsAnswered ==
  /\ source \in Upload =>
       /\ stored # {} => outcome = 201
       /\ outcome = 201 =>
            \A c \in DOMAIN captured : \E i \in stored : c \in Numbers(finalized[i].packets)
       /\ outcome = 500 => \E c \in 2..Len(captured) :
                             captured[c].packet.ts < captured[c - 1].packet.ts
  /\ source \in Replay /\ phase = "done" =>
       \A i \in DOMAIN finalized :
         LET closed == \/ Len(finalized[i].packets) = MaxPackets[source]
                       \/ Later(i, finalized) # {}
         IN  (i \in stored) <=> (closed /\ i \notin unreached /\ Valid(finalized[i]))

\* The baseline of a capture is shared by its flows, and windows are measured
\* against it in the order they are finalised: no window is called a burst
\* before MinSamples windows, of whatever flows, were measured, nor unless it
\* exceeds one of those in packets or bytes per second.  The lone packets of
\* a scan, all at the highest rate, are never bursts among their like.
BurstsExceedBaseline ==
  \A i \in DOMAIN finalized :
    finalized[i].features.burst =>
      /\ i >= 5
      /\ \E j \in 1..(i - 1) : Exceeds(RateOf(finalized[i]), RateOf(finalized[j]))
      /\ Len(finalized[i].packets) = 1 =>
           \E j \in 1..(i - 1) : \/ Len(finalized[j].packets) > 1
                                \/ Size[finalized[j].key] < Size[finalized[i].key]

\* The decoded packets of flow k, by their numbers.
PacketsOf(k) == {c \in DOMAIN captured : captured[c].key = k}

\* Each of them comes d after the one before it.
Periodic(k, d) ==
  \A c, e \in PacketsOf(k) :
    c < e /\ (c + 1)..(e - 1) \cap PacketsOf(k) = {} =>
      captured[e].packet.ts - captured[c].packet.ts = d

\* Where windows may hold six packets (all users keep the default of 500), a
\* flow of at least six, sent at one interval which is within the inactivity
\* timeout, is found to be a beacon once the capture has been read; and no
\* window whose packets all arrived at one time is one.
BeaconsFound ==
  /\ phase = "done" /\ MaxPackets[source] >= 6 =>
       \A k \in Flow, d \in Gap :
         Cardinality(PacketsOf(k)) >= 6 /\ d > 0 /\ d <= Timeout[source] /\ Periodic(k, d) =>
           \E i \in DOMAIN finalized : finalized[i].key = k /\ finalized[i].features.beacon
  /\ \A i \in DOMAIN finalized :
       LET w == finalized[i].packets
       IN  (\A n \in DOMAIN w : w[n].ts = w[1].ts) => ~finalized[i].features.beacon

\* Evidence is only missed where a cut separates it: when all packets of a
\* flow are in one window, a flow with both SYN and ACK has no one-sided
\* marker and is no FIN probe, packets from different initial TTLs (on two
\* sides of 32, 64 or 128) are found spoofed, and an unchanging TTL is not.
UncutFlowsJudgedWhole ==
  phase = "done" =>
    \A i \in DOMAIN finalized :
      LET f == finalized[i]
          packets == {captured[c].packet : c \in PacketsOf(f.key)}
      IN  (\A j \in DOMAIN finalized : finalized[j].key = f.key => j = i) =>
            /\ (\E p, q \in packets : "SYN" \in p.flags /\ "ACK" \in q.flags) =>
                 f.features.markers \cap {"syn_without_ack_return", "orphan_ack_stream",
                                         "fin_probe"} = {}
            /\ (\E p, q \in packets, base \in {32, 64, 128} : p.ttl <= base /\ q.ttl > base) =>
                 f.features.spoofed
            /\ (\A p, q \in packets : p.ttl = q.ttl) => ~f.features.spoofed
=============================================================================
