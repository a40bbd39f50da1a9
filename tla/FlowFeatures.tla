---------------------------- MODULE FlowFeatures ----------------------------
(***************************************************************************)
(* The verdicts UnidirectionalFlowWindow.extract_features gives on a       *)
(* window of packets (packet_extractor.py), as functions of the window.    *)
(*                                                                         *)
(* A packet has ts, flags and ttl, and a window is a sequence of packets   *)
(* in the order they were added.  Times are integers, one Tick apart:      *)
(* 100 ms.                                                                 *)
(* Left out, since nothing below depends on them: the distribution of      *)
(* packet sizes, payload entropy, and flags computed from ports alone.     *)
(***************************************************************************)
EXTENDS Integers, Sequences, FiniteSets, SequencesExt, FiniteSetsExt

TickMs     == 100
BASE_TTLS  == {32, 64, 128, 255}
BinEdgesMs == {0, 1, 5, 10, 25, 50, 100, 250, 500, 1000, 2000, 3000, 5000,
               10000, 30000, 60000}

\* Fault: > where the code has >=.
BeaconMinPacketsExceeded == 7

BeaconMinPackets == 6

SumOver(s) ==
  LET sum[n \in 0..Len(s)] == IF n = 0 THEN 0 ELSE sum[n - 1] + s[n]
  IN  sum[Len(s)]

Carrying(w, flag) == {i \in DOMAIN w : flag \in w[i].flags}

-----------------------------------------------------------------------------
(* Timing.                                                                 *)

\* iats_ms: the inter-arrival times, with negative ones cut off at zero.
Iats(w) == [i \in 1..(Len(w) - 1) |-> Max({0, w[i + 1].ts - w[i].ts})]

IatBin(iat) == Max({edge \in BinEdgesMs : edge <= iat * TickMs})

\* calculate_iat_shannon_entropy(iats) < 1.35.  The greatest entropy of times
\* in two bins is 1, and the least of up to five times in three bins is 1.37
\* bits (3, 1, 1).  Of more times in more bins the comparison is left open.
EntropyVerdicts(iats) ==
  LET bins == Cardinality({IatBin(iats[i]) : i \in DOMAIN iats})
  IN  IF bins <= 2 THEN {TRUE} ELSE IF Len(iats) <= 5 THEN {FALSE} ELSE BOOLEAN

\* iat_std / iat_mean < 0.25, with the sample variance, in integers.
LowJitter(iats) ==
  LET n == Len(iats)
      sum == SumOver(iats)
      squares == SumOver([i \in DOMAIN iats |-> iats[i] * iats[i]])
  IN  sum > 0 /\ 16 * n * (n * squares - sum * sum) < (n - 1) * sum * sum

\* The possible values of is_c2_beacon.
BeaconVerdicts(w) ==
  {Len(w) >= BeaconMinPackets /\ low /\ LowJitter(Iats(w)) : low \in EntropyVerdicts(Iats(w))}

\* duration_ms: from the packet added first to the one added last.
Duration(w) == IF Len(w) <= 1 THEN 0 ELSE Last(w).ts - w[1].ts

-----------------------------------------------------------------------------
(* One-sided TCP state.  A TCP packet carries a set of flags.              *)

\* Fault: the acknowledgements are not looked at.
FinSeen(w) == Carrying(w, "FIN") # {}

SynWithoutAck(w) == Carrying(w, "SYN") # {} /\ Carrying(w, "ACK") = {}
OrphanAck(w)     == Carrying(w, "SYN") = {} /\ Carrying(w, "ACK") = DOMAIN w
RstFlood(w)      == Cardinality(Carrying(w, "RST")) >= 3
FinProbe(w)      == Carrying(w, "FIN") # {} /\ Carrying(w, "ACK") = {}

\* A packet with no flag at all, or with FIN, PSH and URG.
NullOrXmas(w) ==
  \E i \in DOMAIN w : w[i].flags = {} \/ {"FIN", "PSH", "URG"} \subseteq w[i].flags

TcpMarkers(w) ==
  {m \in {"syn_without_ack_return", "orphan_ack_stream", "rst_flood",
          "fin_probe", "null_or_xmas_flags"} :
     \/ m = "syn_without_ack_return" /\ SynWithoutAck(w)
     \/ m = "orphan_ack_stream" /\ OrphanAck(w)
     \/ m = "rst_flood" /\ RstFlood(w)
     \/ m = "fin_probe" /\ FinProbe(w)
     \/ m = "null_or_xmas_flags" /\ NullOrXmas(w)}

-----------------------------------------------------------------------------
(* TTL fingerprint.                                                        *)

\* deduce_initial_ttl, of a TTL in 0..255.
InitialTtl(ttl) == Min({base \in BASE_TTLS : ttl <= base})

\* Several TTLs, of more than one initial TTL or with a population variance above 4.
TtlSpoofed(w) ==
  LET ttls == [i \in DOMAIN w |-> w[i].ttl]
      n == Len(w)
      squares == SumOver([i \in DOMAIN w |-> ttls[i] * ttls[i]])
  IN  /\ Cardinality({ttls[i] : i \in DOMAIN w}) > 1
      /\ \/ Cardinality({InitialTtl(ttls[i]) : i \in DOMAIN w}) > 1
         \/ n * squares - SumOver(ttls) * SumOver(ttls) > 4 * n * n

-----------------------------------------------------------------------------
(* Traffic volume.  The tracker weighs the rates of all windows measured   *)
(* so far into a mean, which lies between the lowest and the highest.  The *)
(* packets of a window are all of one size, given in bytes.                *)

\* Fault: the warm-up of another tracker.
ShorterWarmUp == 3

MinSamples == 5

\* pps and bps as fractions; a window is taken to last at least a thousandth
\* tick, so that a lone packet has the highest rate of all.
Rate(w, size) ==
  [pps  |-> Len(w) * 10, bps |-> Len(w) * size * 10,
   span |-> Max({1, (Last(w).ts - w[1].ts) * 1000})]

Exceeds(r, q) == \E unit \in {"pps", "bps"} : r[unit] * q.span > q[unit] * r.span

\* EWMATracker.update: the possible values of is_volume_anomaly for a window
\* of rate r after the rates in the sequence past.  A rate that exceeds none
\* of them is not above the mean; otherwise the verdict depends on the
\* weighted variance, which may still be zero, and is left open.
VolumeVerdicts(past, r) ==
  IF Len(past) + 1 < MinSamples \/ \A i \in DOMAIN past : ~Exceeds(r, past[i])
    THEN {FALSE}
    ELSE BOOLEAN
=============================================================================
