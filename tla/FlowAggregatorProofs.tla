------------------------ MODULE FlowAggregatorProofs ------------------------
(***************************************************************************)
(* For every set of flows, headers and gaps, every capture, timeout and     *)
(* window limit: the windows divide the packets of the capture, are judged  *)
(* as wholes and are stored as the answer says (Inv: WindowsInv, what the   *)
(* finalised and the open windows hold and where they were cut; PhaseInv;   *)
(* StoredInv, which of them are flows).                                     *)
(***************************************************************************)
EXTENDS FlowAggregator, SequenceTheorems, FunctionTheorems, FiniteSetTheorems,
        WellFoundedInduction, TLAPS

-----------------------------------------------------------------------------
(* Operators: sums, times, TTLs, markers and rates of a window.            *)

\* A set of natural numbers with a member has a least one.
LEMMA Least ==
  ASSUME NEW S, S \subseteq Nat, S # {}
  PROVE  \E x \in S : \A y \in S : x <= y
<1>1. PICK x \in S : \A y \in S : ~(<<y, x>> \in OpToRel(<, Nat))
  BY NatLessThanWellFounded, WFMin
<1>2. ASSUME NEW y \in S PROVE x <= y
  <2>1. <<y, x>> \in Nat \X Nat /\ x \in Nat /\ y \in Nat
    OBVIOUS
  <2>2. ~(y < x)
    BY <1>1, <2>1 DEF OpToRel
  <2>3. QED
    BY <2>1, <2>2
<1>3. QED
  BY <1>2

\* The recursion that SumOver is defined by, for a constant sequence.
LEMMA SumOfConstant ==
  ASSUME NEW n \in Nat, NEW c \in Int, NEW s, DOMAIN s = 1..n, Len(s) = n,
         \A i \in 1..n : s[i] = c
  PROVE  SumOver(s) = n * c
<1> DEFINE Sums(f) == f = [i \in 0..n |-> IF i = 0 THEN 0 ELSE f[i - 1] + s[i]]
           g == [i \in 0..n |-> i * c]
           sum == CHOOSE f : Sums(f)
<1>1. Sums(g)
  <2>1. \A i \in 0..n : g[i] = IF i = 0 THEN 0 ELSE g[i - 1] + s[i]
    <3> SUFFICES ASSUME NEW i \in 0..n, i # 0 PROVE g[i] = g[i - 1] + s[i]
      OBVIOUS
    <3>1. i - 1 \in 0..n /\ g[i] = i * c /\ g[i - 1] = (i - 1) * c /\ s[i] = c
      OBVIOUS
    <3>2. QED
      BY <3>1
  <2>2. QED
    BY <2>1
<1>2. Sums(sum)
  BY <1>1
<1>3. \A i \in 0..n : sum[i] = IF i = 0 THEN 0 ELSE sum[i - 1] + s[i]
  BY <1>2
<1>4. SumOver(s) = sum[n]
  BY DEF SumOver
<1>5. \A i \in 0..n : sum[i] = i * c
  <2> DEFINE Off == {i \in 0..n : sum[i] # i * c}
  <2>1. SUFFICES ASSUME Off # {} PROVE FALSE
    OBVIOUS
  <2>2. PICK i \in Off : \A j \in Off : i <= j
    <3>1. Off \subseteq Nat
      OBVIOUS
    <3>2. QED
      BY ONLY <2>1, <3>1, Least
  <2>3. i # 0
    BY <1>3, <2>2
  <2>4. i - 1 \in 0..n /\ i - 1 \notin Off
    BY <2>2, <2>3
  <2>5. sum[i] = (i - 1) * c + c
    <3>1. i \in 0..n /\ i - 1 \in 0..n /\ i \in 1..n
      BY <2>3, <2>4
    <3>2. sum[i] = sum[i - 1] + s[i]
      BY <1>3, <2>3, <3>1
    <3>3. sum[i - 1] = (i - 1) * c
      BY <2>4
    <3>4. QED
      BY <3>1, <3>2, <3>3
  <2>6. QED
    BY <2>2, <2>5
<1>6. QED
  BY <1>4, <1>5

\* A function on 1..n is a sequence of length n.
LEMMA IsASeqLen ==
  ASSUME NEW n \in Nat, NEW s, s = [i \in 1..n |-> s[i]]
  PROVE  Len(s) = n
BY SMT

\* The times between the packets of a window.
LEMMA IatsOf ==
  ASSUME NEW w \in Seq(Packet), Len(w) >= 1, NEW d \in Nat,
         \A n \in 1..(Len(w) - 1) : w[n + 1].ts - w[n].ts = d
  PROVE  /\ Len(Iats(w)) = Len(w) - 1 /\ DOMAIN Iats(w) = 1..(Len(w) - 1)
         /\ \A n \in 1..(Len(w) - 1) : Iats(w)[n] = d
<1> DEFINE m == Len(w) - 1
<1>1. m \in Nat
  BY LenProperties
<1>2. Iats(w) = [n \in 1..m |-> Max({0, w[n + 1].ts - w[n].ts})]
  BY DEF Iats
<1>3. Max({0, d}) = d
  BY DEF Max
<1>4. \A n \in 1..m : Iats(w)[n] = d
  BY <1>2, <1>3
<1>5. DOMAIN Iats(w) = 1..m
  BY <1>2
<1>6. Len(Iats(w)) = m
  <2> HIDE DEF m
  <2>1. QED
    BY <1>1, <1>2, IsASeqLen
<1>7. QED
  BY <1>4, <1>5, <1>6

\* A window of at least six packets at one interval is a beacon.
LEMMA SteadyIsBeacon ==
  ASSUME NEW w \in Seq(Packet), Len(w) >= 6, NEW d \in Nat \ {0},
         \A n \in 1..(Len(w) - 1) : w[n + 1].ts - w[n].ts = d
  PROVE  \A b \in BeaconVerdicts(w) : b
<1> DEFINE it == Iats(w)
           m == Len(w) - 1
           squares == [i \in DOMAIN it |-> it[i] * it[i]]
<1>1. m \in Nat /\ m >= 5
  BY LenProperties
<1>2. Len(it) = m /\ DOMAIN it = 1..m /\ \A n \in 1..m : it[n] = d
  BY IatsOf
<1>3. SumOver(it) = m * d
  <2> HIDE DEF m, it
  <2>1. QED
    BY <1>1, <1>2, SumOfConstant
<1>4. SumOver(squares) = m * (d * d)
  <2>1. d * d \in Int /\ squares = [i \in 1..m |-> d * d]
    BY <1>2
  <2>2. DOMAIN squares = 1..m /\ \A n \in 1..m : squares[n] = d * d
    BY <2>1
  <2>3. Len(squares) = m
    <3> HIDE DEF m
    <3>1. QED
      BY <1>1, <2>1, IsASeqLen
  <2>4. QED
    <3> HIDE DEF m, squares
    <3>1. QED
      BY <1>1, <2>1, <2>2, <2>3, SumOfConstant
<1>5. LowJitter(it)
  <2> DEFINE sum == m * d
  <2>1. sum \in Nat /\ sum > 0
    BY <1>1
  <2>2. m * (m * (d * d)) - sum * sum = 0
    BY <1>1
  <2>3. (m - 1) * sum * sum > 0
    <3> HIDE DEF m, sum
    <3>1. (m - 1) * sum > 0 /\ (m - 1) * sum \in Nat
      BY <1>1, <2>1
    <3>2. QED
      BY <2>1, <3>1
  <2>4. 16 * m * (m * (m * (d * d)) - sum * sum) = 0
    BY <1>1, <2>2
  <2>5. QED
    BY <1>2, <1>3, <1>4, <2>1, <2>3, <2>4 DEF LowJitter
<1>6. EntropyVerdicts(it) = {TRUE}
  <2>1. 1 \in 1..m
    BY <1>1
  <2>2. {IatBin(it[i]) : i \in DOMAIN it} = {IatBin(d)}
    BY <1>2, <2>1
  <2>3. Cardinality({IatBin(d)}) = 1
    BY FS_Singleton
  <2> HIDE DEF it
  <2>4. Cardinality({IatBin(it[i]) : i \in DOMAIN it}) <= 2
    <3>1. Cardinality({IatBin(it[i]) : i \in DOMAIN it}) = 1
      BY <2>2, <2>3, Zenon
    <3>2. QED
      BY <3>1
  <2>5. QED
    BY <2>4, Zenon DEF EntropyVerdicts
<1>7. QED
  BY <1>5, <1>6 DEF BeaconVerdicts, BeaconMinPackets

\* A window whose packets all arrived at one time is none.
LEMMA BurstIsNoBeacon ==
  ASSUME NEW w \in Seq(Packet), Len(w) >= 1, \A n \in DOMAIN w : w[n].ts = w[1].ts
  PROVE  \A b \in BeaconVerdicts(w) : ~b
<1> DEFINE m == Len(w) - 1
<1>1. m \in Nat /\ DOMAIN w = 1..(m + 1)
  BY LenProperties
<1>2. \A n \in 1..m : w[n + 1].ts - w[n].ts = 0
  <2> TAKE n \in 1..m
  <2>1. w[n] \in Packet /\ w[n + 1] \in Packet /\ n \in DOMAIN w /\ n + 1 \in DOMAIN w
    BY <1>1, ElementOfSeq
  <2>2. QED
    BY <2>1 DEF Packet
<1>3. Len(Iats(w)) = m /\ DOMAIN Iats(w) = 1..m /\ \A n \in 1..m : Iats(w)[n] = 0
  BY <1>2, IatsOf
<1>4. SumOver(Iats(w)) = 0
  <2> HIDE DEF m
  <2>1. SumOver(Iats(w)) = m * 0
    BY <1>1, <1>3, SumOfConstant
  <2>2. QED
    BY <1>1, <2>1
<1>5. ~LowJitter(Iats(w))
  BY <1>4 DEF LowJitter
<1>6. QED
  BY <1>5 DEF BeaconVerdicts

\* The initial TTL of an observed one is the least that is no less.
LEMMA InitialTtlOf ==
  ASSUME NEW ttl \in 0..255
  PROVE  /\ InitialTtl(ttl) \in BASE_TTLS /\ ttl <= InitialTtl(ttl)
         /\ \A base \in BASE_TTLS : ttl <= base => InitialTtl(ttl) <= base
BY DEF InitialTtl, Min, BASE_TTLS

\* TTLs on two sides of one of them differ in it.
LEMMA TwoInitialTtls ==
  ASSUME NEW t \in 0..255, NEW u \in 0..255, NEW base \in BASE_TTLS, t <= base, base < u
  PROVE  t # u /\ InitialTtl(t) # InitialTtl(u)
<1> DEFINE a == InitialTtl(t)
           b == InitialTtl(u)
<1>1. a \in BASE_TTLS /\ b \in BASE_TTLS /\ u <= b /\ \A x \in BASE_TTLS : t <= x => a <= x
  BY InitialTtlOf
<1> HIDE DEF a, b
<1>2. a <= base
  BY <1>1
<1>3. a # b
  BY <1>1, <1>2 DEF BASE_TTLS
<1>4. t # u
  BY DEF BASE_TTLS
<1>5. QED
  BY <1>3, <1>4 DEF a, b

\* Two values are two elements.
LEMMA TwoElements ==
  ASSUME NEW S, IsFiniteSet(S), NEW x \in S, NEW y \in S, x # y
  PROVE  Cardinality(S) > 1
<1>1. {x, y} \subseteq S /\ IsFiniteSet({x, y})
  BY FS_Subset
<1>2. Cardinality({x, y}) <= Cardinality(S)
  BY <1>1, FS_Subset
<1>3. Cardinality({x, y}) = 2
  <2>1. IsFiniteSet({x}) /\ Cardinality({x}) = 1
    BY FS_Singleton
  <2>2. {x, y} = {x} \cup {y} /\ y \notin {x}
    OBVIOUS
  <2>3. QED
    BY <2>1, <2>2, FS_AddElement
<1>4. Cardinality(S) \in Nat
  BY FS_CardinalityType
<1>5. QED
  BY <1>2, <1>3, <1>4

\* The values of a function on 1..n are at most n.
LEMMA FiniteImage ==
  ASSUME NEW n \in Nat, NEW f, NEW S, S = {f[i] : i \in 1..n}
  PROVE  IsFiniteSet(S) /\ Cardinality(S) \in Nat /\ Cardinality(S) <= n
<1> DEFINE g == [i \in 1..n |-> f[i]]
<1>1. g \in Surjection(1..n, S)
  BY DEF Surjection
<1>2. IsFiniteSet(1..n) /\ Cardinality(1..n) = n
  BY FS_Interval
<1>3. IsFiniteSet(S) /\ Cardinality(S) <= n
  <2> HIDE DEF g
  <2>1. QED
    BY <1>1, <1>2, FS_Surjection
<1>4. QED
  BY <1>3, FS_CardinalityType

\* Packets with different initial TTLs are spoofed.
LEMMA SpoofedTtls ==
  ASSUME NEW w, NEW len \in Nat, len = Len(w), DOMAIN w = 1..len,
         NEW n \in 1..len, NEW m \in 1..len, w[n].ttl # w[m].ttl,
         InitialTtl(w[n].ttl) # InitialTtl(w[m].ttl)
  PROVE  TtlSpoofed(w)
<1> DEFINE ttls == [i \in DOMAIN w |-> w[i].ttl]
           initial == [i \in DOMAIN w |-> InitialTtl(ttls[i])]
           T == {ttls[i] : i \in DOMAIN w}
           I == {InitialTtl(ttls[i]) : i \in DOMAIN w}
<1>1. T = {ttls[i] : i \in 1..len}
  BY Zenon
<1>2. I = {initial[i] : i \in 1..len}
  BY Zenon
<1>3. IsFiniteSet(T)
  <2> HIDE DEF ttls, T
  <2>1. QED
    BY ONLY len \in Nat, <1>1, FiniteImage
<1>4. IsFiniteSet(I)
  <2> HIDE DEF initial, I
  <2>1. QED
    BY ONLY len \in Nat, <1>2, FiniteImage
<1>5. w[n].ttl \in T /\ w[m].ttl \in T
  BY Zenon
<1>6. InitialTtl(w[n].ttl) \in I /\ InitialTtl(w[m].ttl) \in I
  BY Zenon
<1>7. Cardinality(T) > 1 /\ Cardinality(I) > 1
  <2> HIDE DEF T, I
  <2>1. Cardinality(T) > 1
    BY <1>3, <1>5, TwoElements, Zenon
  <2>2. Cardinality(I) > 1
    BY <1>4, <1>6, TwoElements, Zenon
  <2>3. QED
    BY <2>1, <2>2
<1>8. QED
  BY ONLY <1>7, Zenon DEF TtlSpoofed

\* An unchanging TTL is not.
LEMMA SteadyTtl ==
  ASSUME NEW w \in Seq(Packet), \A n, m \in DOMAIN w : w[n].ttl = w[m].ttl
  PROVE  ~TtlSpoofed(w)
<1> DEFINE ttls == [i \in DOMAIN w |-> w[i].ttl]
           T == {ttls[i] : i \in DOMAIN w}
<1>1. Cardinality(T) = 0 \/ Cardinality(T) = 1
  <2>1. CASE DOMAIN w = {}
    <3>1. T = {}
      BY <2>1
    <3> HIDE DEF T
    <3>2. QED
      BY ONLY <3>1, FS_EmptySet, Zenon
  <2>2. CASE DOMAIN w # {}
    <3>1. PICK n \in DOMAIN w : TRUE
      BY <2>2
    <3>2. T = {w[n].ttl}
      BY <3>1
    <3> HIDE DEF T
    <3>3. QED
      BY ONLY <3>2, FS_Singleton, Zenon
  <2>3. QED
    BY <2>1, <2>2
<1>2. ~(Cardinality(T) > 1)
  <2> HIDE DEF T
  <2>1. QED
    BY <1>1
<1>3. QED
  BY ONLY <1>2, Zenon DEF TtlSpoofed

\* A window with SYN and ACK has none of the three markers.
LEMMA BothSides ==
  ASSUME NEW w, NEW n \in DOMAIN w, NEW m \in DOMAIN w, "SYN" \in w[n].flags, "ACK" \in w[m].flags
  PROVE  TcpMarkers(w) \cap {"syn_without_ack_return", "orphan_ack_stream", "fin_probe"} = {}
<1>1. Carrying(w, "SYN") # {} /\ Carrying(w, "ACK") # {}
  BY DEF Carrying
<1>2. ~SynWithoutAck(w) /\ ~OrphanAck(w) /\ ~FinProbe(w)
  BY <1>1 DEF SynWithoutAck, OrphanAck, FinProbe
<1>3. QED
  BY <1>2 DEF TcpMarkers

\* A window whose volume is an anomaly comes after four others, and exceeds one.
LEMMA AnomalyExceeds ==
  ASSUME NEW past, NEW r, TRUE \in VolumeVerdicts(past, r)
  PROVE  ~(Len(past) + 1 < 5) /\ \E i \in DOMAIN past : Exceeds(r, past[i])
BY Zenon DEF VolumeVerdicts, MinSamples

\* A lone packet exceeds another lone packet only in size.
LEMMA LoneBurst ==
  ASSUME NEW v, NEW w, Len(v) = 1, Len(w) = 1, v[1].ts \in Int, w[1].ts \in Int,
         NEW a \in Nat, NEW b \in Nat, Exceeds(Rate(v, a), Rate(w, b))
  PROVE  b < a
<1>1. Max({1, 0}) = 1
  BY DEF Max
<1>2. Rate(v, a) = [pps |-> 10, bps |-> a * 10, span |-> 1]
  <2>1. Len(v) * 10 = 10 /\ Len(v) * a * 10 = a * 10
    BY ONLY Len(v) = 1, a \in Nat
  <2>2. Last(v).ts = v[1].ts
    BY Zenon DEF Last
  <2>3. Max({1, (Last(v).ts - v[1].ts) * 1000}) = 1
    <3>1. (Last(v).ts - v[1].ts) * 1000 = 0
      BY ONLY <2>2, v[1].ts \in Int
    <3>2. QED
      BY ONLY <1>1, <3>1
  <2>4. Rate(v, a) = [pps |-> Len(v) * 10, bps |-> Len(v) * a * 10,
                     span |-> Max({1, (Last(v).ts - v[1].ts) * 1000})]
    BY ONLY Zenon DEF Rate
  <2>5. QED
    BY ONLY <2>1, <2>3, <2>4
<1>3. Rate(w, b) = [pps |-> 10, bps |-> b * 10, span |-> 1]
  <2>1. Len(w) * 10 = 10 /\ Len(w) * b * 10 = b * 10
    BY ONLY Len(w) = 1, b \in Nat
  <2>2. Last(w).ts = w[1].ts
    BY Zenon DEF Last
  <2>3. Max({1, (Last(w).ts - w[1].ts) * 1000}) = 1
    <3>1. (Last(w).ts - w[1].ts) * 1000 = 0
      BY ONLY <2>2, w[1].ts \in Int
    <3>2. QED
      BY ONLY <1>1, <3>1
  <2>4. Rate(w, b) = [pps |-> Len(w) * 10, bps |-> Len(w) * b * 10,
                     span |-> Max({1, (Last(w).ts - w[1].ts) * 1000})]
    BY ONLY Zenon DEF Rate
  <2>5. QED
    BY ONLY <2>1, <2>3, <2>4
<1>4. a * 10 > b * 10
  BY <1>2, <1>3 DEF Exceeds
<1>5. QED
  BY <1>4

-----------------------------------------------------------------------------
(* The inductive invariant.  Windows are compared as values: fin is the    *)
(* sequence of finalised windows, open the set of the open ones, cap the   *)
(* captured packets and u the use of the aggregator, which has its limits. *)

\* A window of flow k that holds packets of the capture, in its order.
Sound(w, k, cap, u) ==
  /\ u \in Source /\ w \in Seq(Packet) /\ Len(w) \in 1..MaxPackets[u]
  /\ \A n \in 1..Len(w) : w[n].no \in DOMAIN cap /\ cap[w[n].no] = [key |-> k, packet |-> w[n]]
  /\ \A n, m \in 1..Len(w) : n < m => w[n].no < w[m].no
  /\ \A n \in 1..(Len(w) - 1) : w[n + 1].ts - w[n].ts <= Timeout[u]

\* Window w was read before window v, and cut from it as the limits say.
Before(w, v)   == \A n \in 1..Len(w), m \in 1..Len(v) : w[n].no < v[m].no
CutAt(w, v, u) == Len(w) = MaxPackets[u] \/ v[1].ts - w[Len(w)].ts > Timeout[u]

\* Window j of fin is the one after i of its flow; window i is its flow's last.
Consecutive(i, j, fin) ==
  i < j /\ fin[i].key = fin[j].key /\ \A l \in (i + 1)..(j - 1) : fin[l].key # fin[i].key
LastOf(i, fin) == \A j \in DOMAIN fin : j > i => fin[j].key # fin[i].key

\* The windows divide the packets read so far.
Cuts(fin, open, cap, u) ==
  /\ \A f \in open : Sound(f.packets, f.key, cap, u)
  /\ \A f, g \in open : f.key = g.key => f = g
  /\ \A i \in DOMAIN fin : Sound(fin[i].packets, fin[i].key, cap, u)
  /\ \A c \in DOMAIN cap : \/ \E i \in DOMAIN fin : c \in Numbers(fin[i].packets)
                           \/ \E f \in open : c \in Numbers(f.packets)
  /\ \A i, j \in DOMAIN fin :
       i < j /\ fin[i].key = fin[j].key => Before(fin[i].packets, fin[j].packets)
  /\ \A i \in DOMAIN fin, f \in open : fin[i].key = f.key => Before(fin[i].packets, f.packets)
  /\ \A i, j \in DOMAIN fin : Consecutive(i, j, fin) => CutAt(fin[i].packets, fin[j].packets, u)
  /\ \A i \in DOMAIN fin, f \in open :
       fin[i].key = f.key /\ LastOf(i, fin) => CutAt(fin[i].packets, f.packets, u)

\* Capture cap2 is cap and one more packet p, of flow k.
Grown(cap, cap2, k, p) ==
  /\ p \in Packet
  /\ DOMAIN cap = 1..(p.no - 1) /\ DOMAIN cap2 = 1..p.no
  /\ \A c \in DOMAIN cap : cap2[c] = cap[c]
  /\ cap2[p.no] = [key |-> k, packet |-> p]

\* The limits of a use.
LEMMA Limits ==
  ASSUME NEW u \in Source
  PROVE  MaxPackets[u] \in Nat \ {0} /\ Timeout[u] \in Nat
BY TimeAssumption, LimitAssumption

\* A packet is a window of its flow.
LEMMA SoundLone ==
  ASSUME NEW cap, NEW cap2, NEW k, NEW p, NEW u \in Source, Grown(cap, cap2, k, p)
  PROVE  Sound(<<p>>, k, cap2, u)
<1>1. p \in Packet /\ p.no \in Nat \ {0}
  BY DEF Grown, Packet
<1>2. p.no \in DOMAIN cap2 /\ cap2[p.no] = [key |-> k, packet |-> p]
  BY <1>1 DEF Grown
<1>3. <<p>> \in Seq(Packet) /\ Len(<<p>>) = 1 /\ <<p>>[1] = p
  BY <1>1
<1>4. 1 \in 1..MaxPackets[u] /\ 1..1 = {1} /\ 1..0 = {}
  BY Limits
<1> DEFINE v == <<p>>
<1> HIDE DEF v
<1>5. v \in Seq(Packet) /\ Len(v) = 1 /\ v[1] = p
  BY <1>3 DEF v
<1>6. \A n \in 1..Len(v) : n = 1
  BY <1>5
<1>7. \A n \in 1..Len(v) : v[n].no \in DOMAIN cap2 /\ cap2[v[n].no] = [key |-> k, packet |-> v[n]]
  BY <1>2, <1>5, <1>6, Zenon
<1>8. \A n, m \in 1..Len(v) : ~(n < m)
  BY <1>6
<1>9. ~ \E n \in 1..(Len(v) - 1) : TRUE
  BY ONLY <1>5
<1>10. Sound(v, k, cap2, u)
  <2>1. Len(v) \in 1..MaxPackets[u]
    BY <1>4, <1>5, Zenon
  <2>2. QED
    BY <1>5, <1>7, <1>8, <1>9, <2>1, Zenon DEF Sound
<1>11. QED
  BY <1>10 DEF v

\* A window stays one when the capture grows.
LEMMA SoundGrown ==
  ASSUME NEW cap, NEW cap2, NEW k, NEW p, NEW u, Grown(cap, cap2, k, p),
         NEW w, NEW key, Sound(w, key, cap, u)
  PROVE  Sound(w, key, cap2, u)
<1>1. \A c \in DOMAIN cap : c \in DOMAIN cap2 /\ cap2[c] = cap[c]
  <2>1. p.no \in Nat \ {0} /\ DOMAIN cap = 1..(p.no - 1) /\ DOMAIN cap2 = 1..p.no
    BY DEF Grown, Packet
  <2>2. DOMAIN cap \subseteq DOMAIN cap2
    BY ONLY <2>1
  <2>3. QED
    BY <2>2, Zenon DEF Grown
<1>2. QED
  BY <1>1, Zenon DEF Sound

\* The new packet comes after all of a window's.
LEMMA NewestPacket ==
  ASSUME NEW cap, NEW cap2, NEW k, NEW p, NEW u, Grown(cap, cap2, k, p),
         NEW w, NEW key, Sound(w, key, cap, u)
  PROVE  \A n \in 1..Len(w) : w[n].no < p.no
<1>1. p.no \in Nat /\ DOMAIN cap = 1..(p.no - 1)
  BY DEF Grown, Packet
<1>2. \A c \in DOMAIN cap : c < p.no
  BY ONLY <1>1
<1>3. QED
  BY <1>2, Zenon DEF Sound

\* Appending to a window.
LEMMA AppendPacket ==
  ASSUME NEW w \in Seq(Packet), NEW p \in Packet
  PROVE  /\ Append(w, p) \in Seq(Packet) /\ Len(w) \in Nat /\ Len(Append(w, p)) = Len(w) + 1
         /\ \A n \in 1..Len(w) : Append(w, p)[n] = w[n]
         /\ Append(w, p)[Len(w) + 1] = p
BY AppendProperties, LenProperties

\* A packet extends a window of its flow that is not full, within the timeout.
LEMMA SoundExtended ==
  ASSUME NEW cap, NEW cap2, NEW k, NEW p, NEW u, Grown(cap, cap2, k, p),
         NEW w, Sound(w, k, cap, u), Len(w) < MaxPackets[u], p.ts - w[Len(w)].ts <= Timeout[u]
  PROVE  Sound(Append(w, p), k, cap2, u)
<1>1. p \in Packet /\ p.no \in DOMAIN cap2 /\ cap2[p.no] = [key |-> k, packet |-> p]
  <2>1. p \in Packet /\ p.no \in Nat \ {0} /\ DOMAIN cap2 = 1..p.no
    BY DEF Grown, Packet
  <2>2. p.no \in DOMAIN cap2
    BY ONLY <2>1
  <2>3. QED
    BY <2>1, <2>2, Zenon DEF Grown
<1>2. Sound(w, k, cap2, u) /\ \A n \in 1..Len(w) : w[n].no < p.no
  BY SoundGrown, NewestPacket, Zenon
<1>3. u \in Source /\ w \in Seq(Packet) /\ Len(w) \in 1..MaxPackets[u]
  BY Zenon DEF Sound
<1> DEFINE v == Append(w, p)
<1> HIDE DEF v
<1>4. PICK len \in Nat : /\ len = Len(w) /\ v \in Seq(Packet) /\ Len(v) = len + 1
                         /\ \A n \in 1..len : v[n] = w[n]
                         /\ v[len + 1] = p
  BY <1>1, <1>3, AppendPacket, Zenon DEF v
<1>5. len \in 1..MaxPackets[u] /\ len < MaxPackets[u] /\ p.ts - w[len].ts <= Timeout[u]
  BY <1>3, <1>4, Zenon
<1>6. \A n \in 1..(len + 1) : n \in 1..len \/ n = len + 1
  BY ONLY len \in Nat
<1>7. \A n \in 1..(len + 1) : /\ v[n].no \in DOMAIN cap2
                              /\ cap2[v[n].no] = [key |-> k, packet |-> v[n]]
  <2>1. \A n \in 1..len : w[n].no \in DOMAIN cap2 /\ cap2[w[n].no] = [key |-> k, packet |-> w[n]]
    BY <1>2, <1>4, Zenon DEF Sound
  <2>2. QED
    BY <1>1, <1>4, <1>6, <2>1, Zenon
<1>8. \A n, m \in 1..(len + 1) : n < m => v[n].no < v[m].no
  <2>1. \A n, m \in 1..len : n < m => w[n].no < w[m].no
    BY <1>2, <1>4, Zenon DEF Sound
  <2>2. \A n \in 1..(len + 1) : ~(len + 1 < n)
    BY ONLY len \in Nat
  <2>3. ASSUME NEW n \in 1..(len + 1), NEW m \in 1..(len + 1), n < m PROVE v[n].no < v[m].no
    <3>1. n \in 1..len
      BY ONLY <1>6, <2>2, <2>3, Zenon
    <3>2. v[n] = w[n] /\ w[n].no < p.no
      BY ONLY <1>2, <1>4, <3>1, Zenon
    <3>3. CASE m = len + 1
      BY ONLY <1>4, <3>2, <3>3, Zenon
    <3>4. CASE m \in 1..len
      BY ONLY <1>4, <2>1, <2>3, <3>1, <3>4, Zenon
    <3>5. QED
      BY ONLY <1>6, <3>3, <3>4, Zenon
  <2>4. QED
    BY ONLY <2>3, Zenon
<1>9. \A n \in 1..len : v[n + 1].ts - v[n].ts <= Timeout[u]
  <2>1. \A n \in 1..(len - 1) : w[n + 1].ts - w[n].ts <= Timeout[u]
    BY <1>2, <1>4, Zenon DEF Sound
  <2>2. \A n \in 1..len : n = len \/ (n \in 1..(len - 1) /\ n + 1 \in 1..len)
    BY ONLY len \in Nat
  <2>3. QED
    BY <1>4, <1>5, <2>1, <2>2, Zenon
<1>10. len + 1 \in 1..MaxPackets[u] /\ len + 1 - 1 = len
  <2>1. MaxPackets[u] \in Nat \ {0}
    BY ONLY <1>3, Limits
  <2>2. QED
    BY ONLY <1>5, <2>1
<1>11. Sound(v, k, cap2, u)
  <2>0. Len(v) = len + 1
    BY <1>4, Zenon
  <2>1. Len(v) - 1 = len
    BY ONLY <2>0, len \in Nat
  <2>2. /\ u \in Source /\ v \in Seq(Packet) /\ Len(v) \in 1..MaxPackets[u]
        /\ \A n \in 1..Len(v) : /\ v[n].no \in DOMAIN cap2
                                 /\ cap2[v[n].no] = [key |-> k, packet |-> v[n]]
        /\ \A n, m \in 1..Len(v) : n < m => v[n].no < v[m].no
    BY ONLY <1>3, <1>4, <1>7, <1>8, <1>10, Zenon
  <2>3. \A n \in 1..(Len(v) - 1) : v[n + 1].ts - v[n].ts <= Timeout[u]
    BY ONLY <1>9, <2>1, Zenon
  <2>4. QED
    BY <2>2, <2>3, Zenon DEF Sound
<1>12. QED
  BY <1>11 DEF v

\* The numbers of a window.
LEMMA NumbersOf ==
  ASSUME NEW w, NEW k, NEW cap, NEW u, Sound(w, k, cap, u)
  PROVE  /\ \A c : c \in Numbers(w) <=> \E n \in 1..Len(w) : c = w[n].no
         /\ Numbers(w) \subseteq DOMAIN cap
<1>1. w \in Seq(Packet)
  BY Zenon DEF Sound
<1>2. DOMAIN w = 1..Len(w)
  BY <1>1, LenProperties
<1>3. QED
  BY <1>2, Zenon DEF Numbers, Sound

\* A window of one packet has its number.
LEMMA NumbersOfLone ==
  ASSUME NEW p
  PROVE  /\ p.no \in Numbers(<<p>>) /\ Len(<<p>>) = 1
         /\ \A n \in 1..Len(<<p>>) : <<p>>[n] = p
<1>1. <<p>>[1] = p /\ DOMAIN <<p>> = {1} /\ Len(<<p>>) = 1 /\ 1..1 = {1}
  OBVIOUS
<1>2. p.no \in Numbers(<<p>>)
  BY ONLY <1>1, Zenon DEF Numbers
<1>3. \A n \in 1..Len(<<p>>) : <<p>>[n] = p
  BY ONLY <1>1, Zenon
<1>4. QED
  BY <1>1, <1>2, <1>3

\* A window that gets a packet has its number and keeps the others.
LEMMA NumbersOfExtended ==
  ASSUME NEW w \in Seq(Packet), NEW p \in Packet
  PROVE  Numbers(w) \subseteq Numbers(Append(w, p)) /\ p.no \in Numbers(Append(w, p))
<1> DEFINE v == Append(w, p)
<1>1. /\ v \in Seq(Packet) /\ Len(w) \in Nat /\ Len(v) = Len(w) + 1
      /\ (\A n \in 1..Len(w) : v[n] = w[n]) /\ v[Len(w) + 1] = p
  BY AppendPacket, Zenon
<1>2. DOMAIN w = 1..Len(w)
  BY LenProperties
<1> HIDE DEF v
<1>3. DOMAIN v = 1..Len(v)
  BY <1>1, LenProperties
<1>4. 1..Len(w) \subseteq 1..Len(v) /\ Len(w) + 1 \in 1..Len(v)
  <2>1. Len(w) \in Nat /\ Len(v) = Len(w) + 1
    BY <1>1, Zenon
  <2>2. QED
    BY ONLY <2>1
<1>5. Numbers(w) \subseteq Numbers(v) /\ p.no \in Numbers(v)
  BY ONLY <1>1, <1>2, <1>3, <1>4, Zenon DEF Numbers
<1>6. QED
  BY <1>5 DEF v

\* The captured packets, but for the new one.
LEMMA GrownDomain ==
  ASSUME NEW cap, NEW cap2, NEW k, NEW p, Grown(cap, cap2, k, p)
  PROVE  p \in Packet /\ \A c \in DOMAIN cap2 : c \in DOMAIN cap \/ c = p.no
<1>1. p.no \in Nat \ {0} /\ DOMAIN cap = 1..(p.no - 1) /\ DOMAIN cap2 = 1..p.no /\ p \in Packet
  BY DEF Grown, Packet
<1>2. \A c \in 1..p.no : c \in 1..(p.no - 1) \/ c = p.no
  BY ONLY <1>1
<1>3. QED
  BY <1>1, <1>2, Zenon

\* A packet starts a window of a flow that has none open.
LEMMA StartWindow ==
  ASSUME NEW fin, NEW open, NEW cap, NEW cap2, NEW u \in Source, NEW k, NEW p, NEW new,
         Cuts(fin, open, cap, u), Grown(cap, cap2, k, p),
         new.key = k, new.packets = <<p>>,
         \A f \in open : f.key # k,
         \A i \in DOMAIN fin : fin[i].key = k /\ LastOf(i, fin) => CutAt(fin[i].packets, <<p>>, u)
  PROVE  Cuts(fin, open \cup {new}, cap2, u)
<1> DEFINE opened == open \cup {new}
<1>1. Sound(new.packets, new.key, cap2, u)
  BY SoundLone, Zenon
<1>2. \A f \in opened : Sound(f.packets, f.key, cap2, u)
  BY <1>1, SoundGrown, Zenon DEF Cuts
<1>3. \A f, g \in opened : f.key = g.key => f = g
  BY Zenon DEF Cuts
<1>4. \A i \in DOMAIN fin : Sound(fin[i].packets, fin[i].key, cap2, u)
  BY SoundGrown, Zenon DEF Cuts
<1>5. \A c \in DOMAIN cap2 : \/ \E i \in DOMAIN fin : c \in Numbers(fin[i].packets)
                             \/ \E f \in opened : c \in Numbers(f.packets)
  <2>1. p.no \in Numbers(new.packets)
    <3>1. p.no \in Numbers(<<p>>)
      BY NumbersOfLone, Zenon
    <3>2. QED
      BY ONLY <3>1, new.packets = <<p>>, Zenon
  <2>2. \A c \in DOMAIN cap : \/ \E i \in DOMAIN fin : c \in Numbers(fin[i].packets)
                              \/ \E f \in open : c \in Numbers(f.packets)
    BY Zenon DEF Cuts
  <2>3. new \in opened /\ open \subseteq opened
    OBVIOUS
  <2>4. \A c \in DOMAIN cap2 : c \in DOMAIN cap \/ c = p.no
    BY GrownDomain, Zenon
  <2>5. QED
    BY ONLY <2>1, <2>2, <2>3, <2>4, Zenon
<1>6. \A i \in DOMAIN fin : Before(fin[i].packets, new.packets)
  <2>1. \A i \in DOMAIN fin : \A n \in 1..Len(fin[i].packets) : fin[i].packets[n].no < p.no
    BY NewestPacket, Zenon DEF Cuts
  <2>2. \A m \in 1..Len(<<p>>) : <<p>>[m] = p
    BY NumbersOfLone, Zenon
  <2>3. \A i \in DOMAIN fin : Before(fin[i].packets, <<p>>)
    BY ONLY <2>1, <2>2, Zenon DEF Before
  <2>4. QED
    BY ONLY <2>3, new.packets = <<p>>, Zenon
<1>7. \A i \in DOMAIN fin, f \in opened : fin[i].key = f.key => Before(fin[i].packets, f.packets)
  BY <1>6, Zenon DEF Cuts
<1>8. \A i \in DOMAIN fin, f \in opened :
        fin[i].key = f.key /\ LastOf(i, fin) => CutAt(fin[i].packets, f.packets, u)
  BY Zenon DEF Cuts
<1>9. QED
  BY <1>2, <1>3, <1>4, <1>5, <1>7, <1>8, Zenon DEF Cuts

\* A packet is added to its flow's open window.
LEMMA ExtendWindow ==
  ASSUME NEW fin, NEW open, NEW cap, NEW cap2, NEW u, NEW k, NEW p, NEW old \in open, NEW new,
         Cuts(fin, open, cap, u), Grown(cap, cap2, k, p),
         old.key = k, new.key = k, new.packets = Append(old.packets, p),
         Len(old.packets) < MaxPackets[u], p.ts - old.packets[Len(old.packets)].ts <= Timeout[u]
  PROVE  Cuts(fin, (open \ {old}) \cup {new}, cap2, u)
<1> DEFINE opened == (open \ {old}) \cup {new}
           w == old.packets
           v == Append(w, p)
<1>0. Sound(w, k, cap, u) /\ w \in Seq(Packet) /\ Len(w) \in 1..MaxPackets[u] /\ p \in Packet
  <2>1. Sound(w, k, cap, u)
    BY Zenon DEF Cuts
  <2>2. w \in Seq(Packet) /\ Len(w) \in 1..MaxPackets[u]
    BY ONLY <2>1, Zenon DEF Sound
  <2>3. QED
    BY <2>1, <2>2, GrownDomain, Zenon
<1>1. Sound(new.packets, new.key, cap2, u)
  BY <1>0, SoundExtended, Zenon
<1>2. \A f \in opened : Sound(f.packets, f.key, cap2, u)
  BY <1>1, SoundGrown, Zenon DEF Cuts
<1>3. \A f, g \in opened : f.key = g.key => f = g
  BY Zenon DEF Cuts
<1>4. \A i \in DOMAIN fin : Sound(fin[i].packets, fin[i].key, cap2, u)
  BY SoundGrown, Zenon DEF Cuts
<1>5. \A c \in DOMAIN cap2 : \/ \E i \in DOMAIN fin : c \in Numbers(fin[i].packets)
                             \/ \E f \in opened : c \in Numbers(f.packets)
  <2>1. Numbers(w) \subseteq Numbers(new.packets) /\ p.no \in Numbers(new.packets)
    BY <1>0, NumbersOfExtended, Zenon
  <2>2. \A c \in DOMAIN cap : \/ \E i \in DOMAIN fin : c \in Numbers(fin[i].packets)
                              \/ \E f \in open : c \in Numbers(f.packets)
    BY Zenon DEF Cuts
  <2>3. new \in opened /\ \A f \in open : f \in opened \/ f = old
    OBVIOUS
  <2>4. \A c \in DOMAIN cap2 : c \in DOMAIN cap \/ c = p.no
    BY GrownDomain, Zenon
  <2>5. ASSUME NEW c \in DOMAIN cap, NEW f \in open, c \in Numbers(f.packets)
        PROVE  \E g \in opened : c \in Numbers(g.packets)
    BY ONLY <2>1, <2>3, <2>5, f \in open, Zenon
  <2>6. QED
    BY ONLY <2>1, <2>2, <2>3, <2>4, <2>5, Zenon
<1>6. PICK len \in Nat : /\ len = Len(w) /\ Len(v) = len + 1 /\ v[len + 1] = p
                         /\ \A n \in 1..len : v[n] = w[n]
  BY <1>0, AppendPacket, Zenon
<1>7. \A n \in 1..(len + 1) : n \in 1..len \/ n = len + 1
  BY ONLY len \in Nat
<1>8. \A i \in DOMAIN fin : fin[i].key = k => Before(fin[i].packets, v)
  <2>1. \A i \in DOMAIN fin : \A n \in 1..Len(fin[i].packets) : fin[i].packets[n].no < p.no
    BY NewestPacket, Zenon DEF Cuts
  <2>2. \A i \in DOMAIN fin : fin[i].key = k => Before(fin[i].packets, w)
    BY Zenon DEF Cuts
  <2> HIDE DEF v, w
  <2>3. QED
    BY ONLY <1>6, <1>7, <2>1, <2>2, Zenon DEF Before
<1>9. \A i \in DOMAIN fin, f \in opened : fin[i].key = f.key => Before(fin[i].packets, f.packets)
  BY <1>8, Zenon DEF Cuts
<1>10. \A i \in DOMAIN fin : fin[i].key = k /\ LastOf(i, fin) => CutAt(fin[i].packets, v, u)
  <2>0. u \in Source
    BY Zenon DEF Cuts, Sound
  <2>1. \A i \in DOMAIN fin : fin[i].key = k /\ LastOf(i, fin) => CutAt(fin[i].packets, w, u)
    BY Zenon DEF Cuts
  <2>2. v[1] = w[1]
    <3>1. 1 \in 1..len
      <4>1. len \in 1..MaxPackets[u]
        BY <1>0, <1>6, Zenon
      <4>2. MaxPackets[u] \in Nat \ {0}
        BY <2>0, Limits
      <4>3. QED
        BY ONLY <4>1, <4>2
    <3>2. QED
      BY <1>6, <3>1, Zenon
  <2> HIDE DEF v, w
  <2>3. QED
    BY ONLY <2>1, <2>2, Zenon DEF CutAt
<1>11. \A i \in DOMAIN fin, f \in opened :
        fin[i].key = f.key /\ LastOf(i, fin) => CutAt(fin[i].packets, f.packets, u)
  BY <1>10, Zenon DEF Cuts
<1>12. QED
  BY <1>2, <1>3, <1>4, <1>5, <1>9, <1>11, Zenon DEF Cuts

\* Open windows fs of different flows are finalised, one after the other.
Finalises(fin, fin2, open, left2, L, n, fs) ==
  /\ DOMAIN fin = 1..L /\ DOMAIN fin2 = 1..(L + n) /\ \A i \in 1..L : fin2[i] = fin[i]
  /\ \A a \in 1..n : /\ fs[a] \in open /\ fin2[L + a].key = fs[a].key
                     /\ fin2[L + a].packets = fs[a].packets
  /\ \A a, b \in 1..n : fs[a].key = fs[b].key => a = b
  /\ \A f : f \in left2 <=> f \in open /\ \A a \in 1..n : f # fs[a]

\* The windows still divide the packets after open ones are finalised.
LEMMA FinaliseWindows ==
  ASSUME NEW fin, NEW fin2, NEW open, NEW left2, NEW cap, NEW u, NEW L \in Nat, NEW n \in Nat,
         NEW fs, Cuts(fin, open, cap, u), Finalises(fin, fin2, open, left2, L, n, fs)
  PROVE  Cuts(fin2, left2, cap, u)
<1> DOMAIN fin = 1..L /\ DOMAIN fin2 = 1..(L + n) /\ \A i \in 1..L : fin2[i] = fin[i]
  BY Zenon DEF Finalises
<1> \A a \in 1..n : /\ fs[a] \in open /\ fin2[L + a].key = fs[a].key
                    /\ fin2[L + a].packets = fs[a].packets
  BY Zenon DEF Finalises
<1> \A a, b \in 1..n : fs[a].key = fs[b].key => a = b
  BY Zenon DEF Finalises
<1> \A f : f \in left2 <=> f \in open /\ \A a \in 1..n : f # fs[a]
  BY Zenon DEF Finalises
<1>1. \A i \in 1..(L + n) : i \in 1..L \/ \E a \in 1..n : i = L + a
  <2> TAKE i \in 1..(L + n)
  <2>1. i \in 1..L \/ (i - L \in 1..n /\ i = L + (i - L))
    BY ONLY L \in Nat, n \in Nat, i \in 1..(L + n)
  <2>2. QED
    BY <2>1, Zenon
<1>2. /\ 1..L \subseteq 1..(L + n) /\ \A a \in 1..n : L + a \in 1..(L + n)
      /\ \A a \in 1..n, i \in 1..L : i < L + a /\ ~(L + a < i) /\ L + a > i
      /\ \A a \in 1..n : ~(L + a < L + a)
      /\ \A i, l \in 1..L, a \in 1..n : l > i => l \in (i + 1)..(L + a - 1)
  BY ONLY L \in Nat, n \in Nat
<1>3. \A f \in left2 : Sound(f.packets, f.key, cap, u)
  BY Zenon DEF Cuts
<1>4. \A f, g \in left2 : f.key = g.key => f = g
  BY Zenon DEF Cuts
<1>5. \A i \in 1..(L + n) : Sound(fin2[i].packets, fin2[i].key, cap, u)
  <2>1. \A i \in 1..L : Sound(fin2[i].packets, fin2[i].key, cap, u)
    <3>1. \A i \in 1..L : Sound(fin[i].packets, fin[i].key, cap, u)
      BY Zenon DEF Cuts
    <3>2. QED
      BY <3>1
  <2>2. \A a \in 1..n : Sound(fin2[L + a].packets, fin2[L + a].key, cap, u)
    <3>1. \A a \in 1..n : Sound(fs[a].packets, fs[a].key, cap, u)
      BY Zenon DEF Cuts
    <3>2. QED
      BY <3>1
  <2>3. QED
    BY ONLY <1>1, <2>1, <2>2
<1>6. \A c \in DOMAIN cap : \/ \E i \in 1..(L + n) : c \in Numbers(fin2[i].packets)
                            \/ \E f \in left2 : c \in Numbers(f.packets)
  <2> TAKE c \in DOMAIN cap
  <2>1. CASE \E i \in 1..L : c \in Numbers(fin[i].packets)
    BY <1>2, <2>1, Zenon
  <2>2. ASSUME NEW f \in open, c \in Numbers(f.packets)
        PROVE  \/ \E i \in 1..(L + n) : c \in Numbers(fin2[i].packets)
               \/ \E g \in left2 : c \in Numbers(g.packets)
    <3>1. CASE f \in left2
      BY <2>2, <3>1, Zenon
    <3>2. CASE f \notin left2
      <4>1. PICK a \in 1..n : f = fs[a]
        BY <3>2, Zenon
      <4>2. c \in Numbers(fin2[L + a].packets)
        BY <2>2, <4>1, Zenon
      <4>3. QED
        BY <1>2, <4>2, Zenon
    <3>3. QED
      BY <3>1, <3>2, Zenon
  <2>3. (\E i \in 1..L : c \in Numbers(fin[i].packets)) \/ \E f \in open : c \in Numbers(f.packets)
    BY Zenon DEF Cuts
  <2>4. QED
    BY <2>1, <2>2, <2>3, Zenon
<1>7. \A i \in 1..L, f \in open : fin2[i].key = f.key => Before(fin2[i].packets, f.packets)
  BY Zenon DEF Cuts
<1>8. \A i, j \in 1..(L + n) :
        i < j /\ fin2[i].key = fin2[j].key => Before(fin2[i].packets, fin2[j].packets)
  <2> SUFFICES ASSUME NEW i \in 1..(L + n), NEW j \in 1..(L + n),
                      i < j, fin2[i].key = fin2[j].key
               PROVE  Before(fin2[i].packets, fin2[j].packets)
    BY Zenon
  <2>1. CASE i \in 1..L /\ j \in 1..L
    <3>1. fin[i].key = fin[j].key /\ fin2[i] = fin[i] /\ fin2[j] = fin[j]
      BY <2>1
    <3>2. Before(fin[i].packets, fin[j].packets)
      BY <2>1, <3>1, Zenon DEF Cuts
    <3>3. QED
      BY <3>1, <3>2, Zenon
  <2>2. ASSUME NEW a \in 1..n, j = L + a, i \in 1..L
        PROVE  Before(fin2[i].packets, fin2[j].packets)
    <3>1. fs[a] \in open /\ fin2[j].key = fs[a].key /\ fin2[j].packets = fs[a].packets
      BY <2>2
    <3>2. Before(fin2[i].packets, fs[a].packets)
      BY <1>7, <2>2, <3>1, Zenon
    <3>3. QED
      BY <3>1, <3>2, Zenon
  <2>3. ASSUME NEW a \in 1..n, i = L + a PROVE FALSE
    <3>1. j \notin 1..L
      BY <1>2, <2>3, Zenon
    <3>2. PICK b \in 1..n : j = L + b
      BY <1>1, <3>1, Zenon
    <3>3. fs[a].key = fs[b].key
      <4>1. fin2[L + a].key = fs[a].key /\ fin2[L + b].key = fs[b].key
        BY Zenon
      <4>2. fin2[L + a].key = fin2[L + b].key
        BY ONLY <2>3, <3>2, fin2[i].key = fin2[j].key, Zenon
      <4>3. QED
        BY ONLY <4>1, <4>2, Zenon
    <3>4. i = j
      BY ONLY <2>3, <3>2, <3>3, \A c, d \in 1..n : fs[c].key = fs[d].key => c = d, Zenon
    <3>5. QED
      BY ONLY <1>2, <2>3, <3>4, i < j, Zenon
  <2>4. CASE i \in 1..L /\ j \notin 1..L
    <3>1. PICK a \in 1..n : j = L + a
      BY ONLY <1>1, <2>4, j \in 1..(L + n), Zenon
    <3>2. QED
      BY ONLY <2>2, <2>4, <3>1, Zenon
  <2>5. i \in 1..L
    BY ONLY <1>1, <2>3, i \in 1..(L + n), Zenon
  <2>6. QED
    BY ONLY <2>1, <2>4, <2>5, Zenon
<1>9. \A i \in 1..(L + n), f \in left2 : fin2[i].key = f.key => i \in 1..L
  <2>1. ASSUME NEW f \in left2, NEW a \in 1..n, fin2[L + a].key = f.key PROVE FALSE
    <3>1. fs[a] \in open /\ f \in open /\ fs[a].key = f.key
      BY <2>1, Zenon
    <3>2. f = fs[a]
      BY <3>1, Zenon DEF Cuts
    <3>3. QED
      BY <3>2, Zenon
  <2>2. QED
    BY ONLY <1>1, <2>1, Zenon
<1>10. \A i \in 1..L : LastOf(i, fin2) => LastOf(i, fin)
  BY <1>2, Zenon DEF LastOf
<1>11. \A i \in 1..(L + n), f \in left2 :
         fin2[i].key = f.key => Before(fin2[i].packets, f.packets)
  BY <1>7, <1>9, Zenon
<1>12. \A i \in 1..(L + n), f \in left2 :
         fin2[i].key = f.key /\ LastOf(i, fin2) => CutAt(fin2[i].packets, f.packets, u)
  <2> SUFFICES ASSUME NEW i \in 1..(L + n), NEW f \in left2, fin2[i].key = f.key, LastOf(i, fin2)
               PROVE  CutAt(fin2[i].packets, f.packets, u)
    BY Zenon
  <2>1. i \in 1..L /\ f \in open
    BY <1>9, Zenon
  <2>2. LastOf(i, fin)
    BY <1>10, <2>1, Zenon
  <2>3. QED
    BY <2>1, <2>2, Zenon DEF Cuts
<1>13. \A i, j \in 1..(L + n) :
         Consecutive(i, j, fin2) => CutAt(fin2[i].packets, fin2[j].packets, u)
  <2> SUFFICES ASSUME NEW i \in 1..(L + n), NEW j \in 1..(L + n), Consecutive(i, j, fin2)
               PROVE  CutAt(fin2[i].packets, fin2[j].packets, u)
    BY Zenon
  <2>0. i < j /\ fin2[i].key = fin2[j].key /\ \A l \in (i + 1)..(j - 1) : fin2[l].key # fin2[i].key
    BY Zenon DEF Consecutive
  <2>1. CASE i \in 1..L /\ j \in 1..L
    <3>1. (i + 1)..(j - 1) \subseteq 1..L
      BY ONLY <2>1, L \in Nat
    <3>2. Consecutive(i, j, fin)
      BY <2>0, <2>1, <3>1, Zenon DEF Consecutive
    <3>3. QED
      BY <2>1, <3>2, Zenon DEF Cuts
  <2>2. ASSUME NEW a \in 1..n, j = L + a, i \in 1..L
        PROVE  CutAt(fin2[i].packets, fin2[j].packets, u)
    <3>1. \A l \in 1..L : l > i => fin[l].key # fin[i].key
      <4> SUFFICES ASSUME NEW l \in 1..L, l > i PROVE fin2[l].key # fin2[i].key
        BY <2>2, Zenon
      <4>1. l \in (i + 1)..(j - 1)
        BY ONLY <2>2, L \in Nat, l \in 1..L, l > i
      <4>2. QED
        BY <2>0, <4>1, Zenon
    <3>2. LastOf(i, fin)
      BY <3>1, Zenon DEF LastOf
    <3>3. fs[a] \in open /\ fin[i].key = fs[a].key
      BY <2>0, <2>2, Zenon
    <3>4. CutAt(fin[i].packets, fs[a].packets, u)
      BY <2>2, <3>2, <3>3, Zenon DEF Cuts
    <3>5. QED
      BY <2>2, <3>4, Zenon
  <2>3. ASSUME NEW a \in 1..n, i = L + a PROVE FALSE
    <3>1. j \notin 1..L
      BY <1>2, <2>0, <2>3, Zenon
    <3>2. PICK b \in 1..n : j = L + b
      BY <1>1, <3>1, Zenon
    <3>3. fs[a].key = fs[b].key
      <4>1. fin2[L + a].key = fs[a].key /\ fin2[L + b].key = fs[b].key
        BY Zenon
      <4>2. fin2[L + a].key = fin2[L + b].key
        BY ONLY <2>0, <2>3, <3>2, Zenon
      <4>3. QED
        BY ONLY <4>1, <4>2, Zenon
    <3>4. i = j
      BY ONLY <2>3, <3>2, <3>3, \A c, d \in 1..n : fs[c].key = fs[d].key => c = d, Zenon
    <3>5. QED
      BY ONLY <1>2, <2>0, <2>3, <3>4, Zenon
  <2>4. CASE i \in 1..L /\ j \notin 1..L
    <3>1. PICK a \in 1..n : j = L + a
      BY ONLY <1>1, <2>4, j \in 1..(L + n), Zenon
    <3>2. QED
      BY ONLY <2>2, <2>4, <3>1, Zenon
  <2>5. i \in 1..L
    BY ONLY <1>1, <2>3, i \in 1..(L + n), Zenon
  <2>6. QED
    BY ONLY <2>1, <2>4, <2>5, Zenon
<1>14. QED
  BY <1>3, <1>4, <1>5, <1>6, <1>8, <1>11, <1>12, <1>13, Zenon DEF Cuts

-----------------------------------------------------------------------------
(* Finalising windows.                                                     *)

\* The record kept of a finalised window.
Marker == {"syn_without_ack_return", "orphan_ack_stream", "rst_flood", "fin_probe",
           "null_or_xmas_flags"}
Finalised == [key : Flow, packets : Seq(Packet),
              features : [beacon : BOOLEAN, markers : SUBSET Marker, spoofed : BOOLEAN,
                          burst : BOOLEAN]]

\* What extract_features says of a window depends on that window alone, but
\* for the burst.
Judged(e) ==
  /\ e.features.beacon \in BeaconVerdicts(e.packets)
  /\ e.features.markers = IF e.key \in Tcp THEN TcpMarkers(e.packets) ELSE {}
  /\ e.features.spoofed = TtlSpoofed(e.packets)

\* Window i is a burst only after four others, one of which it exceeds.
BurstAt(i, fin) ==
  fin[i].features.burst =>
    i >= 5 /\ \E j \in 1..(i - 1) : Exceeds(RateOf(fin[i]), RateOf(fin[j]))

\* BurstAt follows from its conclusion.
LEMMA BurstAtPlace ==
  ASSUME NEW i, NEW fin, i >= 5, \E j \in 1..(i - 1) : Exceeds(RateOf(fin[i]), RateOf(fin[j]))
  PROVE  BurstAt(i, fin)
BY DEF BurstAt

\* The types of the verdicts.
LEMMA VerdictTypes ==
  ASSUME NEW w
  PROVE  /\ \A b \in BeaconVerdicts(w) : b \in BOOLEAN
         /\ TcpMarkers(w) \in SUBSET Marker
         /\ TtlSpoofed(w) \in BOOLEAN
<1>1. \A b \in BeaconVerdicts(w) : b \in BOOLEAN
  BY Zenon DEF BeaconVerdicts
<1>2. TcpMarkers(w) \in SUBSET Marker
  BY DEF TcpMarkers, Marker
<1>3. TtlSpoofed(w) \in BOOLEAN
  BY Zenon DEF TtlSpoofed
<1>4. QED
  BY <1>1, <1>2, <1>3

\* A function on 1..n is a sequence of its values.
LEMMA IsASeqOf ==
  ASSUME NEW n \in Nat, NEW S, NEW s, s = [i \in 1..n |-> s[i]], \A i \in 1..n : s[i] \in S
  PROVE  s \in Seq(S)
<1>1. s \in [1..n -> S]
  OBVIOUS
<1>2. QED
  BY <1>1, SeqDef

\* One result of extracting m windows after L others, with the rates they were
\* measured by.
Measured(ws, m, L, done) ==
  \E v \in [1..m -> BOOLEAN \X BOOLEAN] : \E rates :
     /\ done = [i \in 1..m |-> [key |-> ws[i].key, packets |-> ws[i].packets,
                                features |-> Features(ws[i], v[i][1], v[i][2])]]
     /\ \A i \in 1..L : rates[i] = RateOf(finalized[i])
     /\ \A i \in 1..m : rates[L + i] = RateOf(ws[i])
     /\ \A i \in 1..m : v[i][1] \in BeaconVerdicts(ws[i].packets)
     /\ \A i \in 1..m : v[i][2] \in VolumeVerdicts(SubSeq(rates, 1, L + i - 1), RateOf(ws[i]))

\* Every result of Extractions is one.
LEMMA ExtractionsOf ==
  ASSUME NEW ws, NEW m \in Nat, NEW L \in Nat, m = Len(ws), DOMAIN ws = 1..m,
         L = Len(finalized), DOMAIN finalized = 1..L,
         NEW done \in Extractions(ws)
  PROVE  Measured(ws, m, L, done)
<1> DEFINE before == [i \in DOMAIN finalized |-> RateOf(finalized[i])]
           these == [i \in DOMAIN ws |-> RateOf(ws[i])]
           rates == before \o these
           R == {RateOf(finalized[i]) : i \in 1..L} \cup {RateOf(ws[i]) : i \in 1..m}
<1>1. before \in Seq(R) /\ Len(before) = L
  <2>1. before = [i \in 1..L |-> before[i]] /\ \A i \in 1..L : before[i] \in R
    BY Zenon
  <2> HIDE DEF before, R
  <2>2. QED
    BY ONLY <2>1, L \in Nat, IsASeqOf, IsASeqLen
<1>2. these \in Seq(R) /\ Len(these) = m
  <2>1. these = [i \in 1..m |-> these[i]] /\ \A i \in 1..m : these[i] \in R
    BY Zenon
  <2> HIDE DEF these, R
  <2>2. QED
    BY ONLY <2>1, m \in Nat, IsASeqOf, IsASeqLen
<1>3. \A i \in 1..(L + m) : rates[i] = IF i <= L THEN before[i] ELSE these[i - L]
  <2> HIDE DEF before, these, R
  <2>1. QED
    BY <1>1, <1>2, ConcatProperties
<1>4. \A i \in 1..L : rates[i] = RateOf(finalized[i])
  <2>1. \A i \in 1..L : i \in 1..(L + m) /\ i <= L
    BY ONLY L \in Nat, m \in Nat
  <2>2. \A i \in 1..L : before[i] = RateOf(finalized[i])
    BY Zenon
  <2> HIDE DEF before, these, rates
  <2>3. QED
    BY ONLY <1>3, <2>1, <2>2
<1>5. \A i \in 1..m : rates[L + i] = RateOf(ws[i])
  <2>1. \A i \in 1..m : L + i \in 1..(L + m) /\ ~(L + i <= L) /\ L + i - L = i
    BY ONLY L \in Nat, m \in Nat
  <2>2. \A i \in 1..m : these[i] = RateOf(ws[i])
    BY Zenon
  <2> HIDE DEF before, these, rates
  <2>3. QED
    BY ONLY <1>3, <2>1, <2>2
<1>6. \E v \in [DOMAIN ws -> BOOLEAN \X BOOLEAN] :
        /\ \A i \in DOMAIN ws :
             /\ v[i][1] \in BeaconVerdicts(ws[i].packets)
             /\ v[i][2] \in VolumeVerdicts(SubSeq(rates, 1, Len(finalized) + i - 1), RateOf(ws[i]))
        /\ done = [i \in DOMAIN ws |-> [key |-> ws[i].key, packets |-> ws[i].packets,
                                        features |-> Features(ws[i], v[i][1], v[i][2])]]
  BY DEF Extractions
<1>7. QED
  <2> HIDE DEF rates
  <2>1. PICK v \in [DOMAIN ws -> BOOLEAN \X BOOLEAN] :
        /\ \A i \in DOMAIN ws :
             /\ v[i][1] \in BeaconVerdicts(ws[i].packets)
             /\ v[i][2] \in VolumeVerdicts(SubSeq(rates, 1, Len(finalized) + i - 1), RateOf(ws[i]))
        /\ done = [i \in DOMAIN ws |-> [key |-> ws[i].key, packets |-> ws[i].packets,
                                        features |-> Features(ws[i], v[i][1], v[i][2])]]
    BY <1>6, Zenon
  <2>2. v \in [1..m -> BOOLEAN \X BOOLEAN]
    OBVIOUS
  <2>3. done = [i \in 1..m |-> [key |-> ws[i].key, packets |-> ws[i].packets,
                                features |-> Features(ws[i], v[i][1], v[i][2])]]
    BY ONLY <2>1, DOMAIN ws = 1..m
  <2>4. \A i \in 1..m : v[i][1] \in BeaconVerdicts(ws[i].packets)
    BY ONLY <2>1, DOMAIN ws = 1..m
  <2>5. \A i \in 1..m : v[i][2] \in VolumeVerdicts(SubSeq(rates, 1, L + i - 1), RateOf(ws[i]))
    BY ONLY <2>1, DOMAIN ws = 1..m, L = Len(finalized)
  <2>6. QED
    BY ONLY <1>4, <1>5, <2>2, <2>3, <2>4, <2>5, Zenon DEF Measured

\* A prefix of the rates.
LEMMA PastRates ==
  ASSUME NEW rates, NEW n \in Nat
  PROVE  LET past == SubSeq(rates, 1, n)
         IN  Len(past) = n /\ DOMAIN past = 1..n /\ \A i \in 1..n : past[i] = rates[i]
<1> DEFINE S == {rates[i] : i \in 1..n}
           past == SubSeq(rates, 1, n)
<1>1. /\ past \in Seq(S) /\ Len(past) = IF 1 <= n THEN n - 1 + 1 ELSE 0
      /\ \A i \in 1..(n - 1 + 1) : past[i] = rates[1 + i - 1]
  <2>1. \A i \in 1..n : rates[i] \in S
    OBVIOUS
  <2> HIDE DEF S
  <2>2. QED
    BY <2>1, SubSeqProperties
<1> HIDE DEF past, S
<1>2. DOMAIN past = 1..Len(past)
  BY <1>1, LenProperties
<1>3. n - 1 + 1 = n /\ (IF 1 <= n THEN n - 1 + 1 ELSE 0) = n
  BY ONLY n \in Nat
<1>4. Len(past) = n
  BY ONLY <1>1, <1>3
<1>5. \A i \in 1..n : past[i] = rates[i]
  <2> TAKE i \in 1..n
  <2>1. i \in 1..(n - 1 + 1) /\ 1 + i - 1 = i
    BY ONLY n \in Nat, i \in 1..n
  <2>2. past[i] = rates[1 + i - 1]
    BY <1>1, <2>1
  <2>3. QED
    BY ONLY <2>1, <2>2
<1>6. QED
  BY <1>2, <1>4, <1>5 DEF past

\* The finalised windows after an extraction.
Extracts(ws, m, L, fin2) ==
  /\ fin2 \in Seq(Finalised) /\ Len(fin2) = L + m /\ DOMAIN fin2 = 1..(L + m)
  /\ \A i \in 1..L : fin2[i] = finalized[i]
  /\ \A a \in 1..m : /\ fin2[L + a].key = ws[a].key /\ fin2[L + a].packets = ws[a].packets
                     /\ Judged(fin2[L + a]) /\ BurstAt(L + a, fin2)

\* Extracting windows appends them, each with the verdicts it should have.
LEMMA Extracted ==
  ASSUME NEW ws, NEW m \in Nat, NEW L \in Nat, m = Len(ws), ws \in Seq(Window),
         L = Len(finalized), finalized \in Seq(Finalised),
         NEW done \in Extractions(ws), NEW fin2, fin2 = finalized \o done
  PROVE  Extracts(ws, m, L, fin2)
<1>1. DOMAIN ws = 1..m /\ DOMAIN finalized = 1..L
  BY LenProperties
<1>1a. PICK v \in [1..m -> BOOLEAN \X BOOLEAN] : \E rates :
           /\ done = [i \in 1..m |-> [key |-> ws[i].key, packets |-> ws[i].packets,
                                      features |-> Features(ws[i], v[i][1], v[i][2])]]
           /\ \A i \in 1..L : rates[i] = RateOf(finalized[i])
           /\ \A i \in 1..m : rates[L + i] = RateOf(ws[i])
           /\ \A i \in 1..m : v[i][1] \in BeaconVerdicts(ws[i].packets)
           /\ \A i \in 1..m : v[i][2] \in VolumeVerdicts(SubSeq(rates, 1, L + i - 1), RateOf(ws[i]))
  <2>1. Measured(ws, m, L, done)
    BY <1>1, ExtractionsOf, Zenon
  <2>2. QED
    BY <2>1, Zenon DEF Measured
<1>2. PICK rates :
           /\ done = [i \in 1..m |-> [key |-> ws[i].key, packets |-> ws[i].packets,
                                      features |-> Features(ws[i], v[i][1], v[i][2])]]
           /\ \A i \in 1..L : rates[i] = RateOf(finalized[i])
           /\ \A i \in 1..m : rates[L + i] = RateOf(ws[i])
           /\ \A i \in 1..m : v[i][1] \in BeaconVerdicts(ws[i].packets)
           /\ \A i \in 1..m : v[i][2] \in VolumeVerdicts(SubSeq(rates, 1, L + i - 1), RateOf(ws[i]))
  BY <1>1a, Zenon
<1>3. \A a \in 1..m : /\ done[a].key = ws[a].key /\ done[a].packets = ws[a].packets
                      /\ done[a].features = Features(ws[a], v[a][1], v[a][2])
  BY ONLY <1>2
<1>4. \A a \in 1..m : done[a] \in Finalised /\ Judged(done[a])
  <2> TAKE a \in 1..m
  <2>1. ws[a] \in Window
    BY ElementOfSeq
  <2>2. ws[a].key \in Flow /\ ws[a].packets \in Seq(Packet)
    BY ONLY <2>1 DEF Window
  <2>3. v[a][1] \in BOOLEAN /\ v[a][2] \in BOOLEAN
    BY ONLY v \in [1..m -> BOOLEAN \X BOOLEAN], a \in 1..m
  <2>4. Features(ws[a], v[a][1], v[a][2]) \in
          [beacon : BOOLEAN, markers : SUBSET Marker, spoofed : BOOLEAN, burst : BOOLEAN]
    <3>1. (IF ws[a].key \in Tcp THEN TcpMarkers(ws[a].packets) ELSE {}) \in SUBSET Marker
      BY VerdictTypes
    <3>2. TtlSpoofed(ws[a].packets) \in BOOLEAN
      BY VerdictTypes
    <3>3. QED
      BY ONLY <2>3, <3>1, <3>2 DEF Features
  <2>5. done[a] \in Finalised
    <3>1. done[a] = [key |-> ws[a].key, packets |-> ws[a].packets,
                     features |-> Features(ws[a], v[a][1], v[a][2])]
      BY ONLY <1>2, a \in 1..m
    <3>2. QED
      BY ONLY <2>2, <2>4, <3>1 DEF Finalised
  <2>6. Judged(done[a])
    BY ONLY <1>2, <1>3, a \in 1..m DEF Judged, Features
  <2>7. QED
    BY <2>5, <2>6
<1>5. done \in Seq(Finalised) /\ Len(done) = m
  <2>1. done = [i \in 1..m |-> done[i]]
    BY ONLY <1>2
  <2>2. QED
    BY ONLY <1>4, <2>1, m \in Nat, IsASeqOf, IsASeqLen
<1>6. /\ fin2 \in Seq(Finalised) /\ Len(fin2) = L + m
      /\ \A i \in 1..(L + m) : fin2[i] = IF i <= L THEN finalized[i] ELSE done[i - L]
  BY ONLY <1>5, L = Len(finalized), finalized \in Seq(Finalised), fin2 = finalized \o done,
          ConcatProperties
<1>7. DOMAIN fin2 = 1..(L + m)
  BY ONLY <1>6, LenProperties
<1>8. \A i \in 1..L : fin2[i] = finalized[i]
  <2>1. \A i \in 1..L : i \in 1..(L + m) /\ i <= L
    BY ONLY L \in Nat, m \in Nat
  <2>2. \A i \in 1..(L + m) : fin2[i] = IF i <= L THEN finalized[i] ELSE done[i - L]
    BY <1>6
  <2>3. QED
    BY ONLY <2>1, <2>2
<1>9. \A a \in 1..m : fin2[L + a] = done[a]
  <2>1. \A i \in 1..m : L + i \in 1..(L + m) /\ ~(L + i <= L) /\ L + i - L = i
    BY ONLY L \in Nat, m \in Nat
  <2>2. \A i \in 1..(L + m) : fin2[i] = IF i <= L THEN finalized[i] ELSE done[i - L]
    BY <1>6
  <2>3. QED
    BY ONLY <2>1, <2>2
<1>10. \A i \in 1..(L + m) : rates[i] = RateOf(fin2[i])
  <2>1. \A i \in 1..(L + m) : i \in 1..L \/ (i - L \in 1..m /\ i = L + (i - L))
    BY ONLY L \in Nat, m \in Nat
  <2>2. \A a \in 1..m : RateOf(fin2[L + a]) = RateOf(ws[a])
    BY ONLY <1>3, <1>9 DEF RateOf
  <2>3. \A a \in 1..m : rates[L + a] = RateOf(fin2[L + a])
    BY ONLY <1>2, <2>2
  <2>4. \A i \in 1..L : rates[i] = RateOf(fin2[i])
    BY ONLY <1>2, <1>8
  <2>5. QED
    BY ONLY <2>1, <2>3, <2>4
<1>11. ASSUME NEW a \in 1..m, v[a][2] = TRUE
       PROVE  L + a >= 5 /\ \E j \in 1..(L + a - 1) : Exceeds(RateOf(fin2[L + a]), RateOf(fin2[j]))
  <2> DEFINE past == SubSeq(rates, 1, L + a - 1)
  <2>1. TRUE \in VolumeVerdicts(past, RateOf(ws[a]))
    BY ONLY <1>2, <1>11, a \in 1..m
  <2>2. L + a - 1 \in Nat
    BY ONLY L \in Nat, m \in Nat, a \in 1..m
  <2>3. /\ Len(past) = L + a - 1 /\ DOMAIN past = 1..(L + a - 1)
        /\ \A i \in 1..(L + a - 1) : past[i] = rates[i]
    BY ONLY <2>2, PastRates
  <2> HIDE DEF past
  <2>4. ~(Len(past) + 1 < 5) /\ \E i \in DOMAIN past : Exceeds(RateOf(ws[a]), past[i])
    BY ONLY <2>1, AnomalyExceeds
  <2>5. L + a >= 5
    BY ONLY <2>3, <2>4, L \in Nat, m \in Nat, a \in 1..m
  <2>6. PICK i \in 1..(L + a - 1) : Exceeds(RateOf(ws[a]), rates[i])
    BY ONLY <2>3, <2>4
  <2>7. i \in 1..(L + m)
    BY ONLY L \in Nat, m \in Nat, a \in 1..m, i \in 1..(L + a - 1)
  <2>8. RateOf(fin2[L + a]) = RateOf(ws[a])
    BY ONLY <1>3, <1>9, a \in 1..m DEF RateOf
  <2>9. Exceeds(RateOf(fin2[L + a]), RateOf(fin2[i]))
    BY ONLY <1>10, <2>6, <2>7, <2>8
  <2>10. QED
    BY ONLY <2>5, <2>9, i \in 1..(L + a - 1), Zenon
<1>12. ASSUME NEW a \in 1..m PROVE BurstAt(L + a, fin2)
  <2>1. Features(ws[a], v[a][1], v[a][2]).burst = v[a][2]
    BY ONLY Zenon DEF Features
  <2>2. fin2[L + a].features = Features(ws[a], v[a][1], v[a][2])
    BY ONLY <1>3, <1>9, a \in 1..m
  <2>3. v[a][2] \in BOOLEAN
    BY ONLY v \in [1..m -> BOOLEAN \X BOOLEAN], a \in 1..m
  <2>4. CASE v[a][2] = TRUE
    <3>1. L + a >= 5
      BY ONLY <1>11, <2>4, a \in 1..m
    <3>2. \E j \in 1..(L + a - 1) : Exceeds(RateOf(fin2[L + a]), RateOf(fin2[j]))
      BY ONLY <1>11, <2>4, a \in 1..m
    <3>3. QED
      BY ONLY <3>1, <3>2, BurstAtPlace
  <2>5. CASE v[a][2] = FALSE
    <3>1. fin2[L + a].features.burst = FALSE
      BY ONLY <2>1, <2>2, <2>5, Zenon
    <3>2. QED
      BY ONLY <3>1, Zenon DEF BurstAt
  <2>6. QED
    BY ONLY <2>3, <2>4, <2>5, Zenon
<1>13. QED
  BY ONLY <1>3, <1>4, <1>6, <1>7, <1>8, <1>9, <1>12, Zenon DEF Extracts

-----------------------------------------------------------------------------
(* The open windows.                                                       *)

\* No two windows of s are of one flow.
Distinct(s) == \A i, j \in DOMAIN s : s[i].key = s[j].key => i = j

\* Open windows are of different flows, and none is full.
OpenWindows(s) ==
  s \in Seq(Window) /\ Distinct(s) /\ \A i \in DOMAIN s : ~Full(s[i].packets)

\* PlaceOf is the place of the flow's window, 0 when there is none.
LEMMA PlaceIs ==
  ASSUME NEW k, NEW n \in Nat, n = Len(flows)
  PROVE  \/ PlaceOf(k) = 0 /\ \A i \in 1..n : flows[i].key # k
         \/ PlaceOf(k) \in 1..n /\ flows[PlaceOf(k)].key = k
<1> DEFINE I == {i \in 1..Len(flows) : flows[i].key = k}
<1>1. PlaceOf(k) = IF I # {} THEN Min(I) ELSE 0
  BY DEF PlaceOf, SelectInSeq
<1>2. CASE I = {}
  BY <1>1, <1>2
<1>3. CASE I # {}
  <2>1. I \subseteq Nat
    BY ONLY n \in Nat, n = Len(flows)
  <2> HIDE DEF I
  <2>2. \E x \in I : \A y \in I : x <= y
    BY <1>3, <2>1, Least
  <2>3. Min(I) \in I
    BY <2>2, Zenon DEF Min
  <2>4. PlaceOf(k) \in I
    BY <1>1, <1>3, <2>3, Zenon
  <2>5. QED
    BY <2>4 DEF I
<1>4. QED
  BY <1>2, <1>3

\* Sequences of windows, by their entries.
LEMMA RemovedAt ==
  ASSUME NEW s, s \in Seq(Window), NEW n \in Nat, n = Len(s), NEW at \in 1..n
  PROVE  /\ RemoveAt(s, at) \in Seq(Window) /\ Len(RemoveAt(s, at)) = n - 1
         /\ \A j \in 1..(n - 1) : RemoveAt(s, at)[j] = IF j < at THEN s[j] ELSE s[j + 1]
<1> DEFINE a == SubSeq(s, 1, at - 1)
           b == SubSeq(s, at + 1, n)
<1>1. \A i \in 1..n : s[i] \in Window
  BY ElementOfSeq
<1>2. at - 1 \in Int /\ at + 1 \in Int /\ 1..(at - 1) \subseteq 1..n /\ (at + 1)..n \subseteq 1..n
  BY ONLY n \in Nat, at \in 1..n
<1>3. /\ a \in Seq(Window) /\ Len(a) = IF 1 <= at - 1 THEN at - 1 - 1 + 1 ELSE 0
      /\ \A i \in 1..(at - 1 - 1 + 1) : a[i] = s[1 + i - 1]
  <2>1. \A i \in 1..(at - 1) : s[i] \in Window
    BY <1>1, <1>2, Zenon
  <2>2. QED
    BY ONLY <1>2, <2>1, SubSeqProperties
<1>4. /\ b \in Seq(Window) /\ Len(b) = IF at + 1 <= n THEN n - (at + 1) + 1 ELSE 0
      /\ \A i \in 1..(n - (at + 1) + 1) : b[i] = s[at + 1 + i - 1]
  <2>1. \A i \in (at + 1)..n : s[i] \in Window
    BY <1>1, <1>2, Zenon
  <2>2. QED
    BY ONLY <1>2, <2>1, n \in Nat, SubSeqProperties
<1> HIDE DEF a, b
<1>5. Len(a) = at - 1 /\ Len(b) = n - at
  BY ONLY <1>3, <1>4, n \in Nat, at \in 1..n
<1>6. RemoveAt(s, at) = a \o b
  BY Zenon DEF RemoveAt, a, b
<1>7. /\ a \o b \in Seq(Window) /\ Len(a \o b) = Len(a) + Len(b)
      /\ \A i \in 1..(Len(a) + Len(b)) : (a \o b)[i] = IF i <= Len(a) THEN a[i] ELSE b[i - Len(a)]
  BY <1>3, <1>4, ConcatProperties
<1>8. Len(a) + Len(b) = n - 1
  BY ONLY <1>5, n \in Nat, at \in 1..n
<1>9. \A j \in 1..(n - 1) : (a \o b)[j] = IF j < at THEN s[j] ELSE s[j + 1]
  <2> TAKE j \in 1..(n - 1)
  <2>1. CASE j < at
    <3>1. j <= at - 1 /\ j \in 1..(at - 1 - 1 + 1) /\ 1 + j - 1 = j
      BY ONLY <2>1, n \in Nat, at \in 1..n, j \in 1..(n - 1)
    <3>2. (a \o b)[j] = a[j]
      BY ONLY <1>5, <1>7, <1>8, <3>1, j \in 1..(n - 1)
    <3>3. a[j] = s[j]
      BY ONLY <1>3, <3>1
    <3>4. QED
      BY ONLY <2>1, <3>2, <3>3
  <2>2. CASE ~(j < at)
    <3>1. /\ ~(j <= at - 1) /\ j - (at - 1) \in 1..(n - (at + 1) + 1)
          /\ at + 1 + (j - (at - 1)) - 1 = j + 1
      BY ONLY <2>2, n \in Nat, at \in 1..n, j \in 1..(n - 1)
    <3>2. (a \o b)[j] = b[j - (at - 1)]
      BY ONLY <1>5, <1>7, <1>8, <3>1, j \in 1..(n - 1)
    <3>3. b[j - (at - 1)] = s[j + 1]
      BY ONLY <1>4, <3>1
    <3>4. QED
      BY ONLY <2>2, <3>2, <3>3
  <2>3. QED
    BY ONLY <2>1, <2>2
<1>10. QED
  BY ONLY <1>6, <1>7, <1>8, <1>9, Zenon

\* The members of a sequence of windows.
LEMMA Members ==
  ASSUME NEW s, s \in Seq(Window)
  PROVE  \A f : f \in Range(s) <=> \E i \in 1..Len(s) : f = s[i]
<1>1. DOMAIN s = 1..Len(s)
  BY LenProperties
<1>2. QED
  BY <1>1, Zenon DEF Range

\* A window is removed from the open ones.
LEMMA RemovedWindow ==
  ASSUME NEW s, OpenWindows(s), NEW at \in 1..Len(s)
  PROVE  /\ OpenWindows(RemoveAt(s, at))
         /\ \A f : f \in Range(RemoveAt(s, at)) <=> f \in Range(s) /\ f.key # s[at].key
<1> DEFINE r == RemoveAt(s, at)
           n == Len(s)
<1>1. s \in Seq(Window) /\ n \in Nat /\ at \in 1..n /\ DOMAIN s = 1..n
  BY LenProperties DEF OpenWindows
<1>2. /\ r \in Seq(Window) /\ Len(r) = n - 1
      /\ \A j \in 1..(n - 1) : r[j] = IF j < at THEN s[j] ELSE s[j + 1]
  <2> HIDE DEF n
  <2>1. QED
    BY <1>1, RemovedAt DEF n
<1>3. DOMAIN r = 1..(n - 1)
  BY <1>2, LenProperties
<1> HIDE DEF r, n
<1>4. \A i, j \in 1..n : s[i].key = s[j].key => i = j
  BY <1>1, Zenon DEF OpenWindows, Distinct
<1>5. \A j \in 1..(n - 1) : \/ j < at /\ j \in 1..n /\ r[j] = s[j]
                            \/ j >= at /\ j + 1 \in 1..n /\ j + 1 > at /\ r[j] = s[j + 1]
  <2> TAKE j \in 1..(n - 1)
  <2>1. j \in 1..n /\ j + 1 \in 1..n /\ (~(j < at) => j >= at /\ j + 1 > at)
    BY ONLY <1>1, j \in 1..(n - 1)
  <2>2. r[j] = IF j < at THEN s[j] ELSE s[j + 1]
    BY <1>2
  <2>3. QED
    BY ONLY <2>1, <2>2
<1>6. \A i, j \in 1..(n - 1) : r[i].key = r[j].key => i = j
  <2> SUFFICES ASSUME NEW i \in 1..(n - 1), NEW j \in 1..(n - 1), r[i].key = r[j].key
               PROVE  i = j
    OBVIOUS
  <2>1. PICK x \in 1..n : r[i] = s[x] /\ ((x = i /\ i < at) \/ (x = i + 1 /\ i >= at))
    BY ONLY <1>5, i \in 1..(n - 1)
  <2>2. PICK y \in 1..n : r[j] = s[y] /\ ((y = j /\ j < at) \/ (y = j + 1 /\ j >= at))
    BY ONLY <1>5, j \in 1..(n - 1)
  <2>3. x = y
    BY <1>4, <2>1, <2>2, Zenon
  <2>4. QED
    BY ONLY <1>1, <2>1, <2>2, <2>3, i \in 1..(n - 1), j \in 1..(n - 1)
<1>7. \A j \in 1..(n - 1) : ~Full(r[j].packets)
  <2>1. \A i \in 1..n : ~Full(s[i].packets)
    BY <1>1, Zenon DEF OpenWindows
  <2>2. QED
    BY ONLY <1>5, <2>1
<1>8. OpenWindows(r)
  BY <1>2, <1>3, <1>6, <1>7, Zenon DEF OpenWindows, Distinct
<1>9. ASSUME NEW f, f \in Range(r) PROVE f \in Range(s) /\ f.key # s[at].key
  <2>1. PICK j \in 1..(n - 1) : f = r[j]
    BY <1>2, <1>3, <1>9, Zenon DEF Range
  <2>2. n \in Nat /\ at \in 1..n
    BY <1>1, Zenon
  <2>3. PICK x \in 1..n : f = s[x] /\ x # at
    BY ONLY <1>5, <2>1, <2>2, j \in 1..(n - 1)
  <2>4. f.key # s[at].key
    BY ONLY <1>4, <2>2, <2>3
  <2>5. f \in Range(s)
    BY <1>1, <2>3, Zenon DEF Range
  <2>6. QED
    BY <2>4, <2>5
<1>10. ASSUME NEW f, f \in Range(s), f.key # s[at].key PROVE f \in Range(r)
  <2>1. PICK x \in 1..n : f = s[x]
    BY <1>1, <1>10, Zenon DEF Range
  <2>2. x # at
    BY <1>10, <2>1, Zenon
  <2>3. CASE x < at
    <3>1. x \in 1..(n - 1)
      BY ONLY <1>1, <2>3, x \in 1..n
    <3>2. r[x] = s[x]
      BY ONLY <1>2, <2>3, <3>1
    <3>3. QED
      BY <1>3, <2>1, <3>1, <3>2, Zenon DEF Range
  <2>4. CASE x > at
    <3>1. x - 1 \in 1..(n - 1) /\ ~(x - 1 < at) /\ x - 1 + 1 = x
      BY ONLY <1>1, <2>4, x \in 1..n
    <3>2. r[x - 1] = s[x]
      BY ONLY <1>2, <3>1
    <3>3. QED
      BY <1>3, <2>1, <3>1, <3>2, Zenon DEF Range
  <2>5. QED
    BY ONLY <1>1, <2>2, <2>3, <2>4, x \in 1..n
<1>11. QED
  BY <1>8, <1>9, <1>10, Zenon DEF r

\* An open window is replaced by another of its flow.
LEMMA ReplacedWindow ==
  ASSUME NEW s, OpenWindows(s), NEW at \in 1..Len(s), NEW e \in Window, e.key = s[at].key,
         ~Full(e.packets)
  PROVE  /\ OpenWindows(ReplaceAt(s, at, e))
         /\ \A f : f \in Range(ReplaceAt(s, at, e)) <=>
                     f = e \/ (f \in Range(s) /\ f.key # s[at].key)
<1> DEFINE r == [s EXCEPT ![at] = e]
           n == Len(s)
<1>1. s \in Seq(Window) /\ n \in Nat /\ at \in 1..n /\ DOMAIN s = 1..n
  BY LenProperties DEF OpenWindows
<1>2. r \in Seq(Window) /\ Len(r) = n /\ \A j \in 1..n : r[j] = IF j = at THEN e ELSE s[j]
  BY <1>1, ExceptSeq
<1>3. DOMAIN r = 1..n
  BY <1>2, LenProperties
<1>4. ReplaceAt(s, at, e) = r
  BY Zenon DEF ReplaceAt
<1> HIDE DEF r, n
<1>5. r[at] = e /\ \A j \in 1..n : j # at => r[j] = s[j]
  BY ONLY <1>1, <1>2
<1>6. \A i, j \in 1..n : s[i].key = s[j].key => i = j
  BY <1>1, Zenon DEF OpenWindows, Distinct
<1>7. \A i \in 1..n : r[i].key = s[i].key
  BY ONLY <1>1, <1>5, e.key = s[at].key
<1>8. Distinct(r)
  BY ONLY <1>3, <1>6, <1>7, Zenon DEF Distinct
<1>9. \A i \in 1..n : ~Full(r[i].packets)
  <2>1. \A i \in 1..n : ~Full(s[i].packets)
    BY <1>1, Zenon DEF OpenWindows
  <2>2. QED
    BY ONLY <1>1, <1>5, <2>1, ~Full(e.packets)
<1>10. OpenWindows(r)
  BY <1>2, <1>3, <1>8, <1>9, Zenon DEF OpenWindows
<1>11. \A f : f \in Range(r) <=> f = e \/ (f \in Range(s) /\ f.key # s[at].key)
  <2>1. \A f : f \in Range(r) <=> \E i \in 1..n : f = r[i]
    BY <1>3, Zenon DEF Range
  <2>2. \A f : f \in Range(s) <=> \E i \in 1..n : f = s[i]
    BY <1>1, Zenon DEF Range
  <2>3. \A i \in 1..n : s[i].key = s[at].key => i = at
    BY ONLY <1>1, <1>6
  <2>4. at \in 1..n
    BY <1>1, Zenon
  <2>5. QED
    BY ONLY <1>5, <2>1, <2>2, <2>3, <2>4
<1>12. QED
  BY ONLY <1>4, <1>10, <1>11, Zenon

\* A window of another flow is opened.
LEMMA AppendedWindow ==
  ASSUME NEW s, OpenWindows(s), NEW e \in Window, \A i \in 1..Len(s) : s[i].key # e.key,
         ~Full(e.packets)
  PROVE  /\ OpenWindows(Append(s, e))
         /\ \A f : f \in Range(Append(s, e)) <=> f = e \/ f \in Range(s)
<1> DEFINE r == Append(s, e)
           n == Len(s)
<1>1. s \in Seq(Window) /\ n \in Nat /\ DOMAIN s = 1..n
  BY LenProperties DEF OpenWindows
<1>2. r \in Seq(Window) /\ Len(r) = n + 1 /\ (\A j \in 1..n : r[j] = s[j]) /\ r[n + 1] = e
  BY <1>1, AppendProperties
<1>3. DOMAIN r = 1..(n + 1)
  BY <1>2, LenProperties
<1> HIDE DEF r, n
<1>4. /\ \A i \in 1..(n + 1) : i \in 1..n \/ i = n + 1
      /\ 1..n \subseteq 1..(n + 1) /\ n + 1 \in 1..(n + 1)
  BY ONLY <1>1
<1>5. \A i, j \in 1..n : s[i].key = s[j].key => i = j
  BY <1>1, Zenon DEF OpenWindows, Distinct
<1>6. \A i \in 1..n : s[i].key # e.key
  BY DEF n
<1>7. \A i, j \in 1..(n + 1) : r[i].key = r[j].key => i = j
  BY ONLY <1>2, <1>4, <1>5, <1>6, Zenon
<1>8. \A i \in 1..(n + 1) : ~Full(r[i].packets)
  <2>1. \A i \in 1..n : ~Full(s[i].packets)
    BY <1>1, Zenon DEF OpenWindows
  <2>2. QED
    BY ONLY <1>2, <1>4, <2>1, ~Full(e.packets), Zenon
<1>9. OpenWindows(r)
  BY <1>2, <1>3, <1>7, <1>8, Zenon DEF OpenWindows, Distinct
<1>10. \A f : f \in Range(r) <=> f = e \/ f \in Range(s)
  <2>1. \A f : f \in Range(r) <=> \E i \in 1..(n + 1) : f = r[i]
    BY <1>3, Zenon DEF Range
  <2>2. \A f : f \in Range(s) <=> \E i \in 1..n : f = s[i]
    BY <1>1, Zenon DEF Range
  <2>3. QED
    <3>1. (\A j \in 1..n : r[j] = s[j]) /\ r[n + 1] = e
      BY <1>2, Zenon
    <3>2. QED
      BY ONLY <1>4, <2>1, <2>2, <3>1
<1>11. QED
  BY <1>9, <1>10, Zenon DEF r

-----------------------------------------------------------------------------
(* What process_packet does to the windows.                                *)

\* Packet p of flow k goes to window w of its flow, and the windows stale are
\* finalised before: it starts one, replaces one that expired, or extends one.
Lands(k, p, w, stale) ==
  \/ /\ \A f \in Range(flows) : f.key # k
     /\ w = <<p>> /\ stale = <<>>
  \/ \E old \in Range(flows) :
       /\ old.key = k
       /\ \/ Expired(old, p) /\ w = <<p>> /\ stale = <<old>>
          \/ ~Expired(old, p) /\ w = Append(old.packets, p) /\ stale = <<>>

\* The windows finalised: the stale ones, and w if it is full.
Closed(k, w, stale) == stale \o (IF Full(w) THEN <<[key |-> k, packets |-> w]>> ELSE <<>>)

\* The open windows afterwards.
Kept(k, w, f) ==
  \/ f \in Range(flows) /\ f.key # k
  \/ ~Full(w) /\ f = [key |-> k, packets |-> w]

\* What process_packet does, by the windows it starts, extends and finalises.
LEMMA Processed ==
  ASSUME OpenWindows(flows), NEW k \in Flow, NEW p \in Packet, ProcessPacket(k, p)
  PROVE  \E w \in Seq(Packet) : \E stale :
           /\ Lands(k, p, w, stale)
           /\ \E done \in Extractions(Closed(k, w, stale)) : finalized' = finalized \o done
           /\ Posted(Len(finalized) + 1, Len(finalized) + Len(Closed(k, w, stale)))
           /\ OpenWindows(flows')
           /\ \A f : f \in Range(flows') <=> Kept(k, w, f)
<1> DEFINE at    == PlaceOf(k)
           exp   == at # 0 /\ Expired(flows[at], p)
           stale == IF exp THEN <<flows[at]>> ELSE <<>>
           w     == IF at = 0 \/ exp THEN <<p>> ELSE Append(flows[at].packets, p)
           open  == [key |-> k, packets |-> w]
<1>1. /\ flows' = CASE Full(w) /\ at # 0  -> RemoveAt(flows, at)
                    [] Full(w) /\ at = 0  -> flows
                    [] ~Full(w) /\ at # 0 -> ReplaceAt(flows, at, open)
                    [] ~Full(w) /\ at = 0 -> Append(flows, open)
      /\ \E done \in Extractions(Closed(k, w, stale)) : finalized' = finalized \o done
      /\ Posted(Len(finalized) + 1, Len(finalized) + Len(Closed(k, w, stale)))
  BY Zenon DEF ProcessPacket, Closed
<1>2. PICK n \in Nat : n = Len(flows) /\ DOMAIN flows = 1..n /\ flows \in [1..n -> Window]
  BY LenProperties DEF OpenWindows
<1>3. \/ at = 0 /\ \A i \in 1..n : flows[i].key # k
      \/ at \in 1..n /\ flows[at].key = k
  BY <1>2, PlaceIs, Zenon
<1>4. at = 0 \/ (at # 0 /\ at \in 1..n /\ flows[at].key = k)
  <2> HIDE DEF at
  <2>1. QED
    BY ONLY <1>3, n \in Nat
<1>5. \A f : f \in Range(flows) <=> \E i \in 1..n : f = flows[i]
  BY <1>2, Zenon DEF Range
<1>6. Lands(k, p, w, stale)
  <2>1. CASE at = 0
    <3>1. \A f \in Range(flows) : f.key # k
      <4>1. \A i \in 1..n : flows[i].key # k
        <5>1. 0 \notin 1..n
          BY ONLY n \in Nat
        <5>2. QED
          BY <1>3, <2>1, <5>1, Zenon
      <4>2. QED
        BY <1>5, <4>1, Zenon
    <3>2. w = <<p>> /\ stale = <<>>
      BY <2>1, Zenon
    <3>3. QED
      BY <3>1, <3>2, Zenon DEF Lands
  <2>2. CASE at # 0
    <3>1. flows[at] \in Range(flows) /\ flows[at].key = k
      BY <1>4, <1>5, <2>2, Zenon
    <3>2. CASE Expired(flows[at], p)
      <4>1. w = <<p>> /\ stale = <<flows[at]>>
        BY <2>2, <3>2, Zenon
      <4>2. QED
        BY <3>1, <3>2, <4>1, Zenon DEF Lands
    <3>3. CASE ~Expired(flows[at], p)
      <4>1. w = Append(flows[at].packets, p) /\ stale = <<>>
        BY <2>2, <3>3, Zenon
      <4>2. QED
        BY <3>1, <3>3, <4>1, Zenon DEF Lands
    <3>4. QED
      BY <3>2, <3>3, Zenon
  <2>3. QED
    BY <2>1, <2>2, Zenon
<1>7. w \in Seq(Packet)
  <2>1. CASE at = 0 \/ exp
    <3>1. w = <<p>>
      BY <2>1, Zenon
    <3>2. <<p>> \in Seq(Packet)
      OBVIOUS
    <3>3. QED
      BY ONLY <3>1, <3>2, Zenon
  <2>2. CASE ~(at = 0 \/ exp)
    <3>1. w = Append(flows[at].packets, p)
      BY <2>2, Zenon
    <3>2. flows[at] \in Window
      <4> HIDE DEF at
      <4>1. QED
        BY <1>2, <1>4, <2>2
    <3>3. flows[at].packets \in Seq(Packet)
      <4> HIDE DEF at
      <4>1. QED
        BY ONLY <3>2 DEF Window
    <3>4. Append(flows[at].packets, p) \in Seq(Packet)
      BY <3>3, AppendPacket, Zenon
    <3>5. QED
      BY ONLY <3>1, <3>4, Zenon
  <2>3. QED
    BY <2>1, <2>2, Zenon
<1> HIDE DEF at, exp, stale, w
<1>8. open \in Window /\ open.key = k /\ open.packets = w
  BY ONLY <1>7, k \in Flow DEF Window
<1>9. OpenWindows(flows') /\ \A f : f \in Range(flows') <=> Kept(k, w, f)
  <2>1. CASE at = 0
    <3>1. \A i \in 1..n : flows[i].key # k
      <4>1. 0 \notin 1..n
        BY ONLY n \in Nat
      <4>2. QED
        BY <1>3, <2>1, <4>1, Zenon
    <3>2. \A f \in Range(flows) : f.key # k
      BY <1>5, <3>1, Zenon
    <3>3. CASE Full(w)
      <4>1. flows' = flows
        BY ONLY <1>1, <2>1, <3>3
      <4>2. QED
        BY <3>2, <3>3, <4>1, Zenon DEF Kept
    <3>4. CASE ~Full(w)
      <4>1. flows' = Append(flows, open)
        BY ONLY <1>1, <2>1, <3>4
      <4>2. \A i \in 1..Len(flows) : flows[i].key # open.key
        BY <1>2, <1>8, <3>1, Zenon
      <4>3. ~Full(open.packets)
        BY <1>8, <3>4, Zenon
      <4>4. /\ OpenWindows(Append(flows, open))
            /\ \A f : f \in Range(Append(flows, open)) <=> f = open \/ f \in Range(flows)
        <5> HIDE DEF open
        <5>1. QED
          BY <1>8, <4>2, <4>3, AppendedWindow, Zenon
      <4>5. QED
        BY <3>2, <3>4, <4>1, <4>4, Zenon DEF Kept
    <3>5. QED
      BY <3>3, <3>4, Zenon
  <2>2. CASE at # 0
    <3>1. at \in 1..Len(flows) /\ flows[at].key = k
      BY <1>2, <1>4, <2>2, Zenon
    <3>2. CASE Full(w)
      <4>1. flows' = RemoveAt(flows, at)
        BY ONLY <1>1, <2>2, <3>2
      <4>2. /\ OpenWindows(RemoveAt(flows, at))
            /\ \A f : f \in Range(RemoveAt(flows, at)) <=>
                        f \in Range(flows) /\ f.key # flows[at].key
        BY <3>1, RemovedWindow, Zenon
      <4>3. QED
        BY <3>1, <3>2, <4>1, <4>2, Zenon DEF Kept
    <3>3. CASE ~Full(w)
      <4>1. flows' = ReplaceAt(flows, at, open)
        BY ONLY <1>1, <2>2, <3>3
      <4>2. open.key = flows[at].key /\ ~Full(open.packets)
        BY <1>8, <3>1, <3>3, Zenon
      <4>3. /\ OpenWindows(ReplaceAt(flows, at, open))
            /\ \A f : f \in Range(ReplaceAt(flows, at, open)) <=>
                        f = open \/ (f \in Range(flows) /\ f.key # flows[at].key)
        <5> HIDE DEF open
        <5>1. QED
          BY <1>8, <3>1, <4>2, ReplacedWindow, Zenon
      <4>4. QED
        BY <3>1, <3>3, <4>1, <4>3, Zenon DEF Kept
    <3>4. QED
      BY <3>2, <3>3, Zenon
  <2>3. QED
    BY <2>1, <2>2, Zenon
<1>10. QED
  BY ONLY <1>1, <1>6, <1>7, <1>9, Zenon

\* One stale window at most, and w: s and n of them.
ClosedAs(k, w, stale, ws, s, n) ==
  /\ Len(ws) = s + n /\ (n = 1 <=> Full(w))
  /\ s = 0 => stale = <<>>
  /\ s = 1 => \E old \in Range(flows) : old.key = k /\ stale = <<old>> /\ ws[1] = old
  /\ n = 1 => ws[s + 1] = [key |-> k, packets |-> w]

\* The finalised windows are a sequence of at most two.
LEMMA ClosedIs ==
  ASSUME OpenWindows(flows), NEW k \in Flow, NEW p, NEW w \in Seq(Packet), NEW stale,
         Lands(k, p, w, stale)
  PROVE  /\ Closed(k, w, stale) \in Seq(Window)
         /\ \E s \in {0, 1}, n \in {0, 1} : ClosedAs(k, w, stale, Closed(k, w, stale), s, n)
<1> DEFINE e  == [key |-> k, packets |-> w]
           ws == Closed(k, w, stale)
<1>1. e \in Window
  BY DEF Window
<1>2. \A f \in Range(flows) : f \in Window
  <2>1. flows \in Seq(Window)
    BY DEF OpenWindows
  <2>2. DOMAIN flows = 1..Len(flows) /\ \A i \in 1..Len(flows) : flows[i] \in Window
    BY <2>1, LenProperties, ElementOfSeq
  <2>3. QED
    BY <2>2, Zenon DEF Range
<1>3. stale = <<>> \/ \E old \in Range(flows) : old.key = k /\ stale = <<old>>
  BY Zenon DEF Lands
<1> HIDE DEF e
<1>4. CASE stale = <<>> /\ ~Full(w)
  <2>1. ws = <<>> \o <<>>
    BY <1>4 DEF Closed
  <2>2. ws \in Seq(Window) /\ Len(ws) = 0 + 0
    BY ONLY <2>1
  <2>3. QED
    BY <1>4, <2>2 DEF ClosedAs
<1>5. CASE stale = <<>> /\ Full(w)
  <2>1. ws = <<>> \o <<e>>
    BY <1>5 DEF Closed, e
  <2>2. ws \in Seq(Window) /\ Len(ws) = 0 + 1 /\ ws[0 + 1] = e
    BY ONLY <1>1, <2>1
  <2>3. QED
    BY <1>5, <2>2 DEF e, ClosedAs
<1>6. ASSUME NEW old \in Range(flows), old.key = k, stale = <<old>>, ~Full(w)
      PROVE  /\ ws \in Seq(Window) /\ Len(ws) = 1 + 0 /\ ws[1] = old
  <2>1. ws = <<old>> \o <<>> /\ old \in Window
    BY <1>2, <1>6 DEF Closed
  <2>2. QED
    BY ONLY <2>1
<1>7. ASSUME NEW old \in Range(flows), old.key = k, stale = <<old>>, Full(w)
      PROVE  /\ ws \in Seq(Window) /\ Len(ws) = 1 + 1 /\ ws[1] = old /\ ws[1 + 1] = e
  <2>1. ws = <<old>> \o <<e>> /\ old \in Window
    BY <1>2, <1>7 DEF Closed, e
  <2>2. QED
    BY ONLY <1>1, <2>1
<1>8. CASE stale # <<>>
  <2>1. PICK old \in Range(flows) : old.key = k /\ stale = <<old>>
    BY <1>3, <1>8, Zenon
  <2>2. CASE Full(w)
    <3>1. ws \in Seq(Window) /\ Len(ws) = 1 + 1 /\ ws[1] = old /\ ws[1 + 1] = e
      BY <1>7, <2>1, <2>2, Zenon
    <3>2. QED
      BY <2>1, <2>2, <3>1 DEF e, ClosedAs
  <2>3. CASE ~Full(w)
    <3>1. ws \in Seq(Window) /\ Len(ws) = 1 + 0 /\ ws[1] = old
      BY <1>6, <2>1, <2>3, Zenon
    <3>2. QED
      BY <2>1, <2>3, <3>1 DEF ClosedAs
  <2>4. QED
    BY <2>2, <2>3, Zenon
<1>9. QED
  BY <1>4, <1>5, <1>8, Zenon

\* Each finalised window is full, followed by another of its flow, or its flow
\* has a window open.
Continues(fin, open) ==
  \A i \in DOMAIN fin : \/ Len(fin[i].packets) = MaxPackets[source]
                        \/ ~LastOf(i, fin)
                        \/ \E f \in open : f.key = fin[i].key

\* The windows that are finalised before packet p is added to one.
LEMMA StaleCuts ==
  ASSUME NEW fin, NEW fin1, NEW open, NEW cap, NEW u, NEW L \in Nat, DOMAIN fin = 1..L,
         Cuts(fin, open, cap, u), NEW old \in open,
         DOMAIN fin1 = 1..(L + 1), \A i \in 1..L : fin1[i] = fin[i],
         fin1[L + 1].key = old.key, fin1[L + 1].packets = old.packets
  PROVE  Cuts(fin1, open \ {old}, cap, u)
<1> DEFINE fs == [a \in 1..1 |-> old]
<1>1. \A a \in 1..1 : a = 1 /\ fs[a] = old
  OBVIOUS
<1> HIDE DEF fs
<1>2. \A a \in 1..1 : /\ fs[a] \in open /\ fin1[L + a].key = fs[a].key
                      /\ fin1[L + a].packets = fs[a].packets
  BY <1>1, Zenon
<1>3. \A a, b \in 1..1 : fs[a].key = fs[b].key => a = b
  BY ONLY <1>1, Zenon
<1>4. \A f : f \in open \ {old} <=> f \in open /\ \A a \in 1..1 : f # fs[a]
  <2>1. 1 \in 1..1
    OBVIOUS
  <2>2. QED
    BY ONLY <1>1, <2>1
<1>5. 1 \in Nat
  OBVIOUS
<1> DEFINE left2 == open \ {old}
<1>6. \A f : f \in left2 <=> f \in open /\ \A a \in 1..1 : f # fs[a]
  BY <1>4
<1> HIDE DEF left2
<1>7. Finalises(fin, fin1, open, left2, L, 1, fs)
  BY <1>2, <1>3, <1>6, Zenon DEF Finalises
<1>8. Cuts(fin1, left2, cap, u)
  BY <1>5, <1>7, FinaliseWindows, Zenon
<1>9. QED
  BY <1>8 DEF left2

\* What Expired says of a window and the packet after it.
LEMMA ExpiredIs ==
  ASSUME NEW cap, NEW cap2, NEW k, NEW key, NEW p, NEW u \in Source, u = source,
         Grown(cap, cap2, k, p), NEW old, Sound(old.packets, key, cap, u)
  PROVE  /\ Expired(old, p) => CutAt(old.packets, <<p>>, u)
         /\ ~Expired(old, p) => p.ts - old.packets[Len(old.packets)].ts <= Timeout[u]
<1>1. p.ts \in Int
  BY DEF Grown, Packet
<1>2. PICK n \in Int : n = Len(old.packets) /\ n \in 1..MaxPackets[u] /\ old.packets[n] \in Packet
  <2>1. old.packets \in Seq(Packet) /\ Len(old.packets) \in 1..MaxPackets[u]
    BY Zenon DEF Sound
  <2>2. Len(old.packets) \in 1..Len(old.packets) /\ Len(old.packets) \in Int
    BY ONLY <2>1, u \in Source, Limits
  <2>3. QED
    BY <2>1, <2>2, ElementOfSeq
<1>3. old.packets[n].ts \in Int
  BY <1>2 DEF Packet
<1>4. Expired(old, p) <=> p.ts - old.packets[n].ts > Timeout[u]
  BY ONLY <1>2, u = source, Zenon DEF Expired, Last
<1>5. <<p>>[1] = p
  OBVIOUS
<1>6. Expired(old, p) => CutAt(old.packets, <<p>>, u)
  BY ONLY <1>2, <1>4, <1>5, Zenon DEF CutAt
<1>7. ~Expired(old, p) => p.ts - old.packets[n].ts <= Timeout[u]
  BY ONLY <1>1, <1>3, <1>4, u \in Source, Limits
<1>8. QED
  BY ONLY <1>2, <1>6, <1>7, Zenon

\* The finalised windows with the stale one, and the open ones with e.
StaleClosed(fin, fin1, L, stale) ==
  /\ stale = <<>> => fin1 = fin
  /\ \A old : stale = <<old>> =>
       /\ DOMAIN fin1 = 1..(L + 1) /\ \A i \in 1..L : fin1[i] = fin[i]
       /\ fin1[L + 1].key = old.key /\ fin1[L + 1].packets = old.packets
Joined(open, open1, k, e) == \A f : f \in open1 <=> (f \in open /\ f.key # k) \/ f = e

\* Packet p is added to a window, after a stale one was finalised.
LEMMA LandedCuts ==
  ASSUME NEW k, NEW p, NEW w, NEW stale, Lands(k, p, w, stale), OpenWindows(flows),
         NEW fin, NEW fin1, NEW L \in Nat, DOMAIN fin = 1..L,
         StaleClosed(fin, fin1, L, stale),
         NEW cap, NEW cap2, NEW u \in Source, u = source, NEW open, open = Range(flows),
         Cuts(fin, open, cap, u), Grown(cap, cap2, k, p), Continues(fin, open),
         NEW e, e = [key |-> k, packets |-> w],
         NEW open1, Joined(open, open1, k, e)
  PROVE  Cuts(fin1, open1, cap2, u)
<1> stale = <<>> => fin1 = fin
  BY Zenon DEF StaleClosed
<1> \A old : stale = <<old>> =>
      /\ DOMAIN fin1 = 1..(L + 1) /\ \A i \in 1..L : fin1[i] = fin[i]
      /\ fin1[L + 1].key = old.key /\ fin1[L + 1].packets = old.packets
  BY Zenon DEF StaleClosed
<1> \A f : f \in open1 <=> (f \in open /\ f.key # k) \/ f = e
  BY Zenon DEF Joined
<1>1. e.key = k /\ e.packets = w
  OBVIOUS
<1>2. \A f, g \in open : f.key = g.key => f = g
  BY Zenon DEF Cuts
<1>3. CASE (\A f \in open : f.key # k) /\ w = <<p>> /\ stale = <<>>
  <2>1. fin1 = fin /\ e.packets = <<p>>
    BY <1>1, <1>3, Zenon
  <2>2. \A i \in DOMAIN fin : fin[i].key = k /\ LastOf(i, fin) => CutAt(fin[i].packets, <<p>>, u)
    <3>1. \A i \in DOMAIN fin :
            fin[i].key = k /\ LastOf(i, fin) => Len(fin[i].packets) = MaxPackets[u]
      BY ONLY <1>3, Continues(fin, open), u = source, Zenon DEF Continues
    <3>2. QED
      BY ONLY <3>1, Zenon DEF CutAt
  <2>3. \A f \in open : f.key # k
    BY <1>3
  <2>4. Cuts(fin, open \cup {e}, cap2, u)
    BY ONLY <1>1, <2>1, <2>2, <2>3, Cuts(fin, open, cap, u), Grown(cap, cap2, k, p),
            u \in Source, StartWindow, Zenon
  <2>5. open1 = open \cup {e}
    BY <2>3
  <2>6. QED
    BY <2>1, <2>4, <2>5, Zenon
<1>4. ASSUME NEW old \in open, old.key = k, Expired(old, p), w = <<p>>, stale = <<old>>
      PROVE  Cuts(fin1, open1, cap2, u)
  <2>1. /\ DOMAIN fin1 = 1..(L + 1) /\ \A i \in 1..L : fin1[i] = fin[i]
        /\ fin1[L + 1].key = old.key /\ fin1[L + 1].packets = old.packets
    BY <1>4, Zenon
  <2> DEFINE rest == open \ {old}
  <2>2. Cuts(fin1, rest, cap, u)
    BY ONLY <2>1, L \in Nat, DOMAIN fin = 1..L, Cuts(fin, open, cap, u), old \in open, StaleCuts,
            Zenon
  <2>3. \A f \in rest : f.key # k
    BY <1>2, <1>4, Zenon
  <2>4. CutAt(old.packets, <<p>>, u)
    <3>1. Sound(old.packets, old.key, cap, u)
      BY Zenon DEF Cuts
    <3>2. QED
      BY <1>4, <3>1, ExpiredIs, Zenon
  <2>5. \A i \in DOMAIN fin1 :
          fin1[i].key = k /\ LastOf(i, fin1) => CutAt(fin1[i].packets, <<p>>, u)
    <3> SUFFICES ASSUME NEW i \in 1..(L + 1), fin1[i].key = k, LastOf(i, fin1)
                 PROVE  CutAt(fin1[i].packets, <<p>>, u)
      BY <2>1, Zenon
    <3>1. L + 1 \in 1..(L + 1) /\ (i # L + 1 => L + 1 > i)
      BY ONLY L \in Nat, i \in 1..(L + 1)
    <3>2. fin1[L + 1].key = k
      BY <1>4, <2>1, Zenon
    <3>3. i = L + 1
      BY <2>1, <3>1, <3>2, Zenon DEF LastOf
    <3>4. fin1[i].packets = old.packets
      BY ONLY <2>1, <3>3, Zenon
    <3>5. QED
      BY ONLY <2>4, <3>4, Zenon
  <2> HIDE DEF rest
  <2>6. e.packets = <<p>>
    BY <1>1, <1>4, Zenon
  <2>7. Cuts(fin1, rest \cup {e}, cap2, u)
    BY ONLY <1>1, <2>2, <2>3, <2>5, <2>6, Grown(cap, cap2, k, p), u \in Source, StartWindow,
            Zenon
  <2>8. open1 = rest \cup {e}
    <3>1. \A f : f \in open1 <=> f \in rest \/ f = e
      <4>1. \A f : f \in rest <=> f \in open /\ f.key # k
        BY <1>2, <1>4, Zenon DEF rest
      <4>2. QED
        BY <4>1, Zenon
    <3>2. QED
      BY <3>1
  <2>9. QED
    BY <2>7, <2>8, Zenon
<1>5. ASSUME NEW old \in open, old.key = k, ~Expired(old, p), w = Append(old.packets, p),
             stale = <<>>
      PROVE  Cuts(fin1, open1, cap2, u)
  <2>1. fin1 = fin /\ e.packets = Append(old.packets, p)
    BY <1>1, <1>5, Zenon
  <2>2. p.ts - old.packets[Len(old.packets)].ts <= Timeout[u]
    <3>1. Sound(old.packets, old.key, cap, u)
      BY Zenon DEF Cuts
    <3>2. QED
      BY <1>5, <3>1, ExpiredIs, Zenon
  <2>3. Len(old.packets) < MaxPackets[u]
    <3>1. ~Full(old.packets)
      BY Zenon DEF OpenWindows, Range
    <3>2. Sound(old.packets, old.key, cap, u)
      BY Zenon DEF Cuts
    <3>3. Len(old.packets) \in 1..MaxPackets[u]
      BY <3>2, Zenon DEF Sound
    <3>4. MaxPackets[u] \in Nat \ {0}
      BY Limits
    <3>5. ~(Len(old.packets) >= MaxPackets[u])
      BY ONLY <3>1, u = source, Zenon DEF Full
    <3>6. QED
      BY ONLY <3>3, <3>4, <3>5
  <2>4. Cuts(fin, (open \ {old}) \cup {e}, cap2, u)
    BY ONLY <1>1, <1>5, <2>1, <2>2, <2>3, old \in open, Cuts(fin, open, cap, u),
            Grown(cap, cap2, k, p), ExtendWindow, Zenon
  <2>5. open1 = (open \ {old}) \cup {e}
    <3>1. \A f : f \in open1 <=> (f \in open /\ f # old) \/ f = e
      BY <1>2, <1>5, Zenon
    <3>2. QED
      BY <3>1
  <2>6. QED
    BY <2>1, <2>4, <2>5, Zenon
<1>6. QED
  BY <1>3, <1>4, <1>5, Zenon DEF Lands

\* A packet is processed.
LEMMA ReadCuts ==
  ASSUME OpenWindows(flows), NEW u \in Source, u = source,
         Cuts(finalized, Range(flows), captured, u), Continues(finalized, Range(flows)),
         NEW k \in Flow, NEW p, NEW cap2, Grown(captured, cap2, k, p),
         NEW w \in Seq(Packet), NEW stale, Lands(k, p, w, stale),
         NEW L \in Nat, L = Len(finalized), finalized \in Seq(Finalised),
         NEW done \in Extractions(Closed(k, w, stale)), NEW fin2, fin2 = finalized \o done,
         NEW open2, \A f : f \in open2 <=> Kept(k, w, f)
  PROVE  Cuts(fin2, open2, cap2, u) /\ Continues(fin2, open2)
<1> DEFINE e  == [key |-> k, packets |-> w]
           ws == Closed(k, w, stale)
           open == Range(flows)
<1>1. ws \in Seq(Window) /\ \E s \in {0, 1}, n \in {0, 1} : ClosedAs(k, w, stale, ws, s, n)
  BY ClosedIs, Zenon
<1>2a. PICK s \in {0, 1}, n \in {0, 1} : ClosedAs(k, w, stale, ws, s, n)
  BY <1>1, Zenon
<1>2. /\ Len(ws) = s + n /\ (n = 1 <=> Full(w))
      /\ s = 0 => stale = <<>>
      /\ s = 1 => \E old \in open : old.key = k /\ stale = <<old>> /\ ws[1] = old
      /\ n = 1 => ws[s + 1] = e
  <2> HIDE DEF ws
  <2>1. QED
    BY ONLY <1>2a, Zenon DEF ClosedAs, open, e
<1>3. PICK m \in Nat : m = s + n
  BY ONLY s \in {0, 1}, n \in {0, 1}
<1>4. DOMAIN finalized = 1..L
  BY LenProperties
<1>5. /\ DOMAIN fin2 = 1..(L + m) /\ \A i \in 1..L : fin2[i] = finalized[i]
      /\ \A a \in 1..m : fin2[L + a].key = ws[a].key /\ fin2[L + a].packets = ws[a].packets
  <2>1. m = Len(ws)
    BY <1>2, <1>3, Zenon
  <2> HIDE DEF ws
  <2>2. done \in Extractions(ws)
    BY DEF ws
  <2>3. QED
    <3>1. Extracts(ws, m, L, fin2)
      BY <1>1, <2>1, <2>2, Extracted, Zenon
    <3>2. QED
      BY ONLY <3>1, Zenon DEF Extracts
<1>6. e.key = k /\ e.packets = w
  OBVIOUS
<1> HIDE DEF e, ws, open
<1>7. \A old : stale = <<old>> => s = 1 /\ old.key = k /\ ws[1] = old /\ 1 \in 1..m
  <2> SUFFICES ASSUME NEW old, stale = <<old>>
               PROVE  s = 1 /\ old.key = k /\ ws[1] = old /\ 1 \in 1..m
    OBVIOUS
  <2>1. s = 1
    <3>1. <<old>> # <<>>
      OBVIOUS
    <3>2. s # 0
      BY ONLY <1>2, <3>1, stale = <<old>>
    <3>3. QED
      BY ONLY <3>2, s \in {0, 1}
  <2>2. PICK x \in open : x.key = k /\ stale = <<x>> /\ ws[1] = x
    BY ONLY <1>2, <2>1
  <2>3. x = old
    BY ONLY <2>2, stale = <<old>>
  <2>4. 1 \in 1..m
    BY ONLY <1>3, <2>1, n \in {0, 1}
  <2>5. QED
    BY ONLY <2>1, <2>2, <2>3, <2>4, Zenon
<1> DEFINE fin1 == IF stale = <<>> THEN finalized ELSE [i \in 1..(L + 1) |-> fin2[i]]
           open1 == {f \in open : f.key # k} \cup {e}
<1>8. \A old : stale = <<old>> =>
           /\ DOMAIN fin1 = 1..(L + 1) /\ \A i \in 1..L : fin1[i] = finalized[i]
           /\ fin1[L + 1].key = old.key /\ fin1[L + 1].packets = old.packets
  <2> SUFFICES ASSUME NEW old, stale = <<old>>
               PROVE  /\ DOMAIN fin1 = 1..(L + 1) /\ \A i \in 1..L : fin1[i] = finalized[i]
                      /\ fin1[L + 1].key = old.key /\ fin1[L + 1].packets = old.packets
    OBVIOUS
  <2>1. fin1 = [i \in 1..(L + 1) |-> fin2[i]]
    OBVIOUS
  <2>2. L + 1 \in 1..(L + 1) /\ 1..L \subseteq 1..(L + 1)
    BY ONLY L \in Nat
  <2> HIDE DEF fin1
  <2>3. DOMAIN fin1 = 1..(L + 1) /\ \A i \in 1..L : fin1[i] = finalized[i]
    BY ONLY <1>5, <2>1, <2>2
  <2>4. fin1[L + 1] = fin2[L + 1]
    BY ONLY <2>1, <2>2
  <2>5. fin2[L + 1].key = old.key /\ fin2[L + 1].packets = old.packets
    BY ONLY <1>5, <1>7, stale = <<old>>
  <2>6. QED
    BY ONLY <2>3, <2>4, <2>5, Zenon
<1>9. Cuts(fin1, open1, cap2, u)
  <2>1. stale = <<>> => fin1 = finalized
    OBVIOUS
  <2>2. \A f : f \in open1 <=> (f \in open /\ f.key # k) \/ f = e
    OBVIOUS
  <2> HIDE DEF fin1, open1
  <2>3. Cuts(finalized, open, captured, u) /\ Continues(finalized, open) /\ open = Range(flows)
    BY DEF open
  <2>4. e = [key |-> k, packets |-> w]
    BY DEF e
  <2>5. StaleClosed(finalized, fin1, L, stale) /\ Joined(open, open1, k, e)
    BY ONLY <1>8, <2>1, <2>2, Zenon DEF StaleClosed, Joined
  <2>6. QED
    BY <1>4, <2>3, <2>4, <2>5, LandedCuts, Zenon
<1>10. PICK l \in Nat : l = L + s
  BY ONLY L \in Nat, s \in {0, 1}
<1>11. DOMAIN fin1 = 1..l /\ DOMAIN fin2 = 1..(l + n) /\ \A i \in 1..l : fin2[i] = fin1[i]
  <2>1. l + n = L + m
    BY ONLY <1>3, <1>10, L \in Nat, s \in {0, 1}, n \in {0, 1}
  <2>2. CASE s = 0
    <3>1. fin1 = finalized
      BY <1>2, <2>2
    <3>2. l = L
      BY ONLY <1>10, <2>2, L \in Nat
    <3> HIDE DEF fin1
    <3>3. QED
      BY ONLY <1>4, <1>5, <2>1, <3>1, <3>2
  <2>3. CASE s = 1
    <3>1. PICK old \in open : stale = <<old>>
      BY <1>2, <2>3, Zenon
    <3>2. fin1 = [i \in 1..(L + 1) |-> fin2[i]]
      BY <3>1
    <3>3. l = L + 1
      BY ONLY <1>10, <2>3
    <3> HIDE DEF fin1
    <3>4. QED
      BY ONLY <1>5, <2>1, <3>2, <3>3
  <2>4. QED
    BY ONLY <2>2, <2>3, s \in {0, 1}
<1>12. n = 1 => /\ fin2[l + 1].key = k /\ fin2[l + 1].packets = w
                /\ l + 1 = L + m /\ l + 1 \in 1..(L + m)
  <2> SUFFICES ASSUME n = 1
               PROVE  /\ fin2[l + 1].key = k /\ fin2[l + 1].packets = w
                      /\ l + 1 = L + m /\ l + 1 \in 1..(L + m)
    OBVIOUS
  <2>1. l + 1 = L + (s + 1) /\ s + 1 \in 1..m /\ l + 1 = L + m /\ l + 1 \in 1..(L + m)
    BY ONLY <1>3, <1>10, L \in Nat, n = 1, s \in {0, 1}
  <2>2. ws[s + 1] = e
    BY ONLY <1>2, n = 1
  <2>3. QED
    BY ONLY <1>5, <1>6, <2>1, <2>2
<1>13. Cuts(fin2, open2, cap2, u)
  <2> DEFINE fs == [a \in 1..n |-> e]
  <2>1. \A a \in 1..n : fs[a] = e /\ a = 1 /\ n = 1
    BY n \in {0, 1}
  <2> HIDE DEF fs, fin1
  <2>2. \A a \in 1..n : /\ fs[a] \in open1 /\ fin2[l + a].key = fs[a].key
                        /\ fin2[l + a].packets = fs[a].packets
    <3>1. e \in open1
      OBVIOUS
    <3>2. QED
      BY ONLY <1>6, <1>12, <2>1, <3>1
  <2>3. \A a, b \in 1..n : fs[a].key = fs[b].key => a = b
    BY ONLY <2>1, Zenon
  <2>4. \A f : f \in open2 <=> f \in open1 /\ \A a \in 1..n : f # fs[a]
    <3>1. \A f : f \in open2 <=> (f \in open /\ f.key # k) \/ (~Full(w) /\ f = e)
      BY DEF Kept, open, e
    <3>2. \A f : f \in open1 <=> (f \in open /\ f.key # k) \/ f = e
      OBVIOUS
    <3>3. CASE n = 1
      <4>1. 1 \in 1..n
        BY <3>3
      <4>2. Full(w)
        BY <1>2, <3>3, Zenon
      <4>3. fs[1] = e /\ \A a \in 1..n : fs[a] = e
        BY <2>1, <4>1, Zenon
      <4>4. e.key = k
        BY <1>6
      <4>5. QED
        BY ONLY <3>1, <3>2, <4>1, <4>2, <4>3, <4>4, Zenon
    <3>4. CASE n = 0
      <4>1. ~ \E a \in 1..n : TRUE
        BY <3>4
      <4>2. ~Full(w)
        BY ONLY <1>2, <3>4
      <4>3. QED
        BY ONLY <3>1, <3>2, <4>1, <4>2, Zenon
    <3>5. QED
      BY ONLY <3>3, <3>4, n \in {0, 1}
  <2> HIDE DEF open1
  <2>5. n \in Nat
    BY ONLY n \in {0, 1}
  <2>6. QED
    <3>1. Finalises(fin1, fin2, open1, open2, l, n, fs)
      BY ONLY <1>11, <2>2, <2>3, <2>4, Zenon DEF Finalises
    <3>2. QED
      BY ONLY <1>9, <2>5, <3>1, l \in Nat, FinaliseWindows, Zenon
<1>14. Continues(fin2, open2)
  <2> HIDE DEF fin1, open1
  <2>1. ASSUME NEW i \in 1..(L + m), fin2[i].key = k
        PROVE  \/ Len(fin2[i].packets) = MaxPackets[source] \/ ~LastOf(i, fin2)
               \/ \E f \in open2 : f.key = fin2[i].key
    <3>1. CASE ~Full(w)
      <4>1. e \in open2
        BY <3>1, Zenon DEF Kept, e
      <4>2. QED
        BY <1>6, <2>1, <4>1, Zenon
    <3>2. CASE Full(w) /\ i = L + m
      <4>1. fin2[i].packets = w
        BY ONLY <1>2, <1>12, <3>2
      <4>2. Sound(fin2[i].packets, fin2[i].key, cap2, u)
        BY <1>5, <1>13, Zenon DEF Cuts
      <4>3. Len(w) \in 1..MaxPackets[u]
        BY ONLY <4>1, <4>2, Zenon DEF Sound
      <4>4. Len(w) >= MaxPackets[u] /\ MaxPackets[u] \in Nat \ {0}
        BY <3>2, Limits DEF Full
      <4>5. Len(w) = MaxPackets[u]
        BY ONLY <4>3, <4>4
      <4>6. QED
        BY ONLY <4>1, <4>5, u = source, Zenon
    <3>3. CASE Full(w) /\ i # L + m
      <4>1. fin2[L + m].key = k /\ L + m \in 1..(L + m)
        BY ONLY <1>2, <1>12, <3>3
      <4>2. L + m > i
        BY ONLY <3>3, L \in Nat, m \in Nat, i \in 1..(L + m)
      <4>3. ~LastOf(i, fin2)
        BY ONLY <1>5, <2>1, <4>1, <4>2, Zenon DEF LastOf
      <4>4. QED
        BY <4>3, Zenon
    <3>4. QED
      BY <3>1, <3>2, <3>3, Zenon
  <2>2. \A a \in 1..m : ws[a].key = k
    <3> SUFFICES ASSUME NEW a \in 1..m PROVE ws[a].key = k
      OBVIOUS
    <3>1. (a = 1 /\ s = 1) \/ (a = s + 1 /\ n = 1)
      BY ONLY <1>3, s \in {0, 1}, n \in {0, 1}, a \in 1..m
    <3>2. QED
      BY ONLY <1>2, <1>6, <3>1
  <2>3. ASSUME NEW i \in 1..(L + m), fin2[i].key # k
        PROVE  \/ Len(fin2[i].packets) = MaxPackets[source] \/ ~LastOf(i, fin2)
               \/ \E f \in open2 : f.key = fin2[i].key
    <3>1. i \in 1..L
      <4>1. i \in 1..L \/ (i - L \in 1..m /\ i = L + (i - L))
        BY ONLY L \in Nat, m \in Nat, i \in 1..(L + m)
      <4>2. QED
        BY ONLY <1>5, <2>2, <2>3, <4>1
    <3>2. fin2[i] = finalized[i]
      BY <1>5, <3>1, Zenon
    <3>3. \/ Len(finalized[i].packets) = MaxPackets[source] \/ ~LastOf(i, finalized)
          \/ \E f \in open : f.key = finalized[i].key
      BY <1>4, <3>1, Zenon DEF Continues, open
    <3>4. LastOf(i, fin2) => LastOf(i, finalized)
      <4>1. 1..L \subseteq 1..(L + m)
        BY ONLY L \in Nat, m \in Nat
      <4>2. QED
        BY ONLY <1>4, <1>5, <3>1, <4>1, Zenon DEF LastOf
    <3>5. ASSUME NEW f \in open, f.key = finalized[i].key PROVE f \in open2
      <4>1. f.key # k
        BY ONLY <2>3, <3>2, <3>5, Zenon
      <4>2. QED
        BY <4>1, Zenon DEF Kept, open
    <3>6. QED
      BY ONLY <3>2, <3>3, <3>4, <3>5
  <2>4. QED
    BY <1>5, <2>1, <2>3, Zenon DEF Continues
<1>15. QED
  BY <1>13, <1>14

\* What is said of the finalised windows stays true when more are finalised.
LEMMA JudgedExtended ==
  ASSUME NEW ws, NEW m \in Nat, NEW L \in Nat, NEW fin2, Extracts(ws, m, L, fin2),
         \A i \in 1..L : Judged(finalized[i]) /\ BurstAt(i, finalized)
  PROVE  \A i \in DOMAIN fin2 : Judged(fin2[i]) /\ BurstAt(i, fin2)
<1>1. /\ DOMAIN fin2 = 1..(L + m) /\ \A i \in 1..L : fin2[i] = finalized[i]
      /\ \A a \in 1..m : Judged(fin2[L + a]) /\ BurstAt(L + a, fin2)
  BY Zenon DEF Extracts
<1>2. \A i \in 1..(L + m) : i \in 1..L \/ \E a \in 1..m : i = L + a
  <2> TAKE i \in 1..(L + m)
  <2>1. i \in 1..L \/ (i - L \in 1..m /\ i = L + (i - L))
    BY ONLY L \in Nat, m \in Nat, i \in 1..(L + m)
  <2>2. QED
    BY <2>1, Zenon
<1>3. ASSUME NEW i \in 1..L PROVE Judged(fin2[i]) /\ BurstAt(i, fin2)
  <2>1. Judged(fin2[i])
    BY <1>1, <1>3, Zenon
  <2>2. \A j \in 1..(i - 1) : fin2[j] = finalized[j]
    <3>1. 1..(i - 1) \subseteq 1..L
      BY ONLY L \in Nat, i \in 1..L
    <3>2. QED
      BY <1>1, <3>1, Zenon
  <2>3. fin2[i] = finalized[i] /\ BurstAt(i, finalized)
    BY <1>1, <1>3, Zenon
  <2>4. QED
    BY ONLY <2>1, <2>2, <2>3, Zenon DEF BurstAt
<1>4. QED
  BY <1>1, <1>2, <1>3, Zenon

\* At the end of the capture all open windows are finalised.
LEMMA FlushCuts ==
  ASSUME OpenWindows(flows), NEW cap, NEW u, Cuts(finalized, Range(flows), cap, u),
         NEW L \in Nat, DOMAIN finalized = 1..L,
         NEW n \in Nat, n = Len(flows), NEW fin2, Extracts(flows, n, L, fin2)
  PROVE  Cuts(fin2, {}, cap, u)
<1>1. DOMAIN flows = 1..n /\ \A f : f \in Range(flows) <=> \E a \in 1..n : f = flows[a]
  BY LenProperties, Members DEF OpenWindows
<1>2. \A a, b \in 1..n : flows[a].key = flows[b].key => a = b
  BY <1>1, Zenon DEF OpenWindows, Distinct
<1>3. /\ DOMAIN fin2 = 1..(L + n) /\ \A i \in 1..L : fin2[i] = finalized[i]
      /\ \A a \in 1..n : fin2[L + a].key = flows[a].key /\ fin2[L + a].packets = flows[a].packets
  BY Zenon DEF Extracts
<1> DEFINE none == {}
<1>4. \A f : f \in none <=> f \in Range(flows) /\ \A a \in 1..n : f # flows[a]
  BY <1>1, Zenon
<1> HIDE DEF none
<1>5. Finalises(finalized, fin2, Range(flows), none, L, n, flows)
  BY <1>1, <1>2, <1>3, <1>4, Zenon DEF Finalises
<1>6. Cuts(fin2, none, cap, u)
  BY <1>5, FinaliseWindows, Zenon
<1>7. QED
  BY <1>6 DEF none

\* The windows whose flow has gone on, or that are full: those posted before
\* the capture was read to its end.
ClosedAt(i, fin) == Len(fin[i].packets) = MaxPackets[source] \/ ~LastOf(i, fin)

\* At the end of the capture those were closed that had been finalised before.
LEMMA FlushCloses ==
  ASSUME OpenWindows(flows), Continues(finalized, Range(flows)), source \in Source,
         NEW L \in Nat, DOMAIN finalized = 1..L,
         NEW n \in Nat, n = Len(flows), NEW fin2, Extracts(flows, n, L, fin2)
  PROVE  \A i \in DOMAIN fin2 : ClosedAt(i, fin2) <=> i \in 1..L
<1>1. DOMAIN flows = 1..n /\ \A f : f \in Range(flows) <=> \E a \in 1..n : f = flows[a]
  BY LenProperties, Members DEF OpenWindows
<1>2. /\ \A a, b \in 1..n : flows[a].key = flows[b].key => a = b
      /\ \A a \in 1..n : Len(flows[a].packets) # MaxPackets[source]
  <2>1. \A a \in 1..n : Len(flows[a].packets) # MaxPackets[source]
    <3>1. \A a \in 1..n : ~(Len(flows[a].packets) >= MaxPackets[source])
      BY <1>1, Zenon DEF OpenWindows, Full
    <3>2. MaxPackets[source] >= MaxPackets[source]
      <4>1. MaxPackets[source] \in Nat \ {0}
        BY Limits
      <4>2. QED
        BY ONLY <4>1
    <3>3. QED
      BY ONLY <3>1, <3>2, Zenon
  <2>2. QED
    BY <1>1, <2>1, Zenon DEF OpenWindows, Distinct
<1>3. /\ DOMAIN fin2 = 1..(L + n) /\ \A i \in 1..L : fin2[i] = finalized[i]
      /\ \A a \in 1..n : fin2[L + a].key = flows[a].key /\ fin2[L + a].packets = flows[a].packets
  BY Zenon DEF Extracts
<1>4. /\ \A i \in 1..(L + n) : i \in 1..L \/ \E a \in 1..n : i = L + a
      /\ 1..L \subseteq 1..(L + n)
      /\ \A a \in 1..n : L + a \in 1..(L + n) /\ L + a \notin 1..L /\ \A i \in 1..L : L + a > i
  <2>1. \A i \in 1..(L + n) : i \in 1..L \/ \E a \in 1..n : i = L + a
    <3> TAKE i \in 1..(L + n)
    <3>1. i \in 1..L \/ (i - L \in 1..n /\ i = L + (i - L))
      BY ONLY L \in Nat, n \in Nat, i \in 1..(L + n)
    <3>2. QED
      BY <3>1, Zenon
  <2>2. /\ 1..L \subseteq 1..(L + n)
        /\ \A a \in 1..n : L + a \in 1..(L + n) /\ L + a \notin 1..L /\ \A i \in 1..L : L + a > i
    BY ONLY L \in Nat, n \in Nat
  <2>3. QED
    BY <2>1, <2>2
<1>5. ASSUME NEW i \in 1..L PROVE ClosedAt(i, fin2)
  <2>1. fin2[i] = finalized[i]
    BY <1>3, Zenon
  <2>2. \/ Len(finalized[i].packets) = MaxPackets[source] \/ ~LastOf(i, finalized)
        \/ \E f \in Range(flows) : f.key = finalized[i].key
    BY Zenon DEF Continues
  <2>3. CASE ~LastOf(i, finalized)
    <3>1. PICK j \in 1..L : j > i /\ finalized[j].key = finalized[i].key
      BY <2>3, Zenon DEF LastOf
    <3>2. fin2[j].key = fin2[i].key /\ j \in 1..(L + n)
      BY <1>3, <1>4, <2>1, <3>1, Zenon
    <3>3. QED
      BY <1>3, <3>1, <3>2, Zenon DEF LastOf, ClosedAt
  <2>4. CASE \E f \in Range(flows) : f.key = finalized[i].key
    <3>1. PICK a \in 1..n : flows[a].key = finalized[i].key
      <4>1. PICK f \in Range(flows) : f.key = finalized[i].key
        BY <2>4
      <4>2. PICK a \in 1..n : f = flows[a]
        BY ONLY <1>1, f \in Range(flows)
      <4>3. QED
        BY ONLY <4>1, <4>2, a \in 1..n, Zenon
    <3>2. fin2[L + a].key = fin2[i].key /\ L + a \in 1..(L + n) /\ L + a > i
      BY <1>3, <1>4, <2>1, <3>1, Zenon
    <3>3. QED
      BY <1>3, <3>2, Zenon DEF LastOf, ClosedAt
  <2>5. QED
    BY <2>1, <2>2, <2>3, <2>4, Zenon DEF ClosedAt
<1>6. ASSUME NEW a \in 1..n PROVE ~ClosedAt(L + a, fin2)
  <2>1. Len(fin2[L + a].packets) # MaxPackets[source]
    BY <1>2, <1>3, Zenon
  <2>2. ASSUME NEW j \in 1..(L + n), j > L + a PROVE fin2[j].key # fin2[L + a].key
    <3>1. PICK b \in 1..n : j = L + b
      <4>1. j \notin 1..L
        BY ONLY <2>2, L \in Nat, a \in 1..n
      <4>2. QED
        BY <1>4, <4>1, Zenon
    <3>2. b # a
      <4>1. b > a
        BY ONLY <2>2, <3>1, L \in Nat, a \in 1..n, b \in 1..n
      <4>2. QED
        BY ONLY <4>1, a \in 1..n
    <3>3. fin2[j].key = flows[b].key /\ fin2[L + a].key = flows[a].key
      BY ONLY <1>3, <3>1, a \in 1..n, b \in 1..n
    <3>4. flows[a].key = flows[b].key => a = b
      BY ONLY <1>2, a \in 1..n, b \in 1..n, Zenon
    <3>5. QED
      BY ONLY <3>2, <3>3, <3>4
  <2>3. LastOf(L + a, fin2)
    BY <1>3, <2>2, Zenon DEF LastOf
  <2>4. QED
    BY ONLY <2>1, <2>3, Zenon DEF ClosedAt
<1>7. ASSUME NEW i \in 1..(L + n) PROVE ClosedAt(i, fin2) <=> i \in 1..L
  <2>1. CASE i \in 1..L
    BY <1>5, <2>1, Zenon
  <2>2. CASE i \notin 1..L
    <3>1. PICK a \in 1..n : i = L + a
      BY <1>4, <2>2, Zenon
    <3>2. QED
      BY ONLY <1>6, <2>2, <3>1, a \in 1..n
  <2>3. QED
    BY <2>1, <2>2, Zenon
<1>8. QED
  BY <1>3, <1>7, Zenon

-----------------------------------------------------------------------------
(* The inductive invariant.                                                *)

\* The windows divide the packets, and until the flush every flow goes on.
WindowsInv ==
  /\ OpenWindows(flows) /\ finalized \in Seq(Finalised)
  /\ captured \in Seq([key : Flow, packet : Packet])
  /\ Cuts(finalized, Range(flows), captured, source)
  /\ phase \in {"submitted", "reading"} => Continues(finalized, Range(flows))
  /\ \A i \in DOMAIN finalized : Judged(finalized[i]) /\ BurstAt(i, finalized)

\* What each phase has done and has not.
PhaseInv ==
  /\ source \in Source /\ phase \in {"submitted", "reading", "flushed", "done"}
  /\ left \in 0..MaxRecords /\ clock \in Int /\ outcome \in {0, 201, 400, 422, 500}
  /\ outcome # 0 => phase = "done"
  /\ phase = "submitted" => finalized = <<>>
  /\ phase # "reading" => flows = <<>>
  /\ source \in Replay => phase # "flushed"

\* An upload is stored whole or not at all; what the script has posted is
\* stored when it arrived and was valid.
StoredInv ==
  /\ stored \subseteq DOMAIN finalized /\ unreached \subseteq DOMAIN finalized
  /\ source \in Upload =>
       /\ outcome = 201 => stored = DOMAIN finalized
       /\ outcome # 201 => stored = {}
       /\ outcome = 500 => \E i \in DOMAIN finalized : ~Valid(finalized[i])
  /\ source \in Replay =>
       \A i \in DOMAIN finalized :
         i \in stored <=> /\ i \notin unreached /\ Valid(finalized[i])
                          /\ phase = "done" => ClosedAt(i, finalized)

Inv == WindowsInv /\ PhaseInv /\ StoredInv

\* Initially there is no window and no packet.
LEMMA InitInv == Init => Inv
<1> SUFFICES ASSUME Init PROVE Inv
  OBVIOUS
<1>1. /\ flows = <<>> /\ finalized = <<>> /\ captured = <<>>
      /\ <<>> \in Seq(Window) /\ <<>> \in Seq(Finalised)
      /\ <<>> \in Seq([key : Flow, packet : Packet]) /\ DOMAIN <<>> = {}
  BY DEF Init
<1>2. Range(flows) = {}
  BY <1>1 DEF Range
<1>3. WindowsInv
  <2>1. OpenWindows(flows)
    BY ONLY <1>1, Zenon DEF OpenWindows, Distinct
  <2>2. Cuts(finalized, Range(flows), captured, source)
    BY ONLY <1>1, <1>2, Zenon DEF Cuts
  <2>3. Continues(finalized, Range(flows))
    BY ONLY <1>1, Zenon DEF Continues
  <2>4. QED
    BY ONLY <1>1, <2>1, <2>2, <2>3, Zenon DEF WindowsInv
<1>4. PhaseInv
  BY TimeAssumption, LimitAssumption DEF Init, PhaseInv
<1>5. StoredInv
  BY <1>1 DEF Init, StoredInv
<1>6. QED
  BY <1>3, <1>4, <1>5, Zenon DEF Inv

\* The next packet of the capture.
LEMMA NextPacket ==
  ASSUME captured \in Seq([key : Flow, packet : Packet]), clock \in Int,
         NEW k \in Flow, NEW h \in Header, NEW gap \in Gap, NEW p,
         p = [ts |-> clock + gap, flags |-> h.flags, ttl |-> h.ttl, no |-> Len(captured) + 1],
         NEW cap2, cap2 = Append(captured, [key |-> k, packet |-> p])
  PROVE  /\ p \in Packet /\ Grown(captured, cap2, k, p)
         /\ cap2 \in Seq([key : Flow, packet : Packet])
<1> DEFINE C == [key : Flow, packet : Packet]
           e == [key |-> k, packet |-> p]
<1>1. PICK n \in Nat : n = Len(captured) /\ DOMAIN captured = 1..n
  BY LenProperties
<1>2. clock + gap \in Int /\ n + 1 \in Nat \ {0}
  BY ONLY clock \in Int, gap \in Gap, TimeAssumption, n \in Nat
<1>3. h.flags \in SUBSET {"SYN", "ACK", "FIN", "RST", "PSH", "URG"} /\ h.ttl \in 0..255
  BY ONLY h \in Header, HeaderAssumption
<1>4. p \in Packet /\ p.no = n + 1
  BY ONLY <1>1, <1>2, <1>3,
          p = [ts |-> clock + gap, flags |-> h.flags, ttl |-> h.ttl, no |-> Len(captured) + 1]
     DEF Packet
<1>5. e \in C
  BY ONLY <1>4, k \in Flow
<1> HIDE DEF e, C
<1>6. /\ cap2 \in Seq(C) /\ Len(cap2) = n + 1 /\ (\A i \in 1..n : cap2[i] = captured[i])
      /\ cap2[n + 1] = e
  <2>1. captured \in Seq(C) /\ cap2 = Append(captured, e)
    BY DEF C, e
  <2>2. QED
    BY ONLY <1>1, <1>5, <2>1, AppendProperties
<1>7. DOMAIN cap2 = 1..(n + 1)
  BY <1>6, LenProperties
<1>8. DOMAIN captured = 1..(p.no - 1) /\ DOMAIN cap2 = 1..p.no
  <2>1. n + 1 - 1 = n
    BY ONLY n \in Nat
  <2>2. QED
    BY ONLY <1>1, <1>4, <1>7, <2>1
<1>9. Grown(captured, cap2, k, p)
  BY ONLY <1>1, <1>4, <1>6, <1>8, Zenon DEF Grown, e
<1>10. QED
  BY <1>4, <1>6, <1>9 DEF C

\* The finalised windows grow by m, which are posted.
Appended(L, m) ==
  /\ DOMAIN finalized = 1..L /\ DOMAIN finalized' = 1..(L + m)
  /\ \A i \in 1..L : finalized'[i] = finalized[i]
  /\ Posted(L + 1, L + m)

\* A packet keeps the windows as they should be.
LEMMA ReadWindows ==
  ASSUME WindowsInv, source \in Source, clock \in Int, phase = "reading",
         NEW k \in Flow, NEW h \in Header, NEW gap \in Gap, ReadPacket(k, h, gap)
  PROVE  WindowsInv' /\ \E L, m \in Nat : Appended(L, m)
<1> DEFINE p == [ts |-> clock + gap, flags |-> h.flags, ttl |-> h.ttl, no |-> Len(captured) + 1]
           u == source
<1>1. /\ OpenWindows(flows) /\ finalized \in Seq(Finalised)
      /\ captured \in Seq([key : Flow, packet : Packet])
      /\ Cuts(finalized, Range(flows), captured, u) /\ Continues(finalized, Range(flows))
      /\ \A i \in DOMAIN finalized : Judged(finalized[i]) /\ BurstAt(i, finalized)
  BY Zenon DEF WindowsInv
<1>2. /\ captured' = Append(captured, [key |-> k, packet |-> p]) /\ ProcessPacket(k, p)
      /\ source' = source
  BY DEF ReadPacket
<1>3. /\ p \in Packet /\ Grown(captured, captured', k, p)
      /\ captured' \in Seq([key : Flow, packet : Packet])
  BY ONLY <1>1, <1>2, clock \in Int, k \in Flow, h \in Header, gap \in Gap, NextPacket
<1>4. u \in Source
  OBVIOUS
<1> HIDE DEF p, u
<1>5. PICK w \in Seq(Packet) : \E stale :
           /\ Lands(k, p, w, stale)
           /\ \E done \in Extractions(Closed(k, w, stale)) : finalized' = finalized \o done
           /\ Posted(Len(finalized) + 1, Len(finalized) + Len(Closed(k, w, stale)))
           /\ OpenWindows(flows')
           /\ \A f : f \in Range(flows') <=> Kept(k, w, f)
  BY ONLY <1>1, <1>2, <1>3, k \in Flow, Processed, Zenon
<1>6. PICK stale :
           /\ Lands(k, p, w, stale)
           /\ \E done \in Extractions(Closed(k, w, stale)) : finalized' = finalized \o done
           /\ Posted(Len(finalized) + 1, Len(finalized) + Len(Closed(k, w, stale)))
           /\ OpenWindows(flows')
           /\ \A f : f \in Range(flows') <=> Kept(k, w, f)
  BY ONLY <1>5, Zenon
<1>7. PICK done \in Extractions(Closed(k, w, stale)) : finalized' = finalized \o done
  BY ONLY <1>6, Zenon
<1>8. PICK L \in Nat : L = Len(finalized) /\ DOMAIN finalized = 1..L
  BY ONLY <1>1, LenProperties
<1>9. Closed(k, w, stale) \in Seq(Window)
  BY ONLY <1>1, <1>6, k \in Flow, w \in Seq(Packet), ClosedIs, Zenon
<1>10. PICK m \in Nat : m = Len(Closed(k, w, stale))
  BY ONLY <1>9, LenProperties
<1>11. Extracts(Closed(k, w, stale), m, L, finalized')
  BY ONLY <1>1, <1>7, <1>8, <1>9, <1>10, m \in Nat, L \in Nat,
          done \in Extractions(Closed(k, w, stale)), Extracted, Zenon
<1>12. /\ finalized' \in Seq(Finalised) /\ DOMAIN finalized' = 1..(L + m)
       /\ \A i \in 1..L : finalized'[i] = finalized[i]
  BY ONLY <1>11, Zenon DEF Extracts
<1>13. Cuts(finalized', Range(flows'), captured', u) /\ Continues(finalized', Range(flows'))
  BY ONLY <1>1, <1>3, <1>4, <1>6, <1>7, <1>8, k \in Flow, w \in Seq(Packet), L \in Nat,
          done \in Extractions(Closed(k, w, stale)), ReadCuts, Zenon DEF u
<1>14. \A i \in DOMAIN finalized' : Judged(finalized'[i]) /\ BurstAt(i, finalized')
  BY ONLY <1>1, <1>8, <1>11, m \in Nat, L \in Nat, JudgedExtended, Zenon
<1>15. WindowsInv'
  <2>1. Cuts(finalized', Range(flows'), captured', source')
    BY <1>2, <1>13 DEF u
  <2>2. OpenWindows(flows)' /\ Continues(finalized, Range(flows))'
    BY ONLY <1>2, <1>6, <1>13, Zenon DEF OpenWindows, Full, Continues
  <2>3. QED
    BY ONLY <1>3, <1>12, <1>14, <2>1, <2>2, Zenon DEF WindowsInv
<1>16. Appended(L, m)
  BY ONLY <1>6, <1>8, <1>10, <1>12, Zenon DEF Appended
<1>17. QED
  BY ONLY <1>15, <1>16, L \in Nat, m \in Nat, Zenon

\* Windows posted while the capture is read are stored when they should be.
LEMMA ReadStored ==
  ASSUME StoredInv, phase = "reading", outcome = 0, UNCHANGED <<source, phase, outcome>>,
         NEW L \in Nat, NEW m \in Nat, Appended(L, m)
  PROVE  StoredInv'
<1>1. /\ DOMAIN finalized = 1..L /\ DOMAIN finalized' = 1..(L + m)
      /\ (\A i \in 1..L : finalized'[i] = finalized[i]) /\ Posted(L + 1, L + m)
  BY Zenon DEF Appended
<1>2. /\ 1..L \subseteq 1..(L + m) /\ (L + 1)..(L + m) \subseteq 1..(L + m)
      /\ \A i \in 1..(L + m) : i \in 1..L <=> i \notin (L + 1)..(L + m)
  BY ONLY L \in Nat, m \in Nat
<1>3. stored \subseteq 1..L /\ unreached \subseteq 1..L
  <2>1. stored \subseteq DOMAIN finalized /\ unreached \subseteq DOMAIN finalized
    BY Zenon DEF StoredInv
  <2>2. QED
    BY ONLY <1>1, <2>1
<1>4. phase' # "done"
  BY phase = "reading"
<1>5. CASE source \notin Replay
  <2>1. stored' = stored /\ unreached' = unreached
    BY <1>1, <1>5 DEF Posted
  <2>2. stored' \subseteq 1..(L + m) /\ unreached' \subseteq 1..(L + m)
    BY ONLY <1>2, <1>3, <2>1, Zenon
  <2>3. outcome' = 0
    OBVIOUS
  <2>4. source \in Upload => stored = {}
    BY DEF StoredInv
  <2>5. outcome' # 201 /\ outcome' # 500
    BY ONLY <2>3
  <2>6. source' \notin Replay /\ (source' \in Upload => stored' = {})
    BY <1>5, <2>1, <2>4
  <2>7. stored' \subseteq DOMAIN finalized' /\ unreached' \subseteq DOMAIN finalized'
    BY ONLY <1>1, <2>2
  <2>8. QED
    BY ONLY <2>5, <2>6, <2>7, Zenon DEF StoredInv
<1>6. CASE source \in Replay
  <2>1. PICK lost \in SUBSET ((L + 1)..(L + m)) :
          /\ unreached' = unreached \cup lost
          /\ stored' = stored \cup {i \in ((L + 1)..(L + m)) \ lost : Valid(finalized'[i])}
    BY <1>1, <1>6 DEF Posted
  <2>2. stored' \subseteq 1..(L + m) /\ unreached' \subseteq 1..(L + m)
    BY ONLY <1>2, <1>3, <2>1, lost \in SUBSET ((L + 1)..(L + m)), Zenon
  <2>3. \A i \in 1..L : i \in stored <=> i \notin unreached /\ Valid(finalized[i])
    BY <1>1, <1>6, phase = "reading" DEF StoredInv
  <2>4. ASSUME NEW i \in 1..(L + m)
        PROVE  i \in stored' <=> i \notin unreached' /\ Valid(finalized'[i])
    <3>1. CASE i \in 1..L
      <4>1. i \notin (L + 1)..(L + m) /\ finalized'[i] = finalized[i]
        BY ONLY <1>1, <1>2, <2>4, <3>1, Zenon
      <4>2. i \in stored' <=> i \in stored
        BY ONLY <2>1, <4>1, lost \in SUBSET ((L + 1)..(L + m))
      <4>3. i \in unreached' <=> i \in unreached
        BY ONLY <2>1, <4>1, lost \in SUBSET ((L + 1)..(L + m))
      <4>4. QED
        BY ONLY <2>3, <3>1, <4>1, <4>2, <4>3, Zenon
    <3>2. CASE i \notin 1..L
      <4>1. i \in (L + 1)..(L + m) /\ i \notin stored /\ i \notin unreached
        BY ONLY <1>2, <1>3, <2>4, <3>2, Zenon
      <4>2. QED
        BY ONLY <2>1, <4>1, lost \in SUBSET ((L + 1)..(L + m)), Zenon
    <3>3. QED
      BY <3>1, <3>2
  <2>5. source' \notin Upload
    BY <1>6, UseAssumption
  <2>6. QED
    BY ONLY <1>1, <1>4, <2>2, <2>4, <2>5, Zenon DEF StoredInv
<1>7. QED
  BY <1>5, <1>6

\* The windows stay when none of them changes, nor the use.
LEMMA SameWindows ==
  ASSUME WindowsInv, UNCHANGED <<source, captured, flows, finalized>>,
         phase' \in {"submitted", "reading"} => phase \in {"submitted", "reading"}
  PROVE  WindowsInv'
<1>1. /\ OpenWindows(flows) /\ finalized \in Seq(Finalised)
      /\ captured \in Seq([key : Flow, packet : Packet])
      /\ Cuts(finalized, Range(flows), captured, source)
      /\ \A i \in DOMAIN finalized : Judged(finalized[i]) /\ BurstAt(i, finalized)
  BY Zenon DEF WindowsInv
<1>2. OpenWindows(flows)'
  BY <1>1 DEF OpenWindows, Full
<1>3. phase' \in {"submitted", "reading"} => Continues(finalized, Range(flows))'
  BY DEF WindowsInv, Continues
<1>4. /\ finalized' \in Seq(Finalised)
      /\ captured' \in Seq([key : Flow, packet : Packet])
      /\ Cuts(finalized', Range(flows'), captured', source')
      /\ \A i \in DOMAIN finalized' : Judged(finalized'[i]) /\ BurstAt(i, finalized')
  BY <1>1
<1>5. QED
  BY ONLY <1>2, <1>3, <1>4, Zenon DEF WindowsInv

\* A packet keeps the invariant.
LEMMA ReadInv ==
  ASSUME Inv, NEW k \in Flow, NEW h \in Header, NEW gap \in Gap, ReadPacket(k, h, gap)
  PROVE  Inv'
<1>1. WindowsInv /\ PhaseInv /\ StoredInv
  BY Zenon DEF Inv
<1>2. /\ phase = "reading" /\ left > 0 /\ left' = left - 1 /\ clock' = clock + gap
      /\ UNCHANGED <<source, phase, outcome>>
  BY DEF ReadPacket
<1>3. source \in Source /\ clock \in Int /\ outcome = 0
  BY <1>1, <1>2 DEF PhaseInv
<1>4. WindowsInv' /\ \E L, m \in Nat : Appended(L, m)
  BY <1>1, <1>2, <1>3, ReadWindows, Zenon
<1>5. PhaseInv'
  <2>1. left' \in 0..MaxRecords /\ clock' \in Int
    BY <1>1, <1>2, <1>3, TimeAssumption, LimitAssumption DEF PhaseInv
  <2>2. QED
    BY <1>1, <1>2, <1>3, <2>1 DEF PhaseInv
<1>6. StoredInv'
  BY <1>1, <1>2, <1>3, <1>4, ReadStored, Zenon
<1>7. QED
  BY <1>4, <1>5, <1>6, Zenon DEF Inv

\* Flushing the open windows keeps the invariant.
LEMMA FlushInv ==
  ASSUME Inv, FlushAll
  PROVE  Inv'
<1>1. WindowsInv /\ PhaseInv /\ StoredInv
  BY Zenon DEF Inv
<1>2. /\ phase = "reading" /\ phase' = IF source \in Upload THEN "flushed" ELSE "done"
      /\ flows' = <<>>
      /\ UNCHANGED <<source, left, clock, captured, outcome, stored, unreached>>
  BY DEF FlushAll
<1>0. source \in Source
  BY <1>1, Zenon DEF PhaseInv
<1>3. PICK done \in Extractions(flows) : finalized' = finalized \o done
  BY Zenon DEF FlushAll
<1>4. /\ OpenWindows(flows) /\ finalized \in Seq(Finalised)
      /\ captured \in Seq([key : Flow, packet : Packet])
      /\ Cuts(finalized, Range(flows), captured, source)
      /\ Continues(finalized, Range(flows))
      /\ \A i \in DOMAIN finalized : Judged(finalized[i]) /\ BurstAt(i, finalized)
  BY <1>1, <1>2 DEF WindowsInv
<1>5. PICK L \in Nat : L = Len(finalized) /\ DOMAIN finalized = 1..L
  BY ONLY <1>4, LenProperties
<1>6. flows \in Seq(Window)
  BY ONLY <1>4, Zenon DEF OpenWindows
<1>7. PICK m \in Nat : m = Len(flows)
  BY ONLY <1>6, LenProperties
<1>8. Extracts(flows, m, L, finalized')
  BY ONLY <1>3, <1>4, <1>5, <1>6, <1>7, L \in Nat, m \in Nat, done \in Extractions(flows),
          Extracted, Zenon
<1>9. /\ finalized' \in Seq(Finalised) /\ DOMAIN finalized' = 1..(L + m)
      /\ \A i \in 1..L : finalized'[i] = finalized[i]
  BY ONLY <1>8, Zenon DEF Extracts
<1>10. Range(flows') = {}
  BY <1>2 DEF Range
<1>11. WindowsInv'
  <2>1. Cuts(finalized', {}, captured, source)
    BY ONLY <1>4, <1>5, <1>7, <1>8, L \in Nat, m \in Nat, FlushCuts, Zenon
  <2>2. Cuts(finalized', Range(flows'), captured', source')
    BY <1>2, <1>10, <2>1
  <2>3. \A i \in DOMAIN finalized' : Judged(finalized'[i]) /\ BurstAt(i, finalized')
    BY ONLY <1>4, <1>5, <1>8, m \in Nat, L \in Nat, JudgedExtended, Zenon
  <2>4. OpenWindows(flows)'
    <3>1. flows' = <<>> /\ <<>> \in Seq(Window) /\ DOMAIN <<>> = {}
      BY <1>2
    <3>2. QED
      BY ONLY <3>1, Zenon DEF OpenWindows, Distinct
  <2>5. phase' \notin {"submitted", "reading"}
    BY <1>2
  <2>6. captured' \in Seq([key : Flow, packet : Packet])
    BY <1>2, <1>4, Zenon
  <2>7. QED
    BY ONLY <1>9, <2>2, <2>3, <2>4, <2>5, <2>6, Zenon DEF WindowsInv
<1>12. PhaseInv'
  <2>1. source \in Replay => source \notin Upload
    BY ONLY UseAssumption
  <2>2. source \in Source
    BY ONLY <1>1, Zenon DEF PhaseInv
  <2>3. QED
    BY <1>1, <1>2, <2>1, <2>2 DEF PhaseInv
<1>13. StoredInv'
  <2>1. stored \subseteq 1..L /\ unreached \subseteq 1..L
    <3>1. stored \subseteq DOMAIN finalized /\ unreached \subseteq DOMAIN finalized
      BY <1>1, Zenon DEF StoredInv
    <3>2. QED
      BY ONLY <1>5, <3>1
  <2>2. 1..L \subseteq 1..(L + m)
    BY ONLY L \in Nat, m \in Nat
  <2>3. stored' \subseteq DOMAIN finalized' /\ unreached' \subseteq DOMAIN finalized'
    BY ONLY <1>2, <1>9, <2>1, <2>2
  <2>4. outcome = 0
    BY <1>1, <1>2 DEF PhaseInv
  <2>5. source' \in Upload =>
          /\ outcome' = 201 => stored' = DOMAIN finalized'
          /\ outcome' # 201 => stored' = {}
          /\ outcome' # 500
    BY <1>1, <1>2, <2>4 DEF StoredInv
  <2>6. ASSUME source \in Replay, NEW i \in 1..(L + m)
        PROVE  i \in stored' <=> /\ i \notin unreached' /\ Valid(finalized'[i])
                                 /\ ClosedAt(i, finalized')
    <3>1. ClosedAt(i, finalized') <=> i \in 1..L
      BY ONLY <1>0, <1>4, <1>5, <1>7, <1>8, <1>9, L \in Nat, m \in Nat, i \in 1..(L + m),
              FlushCloses, Zenon
    <3>2. i \in 1..L => (i \in stored <=> i \notin unreached /\ Valid(finalized[i]))
      BY <1>1, <1>2, <1>5, <2>6 DEF StoredInv
    <3>3. i \in 1..L => finalized'[i] = finalized[i]
      BY <1>9, Zenon
    <3>4. stored' = stored /\ unreached' = unreached
      BY <1>2
    <3>5. QED
      BY ONLY <2>1, <3>1, <3>2, <3>3, <3>4
  <2>7. source' \in Replay =>
          \A i \in DOMAIN finalized' :
            i \in stored' <=> /\ i \notin unreached' /\ Valid(finalized'[i])
                              /\ phase' = "done" => ClosedAt(i, finalized')
    <3>1. source \in Replay => phase' = "done"
      BY <1>2, UseAssumption
    <3>2. source' = source
      BY <1>2
    <3>3. QED
      BY ONLY <1>9, <2>6, <3>1, <3>2
  <2>8. source' \in Upload =>
          /\ outcome' = 201 => stored' = DOMAIN finalized'
          /\ outcome' # 201 => stored' = {}
          /\ outcome' = 500 => \E i \in DOMAIN finalized' : ~Valid(finalized'[i])
    BY ONLY <2>5, Zenon
  <2>9. source' \in Replay =>
          \A i \in DOMAIN finalized' :
            i \in stored' <=> /\ i \notin unreached' /\ Valid(finalized'[i])
                              /\ phase' = "done" => ClosedAt(i, finalized)'
    <3>1. source' = source
      BY <1>2
    <3>2. QED
      BY ONLY <2>7, <3>1, Zenon DEF ClosedAt
  <2>10. QED
    BY ONLY <2>3, <2>8, <2>9, Zenon DEF StoredInv
<1>14. QED
  BY <1>11, <1>12, <1>13, Zenon DEF Inv

\* Answering the upload keeps the invariant.
LEMMA AnswerInv ==
  ASSUME Inv, AnswerUpload
  PROVE  Inv'
<1>1. WindowsInv /\ PhaseInv /\ StoredInv
  BY Zenon DEF Inv
<1>2. /\ phase = "flushed" /\ phase' = "done"
      /\ outcome' = IF finalized = <<>> THEN 400
                    ELSE IF \A i \in DOMAIN finalized : Valid(finalized[i]) THEN 201 ELSE 500
      /\ stored' = IF outcome' = 201 THEN DOMAIN finalized ELSE {}
      /\ UNCHANGED <<source, left, clock, captured, flows, finalized, unreached>>
  BY DEF AnswerUpload
<1>3. WindowsInv'
  BY <1>1, <1>2, SameWindows
<1>4. PhaseInv'
  BY <1>1, <1>2 DEF PhaseInv
<1>5. StoredInv'
  <2>1. source \notin Replay
    BY <1>1, <1>2 DEF PhaseInv
  <2>2. outcome' = 500 => \E i \in DOMAIN finalized : ~Valid(finalized[i])
    BY ONLY <1>2
  <2>3. stored' = IF outcome' = 201 THEN DOMAIN finalized ELSE {}
    BY <1>2
  <2>4. unreached \subseteq DOMAIN finalized
    BY <1>1, Zenon DEF StoredInv
  <2>5. finalized' = finalized /\ unreached' = unreached /\ source' = source
    BY <1>2
  <2>6. QED
    BY ONLY <2>1, <2>2, <2>3, <2>4, <2>5 DEF StoredInv
<1>6. QED
  BY <1>3, <1>4, <1>5, Zenon DEF Inv

\* Every step keeps the invariant.
LEMMA StepInv == Inv /\ [Next]_vars => Inv'
<1> SUFFICES ASSUME Inv, [Next]_vars PROVE Inv'
  OBVIOUS
<1>1. WindowsInv /\ PhaseInv /\ StoredInv
  BY Zenon DEF Inv
<1>2. CASE OpenCapture
  <2>1. WindowsInv'
    BY <1>1, <1>2, SameWindows DEF OpenCapture
  <2>2. PhaseInv' /\ StoredInv'
    BY <1>1, <1>2 DEF OpenCapture, PhaseInv, StoredInv
  <2>3. QED
    BY <2>1, <2>2, Zenon DEF Inv
<1>3. CASE \E status \in {400, 422} : RefuseCapture(status)
  <2>1. PICK status \in {400, 422} : RefuseCapture(status)
    BY ONLY <1>3, Zenon
  <2>2. WindowsInv'
    BY <1>1, <2>1, SameWindows DEF RefuseCapture
  <2>3. PhaseInv'
    BY <1>1, <2>1 DEF RefuseCapture, PhaseInv
  <2>4. StoredInv'
    BY <1>1, <2>1 DEF RefuseCapture, PhaseInv, StoredInv
  <2>5. QED
    BY <2>2, <2>3, <2>4, Zenon DEF Inv
<1>4. CASE \E r \in Record[source] : ReadPacket(r[1], r[2], r[3])
  <2>1. PICK r \in Record[source] : ReadPacket(r[1], r[2], r[3])
    BY ONLY <1>4, Zenon
  <2>2. source \in Source
    BY ONLY <1>1, Zenon DEF PhaseInv
  <2>3. r[1] \in Flow /\ r[2] \in Header /\ r[3] \in Gap
    BY ONLY <2>2, r \in Record[source], UseAssumption
  <2>4. QED
    BY <2>1, <2>3, ReadInv, Zenon
<1>5. CASE SkipRecord
  <2>1. WindowsInv'
    BY <1>1, <1>5, SameWindows DEF SkipRecord
  <2>2. PhaseInv' /\ StoredInv'
    BY <1>1, <1>5, LimitAssumption DEF SkipRecord, PhaseInv, StoredInv
  <2>3. QED
    BY <2>1, <2>2, Zenon DEF Inv
<1>6. CASE FlushAll
  BY <1>6, FlushInv
<1>7. CASE AnswerUpload
  BY <1>7, AnswerInv
<1>8. CASE UNCHANGED vars
  <2>1. WindowsInv'
    BY <1>1, <1>8, SameWindows DEF vars
  <2>2. PhaseInv' /\ StoredInv'
    BY <1>1, <1>8 DEF vars, PhaseInv, StoredInv, ClosedAt
  <2>3. QED
    BY <2>1, <2>2, Zenon DEF Inv
<1>9. CASE Finished
  BY <1>8, <1>9 DEF Finished
<1>10. CASE Next
  <2>1. \/ OpenCapture
        \/ \E status \in {400, 422} : RefuseCapture(status)
        \/ \E r \in Record[source] : ReadPacket(r[1], r[2], r[3])
        \/ SkipRecord \/ FlushAll \/ AnswerUpload \/ Finished
    BY ONLY <1>10, Zenon DEF Next
  <2>2. QED
    BY ONLY <1>2, <1>3, <1>4, <1>5, <1>6, <1>7, <1>9, <2>1, Zenon
<1>11. QED
  BY <1>8, <1>10

\* The invariant holds in every reachable state.
LEMMA AlwaysInv == Spec => []Inv
BY InitInv, StepInv, PTL DEF Spec

-----------------------------------------------------------------------------
(* What the invariant says of the program.                                 *)

\* The type invariant: no window is empty, none is open under two places, and
\* an open one is not full.
THEOREM TypesHold == Spec => []TypeOK
<1>1. ASSUME Inv PROVE TypeOK
  <2>1. WindowsInv /\ PhaseInv /\ StoredInv
    BY <1>1, Zenon DEF Inv
  <2>2. /\ OpenWindows(flows) /\ finalized \in Seq(Finalised)
        /\ Cuts(finalized, Range(flows), captured, source)
    BY <2>1, Zenon DEF WindowsInv
  <2>3. \A i \in DOMAIN flows :
          /\ flows[i] \in Window /\ Len(flows[i].packets) \in 1..(MaxPackets[source] - 1)
          /\ \A j \in DOMAIN flows : flows[i].key = flows[j].key => i = j
    <3>1. DOMAIN flows = 1..Len(flows) /\ \A i \in 1..Len(flows) : flows[i] \in Window
      BY ONLY <2>2, LenProperties, ElementOfSeq DEF OpenWindows
    <3>2. ASSUME NEW i \in DOMAIN flows
          PROVE  Len(flows[i].packets) \in 1..(MaxPackets[source] - 1)
      <4>1. ~Full(flows[i].packets)
        BY ONLY <2>2, <3>2, Zenon DEF OpenWindows
      <4>2. flows[i] \in Range(flows)
        BY <3>2, Zenon DEF Range
      <4>3. Sound(flows[i].packets, flows[i].key, captured, source)
        BY ONLY <2>2, <4>2, Zenon DEF Cuts
      <4>4. source \in Source /\ Len(flows[i].packets) \in 1..MaxPackets[source]
        BY ONLY <4>3, Zenon DEF Sound
      <4>5. MaxPackets[source] \in Nat \ {0}
        BY ONLY <4>4, Limits
      <4>6. QED
        BY ONLY <4>1, <4>4, <4>5 DEF Full
    <3>3. \A i, j \in DOMAIN flows : flows[i].key = flows[j].key => i = j
      BY ONLY <2>2, Zenon DEF OpenWindows, Distinct
    <3>4. QED
      BY ONLY <3>1, <3>2, <3>3
  <2>4. \A i \in DOMAIN finalized : finalized[i].packets \in Seq(Packet) \ {<<>>}
    <3> TAKE i \in DOMAIN finalized
    <3>1. Sound(finalized[i].packets, finalized[i].key, captured, source)
      BY ONLY <2>2, i \in DOMAIN finalized, Zenon DEF Cuts
    <3>2. /\ finalized[i].packets \in Seq(Packet)
          /\ Len(finalized[i].packets) \in 1..MaxPackets[source]
      BY ONLY <3>1, Zenon DEF Sound
    <3>3. Len(<<>>) = 0 /\ 0 \notin 1..MaxPackets[source]
      OBVIOUS
    <3>4. finalized[i].packets # <<>>
      BY ONLY <3>2, <3>3, Zenon
    <3>5. QED
      BY ONLY <3>2, <3>4
  <2>5. /\ source \in Source /\ phase \in {"submitted", "reading", "flushed", "done"}
        /\ left \in 0..MaxRecords /\ clock \in Int /\ outcome \in {0, 201, 400, 422, 500}
    BY ONLY <2>1, Zenon DEF PhaseInv
  <2>6. stored \subseteq DOMAIN finalized /\ unreached \subseteq DOMAIN finalized
    BY ONLY <2>1, Zenon DEF StoredInv
  <2>7. QED
    BY ONLY <2>3, <2>4, <2>5, <2>6, Zenon DEF TypeOK
<1>2. QED
  BY <1>1, AlwaysInv, PTL

\* Finalised and open windows in one sequence.
LEMMA AllWindows ==
  ASSUME OpenWindows(flows), finalized \in Seq(Finalised), NEW u, NEW windows,
         Cuts(finalized, Range(flows), captured, u), windows = finalized \o flows
  PROVE  Cuts(windows, {}, captured, u)
<1>1. PICK L \in Nat : L = Len(finalized) /\ DOMAIN finalized = 1..L
  BY LenProperties
<1>2. flows \in Seq(Window)
  BY Zenon DEF OpenWindows
<1>3. PICK n \in Nat : n = Len(flows) /\ DOMAIN flows = 1..n
  BY <1>2, LenProperties
<1>4. \A f : f \in Range(flows) <=> \E a \in 1..n : f = flows[a]
  BY <1>2, <1>3, Members, Zenon
<1>5. \A a, b \in 1..n : flows[a].key = flows[b].key => a = b
  BY <1>3, Zenon DEF OpenWindows, Distinct
<1>6. /\ DOMAIN windows = 1..(L + n) /\ \A i \in 1..L : windows[i] = finalized[i]
      /\ \A a \in 1..n : windows[L + a] = flows[a]
  <2> DEFINE S == Finalised \cup Window
  <2>1. finalized \in Seq(S) /\ flows \in Seq(S)
    <3>1. finalized \in [1..L -> Finalised] /\ flows \in [1..n -> Window]
      BY ONLY <1>1, <1>2, <1>3, finalized \in Seq(Finalised), LenProperties
    <3>2. finalized \in [1..L -> S] /\ flows \in [1..n -> S]
      BY <3>1
    <3> HIDE DEF S
    <3>3. QED
      BY ONLY <3>2, L \in Nat, n \in Nat, SeqDef
  <2> HIDE DEF S
  <2>2. /\ windows \in Seq(S) /\ Len(windows) = Len(finalized) + Len(flows)
        /\ \A i \in 1..(Len(finalized) + Len(flows)) :
             windows[i] = IF i <= Len(finalized) THEN finalized[i] ELSE flows[i - Len(finalized)]
    BY ONLY <2>1, windows = finalized \o flows, ConcatProperties
  <2>3. DOMAIN windows = 1..(L + n)
    BY ONLY <1>1, <1>3, <2>2, LenProperties
  <2>4. \A i \in 1..(L + n) : windows[i] = IF i <= L THEN finalized[i] ELSE flows[i - L]
    BY ONLY <1>1, <1>3, <2>2
  <2>5. /\ \A i \in 1..L : i \in 1..(L + n) /\ i <= L
        /\ \A a \in 1..n : L + a \in 1..(L + n) /\ ~(L + a <= L) /\ L + a - L = a
    BY ONLY L \in Nat, n \in Nat
  <2>6. \A i \in 1..L : windows[i] = finalized[i]
    BY ONLY <2>4, <2>5
  <2>7. \A a \in 1..n : windows[L + a] = flows[a]
    <3> TAKE a \in 1..n
    <3>1. L + a \in 1..(L + n) /\ ~(L + a <= L) /\ L + a - L = a
      BY ONLY <2>5
    <3>2. windows[L + a] = flows[L + a - L]
      BY ONLY <2>4, <3>1
    <3>3. QED
      BY ONLY <3>1, <3>2, Zenon
  <2>8. QED
    BY ONLY <2>3, <2>6, <2>7, Zenon
<1> DEFINE none == {}
<1>7. \A f : f \in none <=> f \in Range(flows) /\ \A a \in 1..n : f # flows[a]
  BY <1>4, Zenon
<1> HIDE DEF none
<1>8. Finalises(finalized, windows, Range(flows), none, L, n, flows)
  <2>1. \A a \in 1..n : /\ flows[a] \in Range(flows) /\ windows[L + a].key = flows[a].key
                        /\ windows[L + a].packets = flows[a].packets
    BY <1>4, <1>6, Zenon
  <2>2. QED
    BY <1>1, <1>5, <1>6, <1>7, <2>1, Zenon DEF Finalises
<1>9. Cuts(windows, none, captured, u)
  BY ONLY <1>8, L \in Nat, n \in Nat, Cuts(finalized, Range(flows), captured, u),
          FinaliseWindows, Zenon
<1>10. QED
  BY <1>9 DEF none

\* Windows that divide the packets, as the property has it.
LEMMA PartitionOf ==
  ASSUME NEW windows, NEW u, NEW N \in Nat, DOMAIN windows = 1..N,
         Cuts(windows, {}, captured, u)
  PROVE  /\ \A c \in DOMAIN captured : \E i \in DOMAIN windows : c \in Numbers(windows[i].packets)
         /\ \A i \in DOMAIN windows : \A n \in DOMAIN windows[i].packets :
              /\ windows[i].packets[n].no \in DOMAIN captured
              /\ captured[windows[i].packets[n].no] =
                   [key |-> windows[i].key, packet |-> windows[i].packets[n]]
         /\ \A i \in DOMAIN windows : \A j \in Later(i, windows) \cup {i} :
              \A n \in DOMAIN windows[i].packets, m \in DOMAIN windows[j].packets :
                i < j \/ n < m => windows[i].packets[n].no < windows[j].packets[m].no
         /\ \A i \in DOMAIN windows :
              /\ Len(windows[i].packets) <= MaxPackets[u]
              /\ \A n \in 1..(Len(windows[i].packets) - 1) :
                   windows[i].packets[n + 1].ts - windows[i].packets[n].ts <= Timeout[u]
              /\ \A j \in NextOf(i, windows) :
                   \/ Len(windows[i].packets) = MaxPackets[u]
                   \/ windows[j].packets[1].ts - Last(windows[i].packets).ts > Timeout[u]
<1>1. \A i \in 1..N : Sound(windows[i].packets, windows[i].key, captured, u)
  BY Zenon DEF Cuts
<1>2. \A i \in 1..N : /\ DOMAIN windows[i].packets = 1..Len(windows[i].packets)
                      /\ Len(windows[i].packets) <= MaxPackets[u]
  <2> TAKE i \in 1..N
  <2>1. /\ u \in Source /\ windows[i].packets \in Seq(Packet)
        /\ Len(windows[i].packets) \in 1..MaxPackets[u]
    BY <1>1, Zenon DEF Sound
  <2>2. DOMAIN windows[i].packets = 1..Len(windows[i].packets)
    BY <2>1, LenProperties
  <2>3. Len(windows[i].packets) <= MaxPackets[u]
    BY ONLY <2>1, Limits
  <2>4. QED
    BY <2>2, <2>3
<1>3. \A c \in DOMAIN captured : \E i \in DOMAIN windows : c \in Numbers(windows[i].packets)
  <2>1. \A c \in DOMAIN captured : \/ \E i \in DOMAIN windows : c \in Numbers(windows[i].packets)
                                   \/ \E f \in {} : c \in Numbers(f.packets)
    BY Zenon DEF Cuts
  <2>2. QED
    BY <2>1, Zenon
<1>4. \A i \in 1..N : \A n \in DOMAIN windows[i].packets :
        /\ windows[i].packets[n].no \in DOMAIN captured
        /\ captured[windows[i].packets[n].no] =
             [key |-> windows[i].key, packet |-> windows[i].packets[n]]
  <2> TAKE i \in 1..N
  <2>1. Sound(windows[i].packets, windows[i].key, captured, u)
    BY <1>1
  <2>2. DOMAIN windows[i].packets = 1..Len(windows[i].packets)
    BY <1>2
  <2>3. QED
    BY ONLY <2>1, <2>2, Zenon DEF Sound
<1>5. ASSUME NEW i \in 1..N, NEW j \in Later(i, windows) \cup {i},
             NEW n \in DOMAIN windows[i].packets, NEW m \in DOMAIN windows[j].packets,
             i < j \/ n < m
      PROVE  windows[i].packets[n].no < windows[j].packets[m].no
  <2>1. n \in 1..Len(windows[i].packets)
    BY <1>2, Zenon
  <2>2. CASE j = i
    <3>1. ~(i < j)
      BY ONLY <2>2, i \in 1..N
    <3>2. n < m
      BY <1>5, <3>1
    <3>3. m \in 1..Len(windows[i].packets)
      BY ONLY <1>2, <2>2, i \in 1..N, m \in DOMAIN windows[j].packets
    <3>4. Sound(windows[i].packets, windows[i].key, captured, u)
      BY <1>1
    <3>5. windows[i].packets[n].no < windows[i].packets[m].no
      BY ONLY <2>1, <3>2, <3>3, <3>4, Zenon DEF Sound
    <3>6. QED
      BY ONLY <2>2, <3>5
  <2>3. CASE j # i
    <3>1. j \in 1..N /\ j > i /\ windows[j].key = windows[i].key
      BY <2>3, Zenon DEF Later
    <3>2. m \in 1..Len(windows[j].packets)
      BY <1>2, <3>1, Zenon
    <3>3. i < j
      BY ONLY <3>1, i \in 1..N
    <3>4. Before(windows[i].packets, windows[j].packets)
      BY <3>1, <3>3, Zenon DEF Cuts
    <3>5. QED
      BY ONLY <2>1, <3>2, <3>4, Zenon DEF Before
  <2>4. QED
    BY <2>2, <2>3
<1>6. ASSUME NEW i \in 1..N, NEW n \in 1..(Len(windows[i].packets) - 1)
      PROVE  windows[i].packets[n + 1].ts - windows[i].packets[n].ts <= Timeout[u]
  BY <1>1, Zenon DEF Sound
<1>7. ASSUME NEW i \in 1..N, NEW j \in NextOf(i, windows)
      PROVE  \/ Len(windows[i].packets) = MaxPackets[u]
             \/ windows[j].packets[1].ts - Last(windows[i].packets).ts > Timeout[u]
  <2>1. /\ j \in 1..N /\ j > i /\ windows[j].key = windows[i].key
        /\ \A l \in (i + 1)..(j - 1) : windows[l].key # windows[i].key
    BY Zenon DEF NextOf, Later
  <2>2. i < j
    BY ONLY <2>1, i \in 1..N
  <2>3. Consecutive(i, j, windows)
    BY ONLY <2>1, <2>2, Zenon DEF Consecutive
  <2>4. CutAt(windows[i].packets, windows[j].packets, u)
    BY <2>1, <2>3, Zenon DEF Cuts
  <2>5. QED
    BY ONLY <2>4, Zenon DEF CutAt, Last
<1>8. QED
  BY <1>2, <1>3, <1>4, <1>5, <1>6, <1>7, Zenon

\* Every decoded packet is in exactly one window, the windows of a flow hold
\* its packets in the order of the capture, and they are cut where the limits
\* say and nowhere else.
THEOREM WindowsPartition == Spec => []WindowsPartitionFlows
<1>1. ASSUME Inv PROVE WindowsPartitionFlows
  <2> DEFINE windows == finalized \o flows
  <2>1. /\ OpenWindows(flows) /\ finalized \in Seq(Finalised)
        /\ Cuts(finalized, Range(flows), captured, source)
    BY <1>1, Zenon DEF Inv, WindowsInv
  <2>2. PICK N \in Nat : DOMAIN windows = 1..N
    <3>1. finalized \in Seq(Finalised) /\ flows \in Seq(Window)
      BY ONLY <2>1, Zenon DEF OpenWindows
    <3>2. finalized \o flows \in Seq(Finalised \cup Window)
      <4>1. finalized \in Seq(Finalised \cup Window) /\ flows \in Seq(Finalised \cup Window)
        BY ONLY <3>1
      <4>2. QED
        BY ONLY <4>1, ConcatProperties
    <3>3. QED
      BY ONLY <3>2, LenProperties
  <2>3. Cuts(windows, {}, captured, source)
    BY ONLY <2>1, AllWindows, Zenon
  <2> HIDE DEF windows
  <2>4. /\ \A c \in DOMAIN captured : \E i \in DOMAIN windows : c \in Numbers(windows[i].packets)
        /\ \A i \in DOMAIN windows : \A n \in DOMAIN windows[i].packets :
             /\ windows[i].packets[n].no \in DOMAIN captured
             /\ captured[windows[i].packets[n].no] =
                  [key |-> windows[i].key, packet |-> windows[i].packets[n]]
        /\ \A i \in DOMAIN windows : \A j \in Later(i, windows) \cup {i} :
             \A n \in DOMAIN windows[i].packets, m \in DOMAIN windows[j].packets :
               i < j \/ n < m => windows[i].packets[n].no < windows[j].packets[m].no
        /\ \A i \in DOMAIN windows :
             /\ Len(windows[i].packets) <= MaxPackets[source]
             /\ \A n \in 1..(Len(windows[i].packets) - 1) :
                  windows[i].packets[n + 1].ts - windows[i].packets[n].ts <= Timeout[source]
             /\ \A j \in NextOf(i, windows) :
                  \/ Len(windows[i].packets) = MaxPackets[source]
                  \/ windows[j].packets[1].ts - Last(windows[i].packets).ts > Timeout[source]
    BY ONLY <2>2, <2>3, N \in Nat, PartitionOf, Zenon
  <2>5. QED
    BY ONLY <2>4, Zenon DEF WindowsPartitionFlows, windows
<1>2. QED
  BY <1>1, AlwaysInv, PTL

\* A finalised window is a window of its flow, with its packets' times.
LEMMA FinalisedWindow ==
  ASSUME WindowsInv, NEW i \in DOMAIN finalized
  PROVE  /\ finalized[i].key \in Flow /\ finalized[i].packets \in Seq(Packet)
         /\ Sound(finalized[i].packets, finalized[i].key, captured, source)
         /\ Judged(finalized[i]) /\ BurstAt(i, finalized) /\ i \in Nat \ {0}
         /\ \E len \in Nat \ {0} : /\ len = Len(finalized[i].packets)
                                   /\ DOMAIN finalized[i].packets = 1..len
                                   /\ \A n \in 1..len : finalized[i].packets[n] \in Packet
<1>1. /\ finalized \in Seq(Finalised) /\ Judged(finalized[i]) /\ BurstAt(i, finalized)
      /\ Sound(finalized[i].packets, finalized[i].key, captured, source)
  BY Zenon DEF WindowsInv, Cuts
<1>2. finalized[i] \in Finalised /\ i \in Nat \ {0}
  BY ONLY <1>1, i \in DOMAIN finalized, LenProperties, ElementOfSeq
<1>3. finalized[i].key \in Flow /\ finalized[i].packets \in Seq(Packet)
  BY ONLY <1>2 DEF Finalised
<1>4. source \in Source /\ Len(finalized[i].packets) \in 1..MaxPackets[source]
  BY ONLY <1>1, Zenon DEF Sound
<1>5. \E len \in Nat \ {0} : /\ len = Len(finalized[i].packets)
                             /\ DOMAIN finalized[i].packets = 1..len
                             /\ \A n \in 1..len : finalized[i].packets[n] \in Packet
  <2>1. /\ DOMAIN finalized[i].packets = 1..Len(finalized[i].packets)
        /\ \A n \in 1..Len(finalized[i].packets) : finalized[i].packets[n] \in Packet
    BY ONLY <1>3, LenProperties, ElementOfSeq
  <2>2. Len(finalized[i].packets) \in Nat \ {0}
    BY ONLY <1>4, Limits
  <2>3. QED
    BY ONLY <2>1, <2>2, Zenon
<1>6. QED
  BY ONLY <1>1, <1>2, <1>3, <1>5

\* No window is called a burst before five were measured, nor unless it
\* exceeds one of those before it; a lone packet exceeds no lone packet of its
\* own size.
THEOREM BurstsExceed == Spec => []BurstsExceedBaseline
<1>1. ASSUME Inv PROVE BurstsExceedBaseline
  <2>1. WindowsInv
    BY <1>1, Zenon DEF Inv
  <2>2. ASSUME NEW i \in DOMAIN finalized, finalized[i].features.burst
        PROVE  /\ i >= 5
               /\ \E j \in 1..(i - 1) : Exceeds(RateOf(finalized[i]), RateOf(finalized[j]))
               /\ Len(finalized[i].packets) = 1 =>
                    \E j \in 1..(i - 1) : \/ Len(finalized[j].packets) > 1
                                         \/ Size[finalized[j].key] < Size[finalized[i].key]
    <3>1. i >= 5 /\ \E j \in 1..(i - 1) : Exceeds(RateOf(finalized[i]), RateOf(finalized[j]))
      BY <2>1, <2>2, FinalisedWindow, Zenon DEF BurstAt
    <3>2. PICK j \in 1..(i - 1) : Exceeds(RateOf(finalized[i]), RateOf(finalized[j]))
      BY <3>1, Zenon
    <3>3. j \in DOMAIN finalized
      <4>1. DOMAIN finalized = 1..Len(finalized) /\ Len(finalized) \in Nat
        BY <2>1, LenProperties DEF WindowsInv
      <4>2. QED
        BY ONLY <4>1, i \in DOMAIN finalized, j \in 1..(i - 1)
    <3>4. ASSUME Len(finalized[i].packets) = 1, Len(finalized[j].packets) = 1
          PROVE  Size[finalized[j].key] < Size[finalized[i].key]
      <4>1. PICK len \in Nat \ {0} : /\ len = Len(finalized[i].packets)
                                     /\ \A n \in 1..len : finalized[i].packets[n] \in Packet
        BY <2>1, FinalisedWindow, Zenon
      <4>2. PICK len2 \in Nat \ {0} : /\ len2 = Len(finalized[j].packets)
                                      /\ \A n \in 1..len2 : finalized[j].packets[n] \in Packet
        BY <2>1, <3>3, FinalisedWindow, Zenon
      <4>3. finalized[i].packets[1] \in Packet /\ finalized[j].packets[1] \in Packet
        BY ONLY <4>1, <4>2, len \in Nat \ {0}, len2 \in Nat \ {0}
      <4>4. finalized[i].packets[1].ts \in Int /\ finalized[j].packets[1].ts \in Int
        BY ONLY <4>3 DEF Packet
      <4>5. finalized[i].key \in Flow /\ finalized[j].key \in Flow
        BY <2>1, <3>3, FinalisedWindow, Zenon
      <4>6. Size[finalized[i].key] \in Nat /\ Size[finalized[j].key] \in Nat
        BY ONLY <4>5, FlowAssumption
      <4>7. Exceeds(Rate(finalized[i].packets, Size[finalized[i].key]),
                    Rate(finalized[j].packets, Size[finalized[j].key]))
        BY <3>2, Zenon DEF RateOf
      <4>8. QED
        BY ONLY <3>4, <4>4, <4>6, <4>7, LoneBurst, Zenon
    <3>5. Len(finalized[j].packets) = 1 \/ Len(finalized[j].packets) > 1
      <4>1. PICK len \in Nat \ {0} : len = Len(finalized[j].packets)
        BY <2>1, <3>3, FinalisedWindow, Zenon
      <4>2. len = 1 \/ len > 1
        BY ONLY len \in Nat \ {0}
      <4>3. QED
        BY ONLY <4>1, <4>2, Zenon
    <3>6. QED
      BY ONLY <3>1, <3>4, <3>5, j \in 1..(i - 1), Zenon
  <2>3. QED
    BY ONLY <2>2, Zenon DEF BurstsExceedBaseline
<1>2. QED
  BY <1>1, AlwaysInv, PTL

\* In a sequence of times whose last is below its first there is a step back.
LEMMA StepBack ==
  ASSUME NEW ts, NEW a \in Nat, NEW b \in Nat, a < b, \A c \in a..b : ts[c] \in Int, ts[b] < ts[a]
  PROVE  \E c \in (a + 1)..b : ts[c] < ts[c - 1]
<1> DEFINE S == {c \in (a + 1)..b : ts[c] < ts[a]}
<1>1. S \subseteq Nat /\ b \in S
  OBVIOUS
<1>2. PICK x \in S : \A y \in S : x <= y
  <2> HIDE DEF S
  <2>1. QED
    BY <1>1, Least
<1>3. x \in (a + 1)..b /\ ts[x] < ts[a] /\ x - 1 \in a..b /\ x \in a..b
  OBVIOUS
<1>4. ts[x - 1] >= ts[a]
  <2>1. CASE x - 1 = a
    BY <1>3, <2>1
  <2>2. CASE x - 1 # a
    <3>1. x - 1 \in (a + 1)..b
      BY ONLY <1>3, <2>2, a \in Nat, b \in Nat
    <3>2. x - 1 \notin S
      <4>1. ~(x <= x - 1)
        BY ONLY <1>3, a \in Nat, b \in Nat
      <4>2. QED
        BY ONLY <1>2, <4>1, Zenon
    <3>3. ~(ts[x - 1] < ts[a])
      BY <3>1, <3>2
    <3>4. ts[x - 1] \in Int /\ ts[a] \in Int
      BY <1>3, a \in a..b
    <3>5. QED
      BY ONLY <3>3, <3>4
  <2>3. QED
    BY <2>1, <2>2
<1>5. ts[x] \in Int /\ ts[x - 1] \in Int /\ ts[a] \in Int
  BY <1>3, a \in a..b
<1>6. ts[x] < ts[x - 1]
  BY ONLY <1>3, <1>4, <1>5
<1>7. QED
  BY <1>3, <1>6

\* A window that is not valid ends before it begins: so does some packet.
LEMMA InvalidStepsBack ==
  ASSUME WindowsInv, NEW i \in DOMAIN finalized, ~Valid(finalized[i])
  PROVE  \E c \in 2..Len(captured) : captured[c].packet.ts < captured[c - 1].packet.ts
<1> DEFINE w == finalized[i].packets
<1>1. /\ Sound(w, finalized[i].key, captured, source)
      /\ \E len \in Nat \ {0} : /\ len = Len(w) /\ DOMAIN w = 1..len
                                /\ \A n \in 1..len : w[n] \in Packet
  BY FinalisedWindow, Zenon
<1>2. PICK len \in Nat \ {0} : /\ len = Len(w) /\ DOMAIN w = 1..len
                               /\ \A n \in 1..len : w[n] \in Packet
  BY <1>1, Zenon
<1>3. captured \in Seq([key : Flow, packet : Packet])
  BY Zenon DEF WindowsInv
<1>4. PICK N \in Nat : /\ N = Len(captured) /\ DOMAIN captured = 1..N
                       /\ \A c \in 1..N : captured[c] \in [key : Flow, packet : Packet]
  BY ONLY <1>3, LenProperties, ElementOfSeq
<1> HIDE DEF w
<1>5. 1 \in 1..len /\ len \in 1..len
  BY ONLY len \in Nat \ {0}
<1>6. w[1].ts \in Int /\ w[len].ts \in Int
  BY ONLY <1>2, <1>5 DEF Packet
<1>7. len > 1 /\ w[len].ts < w[1].ts
  <2>1. ~(Duration(w) >= 0)
    BY Zenon DEF Valid, w
  <2>2. Duration(w) = IF len <= 1 THEN 0 ELSE w[len].ts - w[1].ts
    BY ONLY <1>2, Zenon DEF Duration, Last
  <2>3. QED
    BY ONLY <1>6, <2>1, <2>2, len \in Nat \ {0}
<1>8. /\ w[1].no \in 1..N /\ w[len].no \in 1..N /\ w[1].no < w[len].no
      /\ captured[w[1].no].packet = w[1] /\ captured[w[len].no].packet = w[len]
  <2>1. 1 < len
    BY ONLY <1>7, len \in Nat \ {0}
  <2>2. /\ w[1].no \in DOMAIN captured /\ w[len].no \in DOMAIN captured /\ w[1].no < w[len].no
        /\ captured[w[1].no] = [key |-> finalized[i].key, packet |-> w[1]]
        /\ captured[w[len].no] = [key |-> finalized[i].key, packet |-> w[len]]
    BY ONLY <1>1, <1>2, <1>5, <2>1, Zenon DEF Sound
  <2>3. QED
    BY ONLY <1>4, <2>2
<1> DEFINE ts == [c \in 1..N |-> captured[c].packet.ts]
<1>9. \A c \in 1..N : ts[c] \in Int /\ ts[c] = captured[c].packet.ts
  BY ONLY <1>4 DEF Packet
<1> HIDE DEF ts
<1>10. PICK a \in 1..N, b \in 1..N : a = w[1].no /\ b = w[len].no
  BY ONLY <1>8
<1>11. ts[b] < ts[a]
  BY ONLY <1>7, <1>8, <1>9, <1>10
<1>12. a \in Nat /\ b \in Nat /\ a..b \subseteq 1..N /\ a < b
  BY ONLY <1>8, <1>10, a \in 1..N, b \in 1..N, N \in Nat
<1>13. PICK c \in (a + 1)..b : ts[c] < ts[c - 1]
  BY ONLY <1>9, <1>11, <1>12, StepBack
<1>14. c \in 2..N /\ c \in 1..N /\ c - 1 \in 1..N
  BY ONLY a \in 1..N, b \in 1..N, c \in (a + 1)..b, N \in Nat
<1>15. captured[c].packet.ts < captured[c - 1].packet.ts
  BY ONLY <1>9, <1>13, <1>14
<1>16. QED
  BY ONLY <1>4, <1>14, <1>15, Zenon

\* Once the capture has been read, every packet is in a finalised window.
LEMMA AllFinalised ==
  ASSUME Inv, phase # "reading"
  PROVE  Cuts(finalized, {}, captured, source)
<1>1. flows = <<>> /\ Cuts(finalized, Range(flows), captured, source)
  BY DEF Inv, PhaseInv, WindowsInv
<1>2. Range(flows) = {}
  BY <1>1 DEF Range
<1>3. QED
  BY <1>1, <1>2

\* An upload is stored whole or not at all, and is never turned down as invalid
\* when its packets are in order of time; of a replayed capture the closed
\* windows are stored whose POST arrived and was valid, and no other.
THEOREM StoredAsTheAnswerSays == Spec => []StoredAsAnswered
<1>1. ASSUME Inv PROVE StoredAsAnswered
  <2>1. WindowsInv /\ PhaseInv /\ StoredInv
    BY <1>1, Zenon DEF Inv
  <2>2. ASSUME source \in Upload
        PROVE  /\ stored # {} => outcome = 201
               /\ outcome = 201 =>
                    \A c \in DOMAIN captured : \E i \in stored : c \in Numbers(finalized[i].packets)
               /\ outcome = 500 => \E c \in 2..Len(captured) :
                                     captured[c].packet.ts < captured[c - 1].packet.ts
    <3>1. /\ outcome = 201 => stored = DOMAIN finalized
          /\ outcome # 201 => stored = {}
          /\ outcome = 500 => \E i \in DOMAIN finalized : ~Valid(finalized[i])
      BY <2>1, <2>2, Zenon DEF StoredInv
    <3>2. ASSUME outcome = 201, NEW c \in DOMAIN captured
          PROVE  \E i \in stored : c \in Numbers(finalized[i].packets)
      <4>1. phase # "reading"
        BY <2>1, <3>2 DEF PhaseInv
      <4>2. Cuts(finalized, {}, captured, source)
        BY <1>1, <4>1, AllFinalised
      <4>3. \/ \E i \in DOMAIN finalized : c \in Numbers(finalized[i].packets)
            \/ \E f \in {} : c \in Numbers(f.packets)
        BY ONLY <4>2, c \in DOMAIN captured, Zenon DEF Cuts
      <4>4. \E i \in DOMAIN finalized : c \in Numbers(finalized[i].packets)
        BY ONLY <4>3, Zenon
      <4>5. stored = DOMAIN finalized
        BY <3>1, <3>2
      <4>6. QED
        BY ONLY <4>4, <4>5, Zenon
    <3>3. outcome = 500 => \E c \in 2..Len(captured) :
                             captured[c].packet.ts < captured[c - 1].packet.ts
      <4> SUFFICES ASSUME outcome = 500
                   PROVE  \E c \in 2..Len(captured) :
                            captured[c].packet.ts < captured[c - 1].packet.ts
        OBVIOUS
      <4>1. PICK i \in DOMAIN finalized : ~Valid(finalized[i])
        BY <3>1, Zenon
      <4>2. QED
        BY ONLY <2>1, <4>1, i \in DOMAIN finalized, InvalidStepsBack
    <3>4. QED
      BY <3>1, <3>2, <3>3, Zenon
  <2>3. ASSUME source \in Replay, phase = "done", NEW i \in DOMAIN finalized
        PROVE  (i \in stored) <=>
                 /\ \/ Len(finalized[i].packets) = MaxPackets[source]
                    \/ Later(i, finalized) # {}
                 /\ i \notin unreached /\ Valid(finalized[i])
    <3>1. i \in stored <=> /\ i \notin unreached /\ Valid(finalized[i])
                           /\ ClosedAt(i, finalized)
      BY <2>1, <2>3 DEF StoredInv
    <3>2. ~LastOf(i, finalized) <=> Later(i, finalized) # {}
      BY DEF LastOf, Later
    <3>3. QED
      BY ONLY <3>1, <3>2, Zenon DEF ClosedAt
  <2>4. source \in Upload =>
          /\ stored # {} => outcome = 201
          /\ outcome = 201 =>
               \A c \in DOMAIN captured : \E i \in stored : c \in Numbers(finalized[i].packets)
          /\ outcome = 500 => \E c \in 2..Len(captured) :
                                captured[c].packet.ts < captured[c - 1].packet.ts
    BY ONLY <2>2, Zenon
  <2>5. source \in Replay /\ phase = "done" =>
          \A i \in DOMAIN finalized :
            (i \in stored) <=>
              /\ \/ Len(finalized[i].packets) = MaxPackets[source]
                 \/ Later(i, finalized) # {}
              /\ i \notin unreached /\ Valid(finalized[i])
    BY ONLY <2>3, Zenon
  <2>6. QED
    BY ONLY <2>4, <2>5 DEF StoredAsAnswered
<1>2. QED
  BY <1>1, AlwaysInv, PTL

\* A packet of flow k, once the capture has been read, is in a window of k.
LEMMA WindowOfPacket ==
  ASSUME Inv, phase # "reading", NEW k, NEW c \in PacketsOf(k)
  PROVE  \E i \in DOMAIN finalized : \E n \in 1..Len(finalized[i].packets) :
           /\ finalized[i].key = k /\ finalized[i].packets[n].no = c
           /\ captured[c].packet = finalized[i].packets[n]
<1>1. WindowsInv
  BY Zenon DEF Inv
<1>2. Cuts(finalized, {}, captured, source)
  BY AllFinalised
<1>3. c \in DOMAIN captured /\ captured[c].key = k
  BY DEF PacketsOf
<1>4. \/ \E i \in DOMAIN finalized : c \in Numbers(finalized[i].packets)
      \/ \E f \in {} : c \in Numbers(f.packets)
  BY ONLY <1>2, <1>3, Zenon DEF Cuts
<1>5. PICK i \in DOMAIN finalized : c \in Numbers(finalized[i].packets)
  BY ONLY <1>4, Zenon
<1>6. Sound(finalized[i].packets, finalized[i].key, captured, source)
  BY <1>1, FinalisedWindow, Zenon
<1>7. PICK n \in 1..Len(finalized[i].packets) : c = finalized[i].packets[n].no
  BY ONLY <1>5, <1>6, NumbersOf, Zenon
<1>8. captured[c] = [key |-> finalized[i].key, packet |-> finalized[i].packets[n]]
  BY ONLY <1>6, <1>7, n \in 1..Len(finalized[i].packets), Zenon DEF Sound
<1>9. finalized[i].key = k /\ captured[c].packet = finalized[i].packets[n]
  BY ONLY <1>3, <1>8
<1>10. QED
  BY ONLY <1>7, <1>9, i \in DOMAIN finalized, n \in 1..Len(finalized[i].packets), Zenon

\* A packet of a finalised window is one of its flow.
LEMMA PacketOfWindow ==
  ASSUME WindowsInv, NEW i \in DOMAIN finalized, NEW n \in 1..Len(finalized[i].packets)
  PROVE  /\ finalized[i].packets[n].no \in PacketsOf(finalized[i].key)
         /\ captured[finalized[i].packets[n].no].packet = finalized[i].packets[n]
<1>1. Sound(finalized[i].packets, finalized[i].key, captured, source)
  BY FinalisedWindow, Zenon
<1>2. /\ finalized[i].packets[n].no \in DOMAIN captured
      /\ captured[finalized[i].packets[n].no] =
           [key |-> finalized[i].key, packet |-> finalized[i].packets[n]]
  BY ONLY <1>1, n \in 1..Len(finalized[i].packets), Zenon DEF Sound
<1>3. QED
  BY ONLY <1>2 DEF PacketsOf

\* Of a flow that is in one window, all packets are judged together: what one of
\* them answers is not missed in another, and TTLs are compared with all others.
THEOREM UncutFlowsAreJudgedWhole == Spec => []UncutFlowsJudgedWhole
<1>1. ASSUME Inv, phase = "done", NEW i \in DOMAIN finalized,
             \A j \in DOMAIN finalized : finalized[j].key = finalized[i].key => j = i,
             NEW packets, packets = {captured[c].packet : c \in PacketsOf(finalized[i].key)}
      PROVE  /\ (\E p, q \in packets : "SYN" \in p.flags /\ "ACK" \in q.flags) =>
                  finalized[i].features.markers \cap
                    {"syn_without_ack_return", "orphan_ack_stream", "fin_probe"} = {}
             /\ (\E p, q \in packets, base \in {32, 64, 128} : p.ttl <= base /\ q.ttl > base) =>
                  finalized[i].features.spoofed
             /\ (\A p, q \in packets : p.ttl = q.ttl) => ~finalized[i].features.spoofed
  <2> DEFINE w == finalized[i].packets
  <2>1. WindowsInv /\ phase # "reading"
    BY <1>1 DEF Inv
  <2>2. PICK len \in Nat \ {0} : /\ len = Len(w) /\ DOMAIN w = 1..len
                                 /\ \A n \in 1..len : w[n] \in Packet
    BY <2>1, FinalisedWindow, Zenon
  <2>3. \A p \in packets : \E n \in 1..len : p = w[n]
    <3> SUFFICES ASSUME NEW c \in PacketsOf(finalized[i].key)
                 PROVE  \E n \in 1..len : captured[c].packet = w[n]
      BY <1>1
    <3>1. PICK j \in DOMAIN finalized : \E n \in 1..Len(finalized[j].packets) :
                 /\ finalized[j].key = finalized[i].key /\ finalized[j].packets[n].no = c
                 /\ captured[c].packet = finalized[j].packets[n]
      BY ONLY Inv, <2>1, c \in PacketsOf(finalized[i].key), WindowOfPacket
    <3>2. PICK n \in 1..Len(finalized[j].packets) :
                 /\ finalized[j].key = finalized[i].key
                 /\ captured[c].packet = finalized[j].packets[n]
      BY <3>1, Zenon
    <3>3. j = i
      BY <1>1, <3>2, Zenon
    <3>4. n \in 1..len
      BY ONLY <2>2, <3>3, n \in 1..Len(finalized[j].packets)
    <3>5. QED
      BY <3>2, <3>3, <3>4, Zenon
  <2>4. \A n \in 1..len : w[n] \in packets
    <3> TAKE n \in 1..len
    <3>1. n \in 1..Len(finalized[i].packets)
      BY <2>2, Zenon
    <3>2. w[n].no \in PacketsOf(finalized[i].key) /\ captured[w[n].no].packet = w[n]
      BY <2>1, <3>1, PacketOfWindow, Zenon
    <3>3. QED
      BY <1>1, <3>2
  <2>5. Judged(finalized[i]) /\ w \in Seq(Packet)
    BY <2>1, FinalisedWindow, Zenon
  <2>6. /\ finalized[i].features.markers = IF finalized[i].key \in Tcp THEN TcpMarkers(w) ELSE {}
        /\ finalized[i].features.spoofed = TtlSpoofed(w)
    BY ONLY <2>5, Zenon DEF Judged, w
  <2> HIDE DEF w
  <2>7. ASSUME NEW p \in packets, NEW q \in packets, "SYN" \in p.flags, "ACK" \in q.flags
        PROVE  finalized[i].features.markers \cap
                 {"syn_without_ack_return", "orphan_ack_stream", "fin_probe"} = {}
    <3>1. PICK n \in DOMAIN w : p = w[n]
      BY <2>2, <2>3, Zenon
    <3>2. PICK m \in DOMAIN w : q = w[m]
      BY <2>2, <2>3, Zenon
    <3>3. TcpMarkers(w) \cap {"syn_without_ack_return", "orphan_ack_stream", "fin_probe"} = {}
      BY <2>7, <3>1, <3>2, BothSides, Zenon
    <3>4. QED
      BY ONLY <2>6, <3>3
  <2>8. ASSUME NEW p \in packets, NEW q \in packets, NEW base \in {32, 64, 128},
               p.ttl <= base, q.ttl > base
        PROVE  finalized[i].features.spoofed
    <3>1. PICK n \in 1..len : p = w[n]
      BY ONLY <2>3, p \in packets
    <3>2. PICK m \in 1..len : q = w[m]
      BY ONLY <2>3, q \in packets
    <3>3. w[n].ttl \in 0..255 /\ w[m].ttl \in 0..255
      BY ONLY <2>2, n \in 1..len, m \in 1..len DEF Packet
    <3>4. w[n].ttl <= base /\ base < w[m].ttl
      BY ONLY <2>8, <3>1, <3>2, <3>3, base \in {32, 64, 128}
    <3>5. w[n].ttl # w[m].ttl /\ InitialTtl(w[n].ttl) # InitialTtl(w[m].ttl)
      <4> DEFINE a == w[n].ttl
                 b == w[m].ttl
      <4>1. a \in 0..255 /\ b \in 0..255
        BY <3>3
      <4>2. a <= base /\ base < b
        BY <3>4
      <4> HIDE DEF a, b
      <4>3. a # b /\ InitialTtl(a) # InitialTtl(b)
        <5>1. base \in BASE_TTLS
          BY ONLY base \in {32, 64, 128} DEF BASE_TTLS
        <5>2. QED
          BY ONLY <4>1, <4>2, <5>1, TwoInitialTtls, Zenon
      <4>4. QED
        BY <4>3 DEF a, b
    <3>6. len \in Nat
      BY ONLY len \in Nat \ {0}
    <3>7. TtlSpoofed(w)
      BY ONLY <2>2, <3>5, <3>6, n \in 1..len, m \in 1..len, SpoofedTtls
    <3>8. QED
      BY ONLY <2>6, <3>7, Zenon
  <2>9. ASSUME \A p, q \in packets : p.ttl = q.ttl PROVE ~finalized[i].features.spoofed
    <3>1. \A n, m \in DOMAIN w : w[n].ttl = w[m].ttl
      BY <2>2, <2>4, <2>9, Zenon
    <3>2. ~TtlSpoofed(w)
      BY ONLY <2>5, <3>1, SteadyTtl, Zenon
    <3>3. QED
      BY ONLY <2>6, <3>2, Zenon
  <2>10. (\E p, q \in packets, base \in {32, 64, 128} : p.ttl <= base /\ q.ttl > base) =>
           finalized[i].features.spoofed
    <3> SUFFICES ASSUME NEW p \in packets, NEW q \in packets, NEW base \in {32, 64, 128},
                        p.ttl <= base, q.ttl > base
                 PROVE  finalized[i].features.spoofed
      OBVIOUS
    <3>1. QED
      BY ONLY <2>8, p \in packets, q \in packets, base \in {32, 64, 128},
              p.ttl <= base, q.ttl > base
  <2>11. QED
    BY ONLY <2>7, <2>9, <2>10, Zenon
<1>2. Inv => UncutFlowsJudgedWhole
  BY <1>1, Zenon DEF UncutFlowsJudgedWhole
<1>3. QED
  BY <1>2, AlwaysInv, PTL

-----------------------------------------------------------------------------
(* Beacons.                                                                *)

\* The packets of a flow's windows are numbered in the order of the windows.
LEMMA InOrder ==
  ASSUME WindowsInv, NEW i \in DOMAIN finalized, NEW j \in DOMAIN finalized,
         finalized[i].key = finalized[j].key,
         NEW n \in 1..Len(finalized[i].packets), NEW m \in 1..Len(finalized[j].packets),
         i < j \/ (i = j /\ n < m)
  PROVE  finalized[i].packets[n].no < finalized[j].packets[m].no
<1>1. CASE i < j
  <2>1. Before(finalized[i].packets, finalized[j].packets)
    BY <1>1, Zenon DEF WindowsInv, Cuts
  <2>2. QED
    BY <2>1, Zenon DEF Before
<1>2. CASE i = j /\ n < m
  <2>1. Sound(finalized[i].packets, finalized[i].key, captured, source)
    BY FinalisedWindow, Zenon
  <2>2. m \in 1..Len(finalized[i].packets)
    BY <1>2, Zenon
  <2>3. finalized[i].packets[n].no < finalized[i].packets[m].no
    BY ONLY <1>2, <2>1, <2>2, n \in 1..Len(finalized[i].packets), Zenon DEF Sound
  <2>4. QED
    BY ONLY <1>2, <2>3
<1>3. QED
  BY <1>1, <1>2

\* No window of flow k holds a packet between the nth of window i and the mth of
\* window j.
NoneBetween(k, i, n, j, m) ==
  /\ i < j \/ (i = j /\ n < m)
  /\ \A l \in DOMAIN finalized : finalized[l].key = k =>
       \A q \in 1..Len(finalized[l].packets) :
         \/ l < i \/ (l = i /\ q < n) \/ (l = i /\ q = n)
         \/ (l = j /\ q = m) \/ (j = l /\ m < q) \/ j < l

\* Between two packets of a flow with no other in its windows between them there
\* is none in the capture.
LEMMA Adjacent ==
  ASSUME Inv, phase # "reading", NEW k, NEW d, Periodic(k, d),
         NEW i \in DOMAIN finalized, NEW j \in DOMAIN finalized,
         finalized[i].key = k, finalized[j].key = k,
         NEW n \in 1..Len(finalized[i].packets), NEW m \in 1..Len(finalized[j].packets),
         NoneBetween(k, i, n, j, m)
  PROVE  finalized[j].packets[m].ts - finalized[i].packets[n].ts = d
<1> DEFINE c == finalized[i].packets[n].no
           e == finalized[j].packets[m].no
<1> /\ i < j \/ (i = j /\ n < m)
    /\ \A l \in DOMAIN finalized : finalized[l].key = k =>
         \A q \in 1..Len(finalized[l].packets) :
           \/ l < i \/ (l = i /\ q < n) \/ (l = i /\ q = n)
           \/ (l = j /\ q = m) \/ (j = l /\ m < q) \/ j < l
  BY Zenon DEF NoneBetween
<1>1. WindowsInv /\ captured \in Seq([key : Flow, packet : Packet])
  BY Zenon DEF Inv, WindowsInv
<1>2. /\ c \in PacketsOf(k) /\ captured[c].packet = finalized[i].packets[n]
      /\ e \in PacketsOf(k) /\ captured[e].packet = finalized[j].packets[m]
  BY <1>1, PacketOfWindow, Zenon
<1>3. c < e
  BY <1>1, InOrder, Zenon
<1>4. \A x \in PacketsOf(k) : x \in Int
  BY ONLY <1>1, LenProperties DEF PacketsOf
<1>5. ASSUME NEW x \in PacketsOf(k) PROVE x < c \/ x = c \/ x = e \/ e < x
  <2>1. PICK l \in DOMAIN finalized : \E q \in 1..Len(finalized[l].packets) :
               finalized[l].key = k /\ finalized[l].packets[q].no = x
    <3>1. phase # "reading"
      OBVIOUS
    <3>2. QED
      BY ONLY Inv, <3>1, x \in PacketsOf(k), WindowOfPacket
  <2>2. PICK q \in 1..Len(finalized[l].packets) :
               finalized[l].key = k /\ finalized[l].packets[q].no = x
    BY <2>1, Zenon
  <2>3. \/ l < i \/ (l = i /\ q < n) \/ (l = i /\ q = n)
        \/ (l = j /\ q = m) \/ (j = l /\ m < q) \/ j < l
    BY <2>2, Zenon
  <2>4. CASE l < i \/ (l = i /\ q < n)
    <3>1. finalized[l].key = finalized[i].key
      BY <2>2, Zenon
    <3>2. QED
      BY <1>1, <2>2, <2>4, <3>1, InOrder, Zenon
  <2>5. CASE (j = l /\ m < q) \/ j < l
    <3>1. finalized[j].key = finalized[l].key
      BY <2>2, Zenon
    <3>2. QED
      BY <1>1, <2>2, <2>5, <3>1, InOrder, Zenon
  <2>6. CASE l = i /\ q = n
    BY <2>2, <2>6, Zenon
  <2>7. CASE l = j /\ q = m
    BY <2>2, <2>7, Zenon
  <2>8. QED
    BY <2>3, <2>4, <2>5, <2>6, <2>7, Zenon
<1> HIDE DEF c, e
<1>6. (c + 1)..(e - 1) \cap PacketsOf(k) = {}
  <2>1. ASSUME NEW x \in (c + 1)..(e - 1), x \in PacketsOf(k) PROVE FALSE
    <3>1. x \in Int /\ c \in Int /\ e \in Int
      BY ONLY <1>2, <1>4, <2>1
    <3>2. x < c \/ x = c \/ x = e \/ e < x
      BY <1>5, <2>1, Zenon
    <3>3. QED
      BY ONLY <3>1, <3>2, x \in (c + 1)..(e - 1)
  <2>2. QED
    BY <2>1, Zenon
<1>7. captured[e].packet.ts - captured[c].packet.ts = d
  BY <1>2, <1>3, <1>6, Zenon DEF Periodic
<1>8. QED
  BY ONLY <1>2, <1>7 DEF c, e

\* A periodic flow starts with a window that holds at least six packets, all at
\* its interval.
LEMMA SteadyWindow ==
  ASSUME MaxPackets[source] >= 6, Inv, phase # "reading", NEW k, NEW d \in Nat \ {0},
         d <= Timeout[source], Periodic(k, d), Cardinality(PacketsOf(k)) >= 6
  PROVE  \E i \in DOMAIN finalized :
           /\ finalized[i].key = k /\ Len(finalized[i].packets) >= 6
           /\ \A n \in 1..(Len(finalized[i].packets) - 1) :
                finalized[i].packets[n + 1].ts - finalized[i].packets[n].ts = d
<1> DEFINE I == {i \in DOMAIN finalized : finalized[i].key = k}
<1>1. WindowsInv /\ DOMAIN finalized \subseteq Nat
  <2>1. WindowsInv /\ finalized \in Seq(Finalised)
    BY Zenon DEF Inv, WindowsInv
  <2>2. QED
    BY ONLY <2>1, LenProperties
<1>2. Cuts(finalized, {}, captured, source)
  BY AllFinalised
<1>3. \A x \in PacketsOf(k) : \E l \in I : \E q \in 1..Len(finalized[l].packets) :
        finalized[l].packets[q].no = x
  <2> TAKE x \in PacketsOf(k)
  <2>1. phase # "reading"
    OBVIOUS
  <2>2. \E l \in DOMAIN finalized : \E q \in 1..Len(finalized[l].packets) :
          finalized[l].key = k /\ finalized[l].packets[q].no = x
    BY ONLY Inv, <2>1, x \in PacketsOf(k), WindowOfPacket
  <2>3. QED
    BY <2>2, Zenon
<1>4. I # {}
  <2>1. PacketsOf(k) # {}
    <3>1. Cardinality({}) = 0
      BY FS_EmptySet
    <3>2. ~(0 >= 6)
      OBVIOUS
    <3>3. QED
      BY <3>1, <3>2, Zenon
  <2>2. QED
    BY <1>3, <2>1, Zenon
<1>5. PICK i \in I : \A j \in I : i <= j
  <2>1. I \subseteq Nat
    BY <1>1, Zenon
  <2> HIDE DEF I
  <2>2. QED
    BY ONLY <1>4, <2>1, Least
<1>6. i \in DOMAIN finalized /\ finalized[i].key = k /\ i \in Nat
  BY <1>1, Zenon
<1> DEFINE w == finalized[i].packets
<1>7. PICK len \in Nat \ {0} : /\ len = Len(w) /\ DOMAIN w = 1..len
                               /\ \A n \in 1..len : w[n] \in Packet
  BY <1>1, <1>6, FinalisedWindow, Zenon
<1>8. \A l \in DOMAIN finalized : finalized[l].key = k => i <= l
  BY <1>5, Zenon
<1>9. phase # "reading"
  OBVIOUS
<1>10. \A l \in DOMAIN finalized : \A q \in 1..Len(finalized[l].packets) : q \in Nat \ {0}
  <2> TAKE l \in DOMAIN finalized
  <2>1. PICK n \in Nat : n = Len(finalized[l].packets)
    BY <1>1, FinalisedWindow, Zenon
  <2>2. \A q \in 1..n : q \in Nat \ {0}
    OBVIOUS
  <2>3. QED
    BY <2>1, <2>2, Zenon
<1> HIDE DEF I, w
<1>11. ASSUME NEW n \in 1..(len - 1) PROVE w[n + 1].ts - w[n].ts = d
  <2>1. n \in 1..len /\ n + 1 \in 1..len /\ n < n + 1
    BY ONLY len \in Nat \ {0}, n \in 1..(len - 1)
  <2>2. \A l, q \in Nat : l < i \/ (l = i /\ q < n) \/ (l = i /\ q = n)
                          \/ (l = i /\ q = n + 1) \/ (i = l /\ n + 1 < q) \/ i < l
    BY ONLY <1>6, len \in Nat \ {0}, n \in 1..(len - 1)
  <2>3. \A l \in DOMAIN finalized : finalized[l].key = k =>
          \A q \in 1..Len(finalized[l].packets) :
            \/ l < i \/ (l = i /\ q < n) \/ (l = i /\ q = n)
            \/ (l = i /\ q = n + 1) \/ (i = l /\ n + 1 < q) \/ i < l
    <3> TAKE l \in DOMAIN finalized
    <3> HAVE finalized[l].key = k
    <3> TAKE q \in 1..Len(finalized[l].packets)
    <3>1. l \in Nat /\ q \in Nat
      BY <1>1, <1>10
    <3>2. QED
      BY ONLY <2>2, <3>1
  <2>4. n \in 1..Len(finalized[i].packets) /\ n + 1 \in 1..Len(finalized[i].packets)
    BY ONLY <1>7, <2>1 DEF w
  <2>5. finalized[i].packets[n + 1].ts - finalized[i].packets[n].ts = d
    <3> DEFINE m == n + 1
    <3>1. NoneBetween(k, i, n, i, m)
      BY <2>1, <2>3, Zenon DEF NoneBetween
    <3>2. m \in 1..Len(finalized[i].packets)
      BY <2>4
    <3> HIDE DEF m
    <3>3. finalized[i].packets[m].ts - finalized[i].packets[n].ts = d
      BY ONLY Inv, <1>6, <1>9, <2>4, <3>1, <3>2, Periodic(k, d), Adjacent, Zenon
    <3>4. QED
      BY <3>3 DEF m
  <2>6. QED
    BY <2>5 DEF w
<1>12. CASE len >= 6
  BY <1>6, <1>7, <1>11, <1>12, Zenon DEF w
<1>13. CASE ~(len >= 6)
  <2> DEFINE J == {j \in I : i < j}
  <2>1. CASE J = {}
    <3> DEFINE no == [n \in 1..len |-> w[n].no]
               S  == {no[n] : n \in 1..len}
    <3>1. PacketsOf(k) \subseteq S
      <4> SUFFICES ASSUME NEW x \in PacketsOf(k) PROVE x \in S
        OBVIOUS
      <4>1. PICK l \in I : \E q \in 1..Len(finalized[l].packets) : finalized[l].packets[q].no = x
        BY <1>3, Zenon
      <4>2. l = i
        <5>1. i <= l /\ ~(i < l)
          BY <1>5, <2>1, Zenon
        <5>2. l \in Nat
          BY <1>1, Zenon DEF I
        <5>3. QED
          BY ONLY <1>6, <5>1, <5>2
      <4>3. PICK q \in 1..len : w[q].no = x
        BY <1>7, <4>1, <4>2, Zenon DEF w
      <4>4. QED
        BY <4>3, Zenon
    <3> HIDE DEF no
    <3>2. S = {no[n] : n \in 1..len} /\ len \in Nat
      OBVIOUS
    <3> HIDE DEF S
    <3>3. IsFiniteSet(S) /\ Cardinality(S) \in Nat /\ Cardinality(S) <= len
      BY ONLY <3>2, FiniteImage
    <3>4. Cardinality(PacketsOf(k)) <= Cardinality(S) /\ IsFiniteSet(PacketsOf(k))
      BY ONLY <3>1, <3>3, FS_Subset
    <3>5. Cardinality(PacketsOf(k)) \in Nat
      BY ONLY <3>4, FS_CardinalityType
    <3>6. PICK a \in Nat, b \in Nat : a = Cardinality(PacketsOf(k)) /\ b = Cardinality(S)
      BY ONLY <3>3, <3>5
    <3>7. a <= b /\ b <= len /\ a >= 6
      BY <3>3, <3>4, <3>6, Zenon
    <3>8. QED
      BY ONLY <1>13, <3>7, a \in Nat, b \in Nat, len \in Nat \ {0}
  <2>2. CASE J # {}
    <3>1. J \subseteq Nat
      BY <1>1, Zenon DEF I
    <3>2. PICK j \in J : \A l \in J : j <= l
      <4> HIDE DEF J
      <4>1. QED
        BY ONLY <2>2, <3>1, Least
    <3>3. j \in DOMAIN finalized /\ finalized[j].key = k /\ i < j /\ j \in Nat
      BY <3>1, Zenon DEF I
    <3>4. \A l \in DOMAIN finalized : finalized[l].key = k /\ i < l => j <= l
      BY <3>2, Zenon DEF I
    <3> HIDE DEF J
    <3>5. 1 \in 1..Len(finalized[j].packets)
      <4>1. PICK n \in Nat \ {0} : n = Len(finalized[j].packets)
        BY <1>1, <3>3, FinalisedWindow, Zenon
      <4>2. 1 \in 1..n
        OBVIOUS
      <4>3. QED
        BY <4>1, <4>2, Zenon
    <3>6. len \in 1..Len(finalized[i].packets)
      <4>1. len \in 1..len
        BY ONLY len \in Nat \ {0}
      <4>2. QED
        BY <1>7, <4>1, Zenon DEF w
    <3>7. \A l \in DOMAIN finalized : finalized[l].key = k =>
            \A q \in 1..Len(finalized[l].packets) :
              \/ l < i \/ (l = i /\ q < len) \/ (l = i /\ q = len)
              \/ (l = j /\ q = 1) \/ (j = l /\ 1 < q) \/ j < l
      <4> TAKE l \in DOMAIN finalized
      <4> HAVE finalized[l].key = k
      <4> TAKE q \in 1..Len(finalized[l].packets)
      <4>1. l \in Nat /\ q \in Nat \ {0}
        BY <1>1, <1>10
      <4>2. l = i => q \in 1..len
        BY <1>7, Zenon DEF w
      <4>3. i <= l /\ (i < l => j <= l)
        BY <1>8, <3>4, Zenon
      <4>4. QED
        BY ONLY <1>6, <3>3, <4>1, <4>2, <4>3, len \in Nat \ {0}
    <3>8. finalized[j].packets[1].ts - finalized[i].packets[len].ts = d
      <4>1. NoneBetween(k, i, len, j, 1)
        BY ONLY <3>3, <3>7, Zenon DEF NoneBetween
      <4>2. QED
        BY ONLY Inv, <1>6, <1>9, <3>3, <3>5, <3>6, <4>1, Periodic(k, d), Adjacent
    <3>9. Consecutive(i, j, finalized)
      <4>1. ASSUME NEW l \in (i + 1)..(j - 1) PROVE finalized[l].key # finalized[i].key
        <5>1. i < l /\ ~(j <= l) /\ l \in Nat
          BY ONLY <1>6, <3>3, l \in (i + 1)..(j - 1)
        <5>2. l \in DOMAIN finalized
          <6>1. PICK L \in Nat : DOMAIN finalized = 1..L
            <7>1. finalized \in Seq(Finalised)
              BY <1>1, Zenon DEF WindowsInv
            <7>2. QED
              BY ONLY <7>1, LenProperties
          <6>2. QED
            BY ONLY <1>6, <3>3, <6>1, L \in Nat, l \in (i + 1)..(j - 1)
        <5>3. QED
          BY <1>6, <3>4, <5>1, <5>2, Zenon
      <4>2. QED
        BY <1>6, <3>3, <4>1, Zenon DEF Consecutive
    <3>10. CutAt(finalized[i].packets, finalized[j].packets, source)
      BY <1>2, <1>6, <3>3, <3>9, Zenon DEF Cuts
    <3>11. len = MaxPackets[source] \/ d > Timeout[source]
      <4>1. len = Len(finalized[i].packets)
        BY <1>7, Zenon DEF w
      <4>2. QED
        BY ONLY <3>8, <3>10, <4>1 DEF CutAt
    <3>12. Timeout[source] \in Nat /\ MaxPackets[source] \in Nat \ {0}
      <4>1. source \in Source
        BY ONLY Inv, Zenon DEF Inv, PhaseInv
      <4>2. QED
        BY ONLY <4>1, Limits
    <3>13. MaxPackets[source] >= 6 /\ d <= Timeout[source]
      OBVIOUS
    <3>14. QED
      BY ONLY <1>13, <3>11, <3>12, <3>13, d \in Nat \ {0}, len \in Nat \ {0}
  <2>3. QED
    BY <2>1, <2>2
<1>14. QED
  BY <1>12, <1>13

\* A flow of at least six packets at one interval within the timeout is found to
\* be a beacon, where windows may hold six packets; packets that all arrived at
\* one time never are.
THEOREM BeaconsAreFound == Spec => []BeaconsFound
<1>1. ASSUME Inv PROVE BeaconsFound
  <2>1. WindowsInv
    BY <1>1, Zenon DEF Inv
  <2>2. ASSUME phase = "done", MaxPackets[source] >= 6, NEW k \in Flow, NEW d \in Gap,
               Cardinality(PacketsOf(k)) >= 6, d > 0, d <= Timeout[source], Periodic(k, d)
        PROVE  \E i \in DOMAIN finalized : finalized[i].key = k /\ finalized[i].features.beacon
    <3>1. d \in Nat \ {0}
      BY ONLY <2>2, d \in Gap, TimeAssumption
    <3>2. phase # "reading"
      BY <2>2
    <3>3. PICK i \in DOMAIN finalized :
                 /\ finalized[i].key = k /\ Len(finalized[i].packets) >= 6
                 /\ \A n \in 1..(Len(finalized[i].packets) - 1) :
                      finalized[i].packets[n + 1].ts - finalized[i].packets[n].ts = d
      BY ONLY <1>1, <2>2, <3>1, <3>2, SteadyWindow
    <3>4. finalized[i].packets \in Seq(Packet) /\ Judged(finalized[i])
      BY <2>1, FinalisedWindow, Zenon
    <3>5. \A b \in BeaconVerdicts(finalized[i].packets) : b
      BY ONLY <3>1, <3>3, <3>4, SteadyIsBeacon, Zenon
    <3>6. finalized[i].features.beacon
      BY ONLY <3>4, <3>5, Zenon DEF Judged
    <3>7. QED
      BY <3>3, <3>6, Zenon
  <2>3. ASSUME NEW i \in DOMAIN finalized,
               \A n \in DOMAIN finalized[i].packets :
                 finalized[i].packets[n].ts = finalized[i].packets[1].ts
        PROVE  ~finalized[i].features.beacon
    <3>1. finalized[i].packets \in Seq(Packet) /\ Judged(finalized[i])
      BY <2>1, FinalisedWindow, Zenon
    <3>2. Len(finalized[i].packets) >= 1
      <4>1. PICK len \in Nat \ {0} : len = Len(finalized[i].packets)
        BY <2>1, FinalisedWindow, Zenon
      <4>2. len >= 1
        OBVIOUS
      <4>3. QED
        BY <4>1, <4>2, Zenon
    <3>3. \A b \in BeaconVerdicts(finalized[i].packets) : ~b
      BY ONLY <2>3, <3>1, <3>2, BurstIsNoBeacon, Zenon
    <3>4. QED
      BY ONLY <3>1, <3>3, Zenon DEF Judged
  <2>4. QED
    BY ONLY <2>2, <2>3, Zenon DEF BeaconsFound
<1>2. QED
  BY <1>1, AlwaysInv, PTL

=============================================================================
