---------------------------- MODULE Interleave_proofs ----------------------------
(***************************************************************************)
(* Proofs about Interleave, for any number of tracks, wherever they begin,  *)
(* any durations and any reordering of the video: every stream of a capture *)
(* begins at time 0, the last track soon after the video, and no stream is  *)
(* forgotten when the first packet is sent; and the packets of video that is *)
(* not reordered, of tracks that begin close together, leave in order.  The *)
(* buffer is looked at as the set of packets in it, which its order puts    *)
(* one after the other.                                                     *)
(***************************************************************************)
EXTENDS Interleave, WellFoundedInduction, SequenceTheorems, TLAPS

-----------------------------------------------------------------------------
(* The inductive invariant                                                  *)

\* The packets of a buffer.
InBuf(buf) == {buf[i] : i \in DOMAIN buf}

None(buf, s) == \A p \in InBuf(buf) : p.source # s

\* The order of the buffer; it is strict among the packets of a source.
Before(p, q) ==
    \/ p.dts_usec < q.dts_usec
    \/ p.dts_usec = q.dts_usec /\ q.source # Video /\ q.source # p.source

Sorted(buf) == \A i, j \in DOMAIN buf : i < j => Before(buf[i], buf[j])

Started == received_audio /\ received_video

\* The clock of a source, and how much of the source n packets are.
Period(s) == IF s = Video THEN VideoDuration ELSE AudioDuration
Clock(s) == IF s = Video THEN VideoStart ELSE beginning.audio[s]
Lag(s) == IF s = Video THEN beginning.reorder * VideoDuration ELSE 0
Made(n, s) == n[s] * Period(s)

\* A packet as its encoder made it, which has made n packets by now.
Unmoved(p, n) ==
    /\ p.pts \in Nat /\ p.pts + Period(p.source) =< Made(n, p.source)
    /\ p.dts_usec = Clock(p.source) + p.pts /\ p.dts = p.pts - Lag(p.source)

\* Of the audio that waits none is missing in between.
Unbroken(buf, n) ==
    \A p \in InBuf(buf) : p.source # Video =>
        \/ p.pts + AudioDuration = Made(n, p.source)
        \/ \E q \in InBuf(buf) : /\ q.source = p.source
                                 /\ q.pts = p.pts + AudioDuration

Untouched(buf, n) == Unbroken(buf, n) /\ \A p \in InBuf(buf) : Unmoved(p, n)

\* No track is ahead of another one by more than the packet it made last.
InStep(n) ==
    \A t, u \in Tracks :
        n[u] > 0 => Clock(u) + Made(n, u) =< Clock(t) + Made(n, t) + AudioDuration

\* The audio of a track ends before the video begins.
EndsEarly(buf) ==
    \E t \in Tracks : \A p, q \in InBuf(buf) :
        p.source = t /\ q.source = Video => p.dts_usec < q.dts_usec

\* A capture that waits for its streams: what its flags say is missing.
Waiting(buf, n, audio, video) ==
    /\ Untouched(buf, n)
    /\ video <=> ~None(buf, Video)
    /\ audio \/ video \/ \E t \in Tracks : None(buf, t)
    /\ (\E s \in Sources : None(buf, s)) \/ EndsEarly(buf)

NothingSent == out = NoPacket /\ \A s \in Sources : first_out[s] = NoPacket

\* The packets of a source whose offset is v or in a come before the next one.
Limit(n, v, a, s) ==
    Made(n, s) - Lag(s) - (IF s = Video THEN v ELSE a[s])

Moved(buf, n, v, a) ==
    \A p \in InBuf(buf) : p.dts_usec < Limit(n, v, a, p.source)

Zero(p) == IF p.source = Video THEN p.pts = 0 ELSE p.dts = 0

\* The packet is the first one of its source.
FirstIn(buf, p) ==
    /\ p \in InBuf(buf)
    /\ \A q \in InBuf(buf) :
           q.source = p.source => q = p \/ p.dts_usec < q.dts_usec

\* A source that has sent nothing has its first packet in the buffer; what was
\* sent first or will be is at time 0.
FirstsAtZero(buf, sent) ==
    \A s \in Sources :
        IF sent[s] = NoPacket
        THEN \E p \in InBuf(buf) : p.source = s /\ Zero(p) /\ FirstIn(buf, p)
        ELSE sent[s].source = s /\ Zero(sent[s])

GapBound == Max({VideoDuration, AudioDuration - 1})

InterleaveInv ==
    /\ InterleaveTypeOK /\ Sorted(interleaved_packets) /\ InStep(count)
    /\ IF Started
       THEN /\ Moved(interleaved_packets, count, video_offset, audio_offsets)
            /\ FirstsAtZero(interleaved_packets, first_out)
       ELSE /\ Waiting(interleaved_packets, count, received_audio, received_video)
            /\ NothingSent
    /\ start_gap[NumTracks] =< GapBound

-----------------------------------------------------------------------------
(* Numbers and sequences                                                    *)

\* A set of natural numbers that is not empty has a least one.
LEMMA LeastNumber ==
  ASSUME NEW S \in SUBSET Nat, S # {}
  PROVE  Min(S) \in S /\ \A m \in S : Min(S) =< m
  <1> DEFINE R == {ss \in Nat \X Nat : ss[1] < ss[2]}
  <1>1. PICK n \in S : \A m \in S : ~(<<m, n>> \in OpToRel(<, Nat))
      BY NatLessThanWellFounded, WFMin, Zenon
  <1>2. OpToRel(<, Nat) = R
      BY Zenon DEF OpToRel
  <1>3. \A m \in S : ~(<<m, n>> \in R)
      BY <1>1, <1>2, Zenon
  <1>4. \A m \in S : n =< m
    <2>1. ASSUME NEW m \in S, m < n PROVE FALSE
      <3>1. <<m, n>> \in R
          BY <2>1
      <3>2. QED
          BY <1>3, <3>1
    <2>2. QED
        BY <2>1
  <1>5. QED
      BY <1>4 DEF Min

\* One that is bounded has a greatest.
LEMMA GreatestNumber ==
  ASSUME NEW n \in Nat, NEW S \in SUBSET (0 .. n), S # {}
  PROVE  Max(S) \in S /\ \A m \in S : m =< Max(S)
  <1> DEFINE T == {n - m : m \in S}
  <1>1. T \in SUBSET Nat /\ T # {}
    <2>1. \A m \in S : n - m \in Nat
        OBVIOUS
    <2>2. QED
        BY <2>1
  <1>2. PICK k \in T : \A m \in T : k =< m
    <2> HIDE DEF T
    <2>1. QED
        BY <1>1, LeastNumber
  <1>3. PICK x \in S : k = n - x
      BY <1>2
  <1>4. ASSUME NEW m \in S PROVE m =< x
    <2>1. n - m \in T
        OBVIOUS
    <2>2. k =< n - m
        BY <1>2, <2>1
    <2>3. QED
        BY <1>3, <2>2
  <1>5. QED
      BY <1>4 DEF Max

\* Induction up to a number, on the numbers of a set.
LEMMA Induct ==
  ASSUME NEW n \in Nat, NEW X, 0 \in X,
         \A k \in 1 .. n : k - 1 \in X => k \in X
  PROVE  \A k \in 0 .. n : k \in X
  <1> DEFINE S == {k \in 0 .. n : k \notin X}
  <1>1. SUFFICES ASSUME S # {} PROVE FALSE
      OBVIOUS
  <1>2. Min(S) \in S /\ \A m \in S : Min(S) =< m
    <2>1. S \in SUBSET Nat
        OBVIOUS
    <2> HIDE DEF S
    <2>2. QED
        BY <1>1, <2>1, LeastNumber
  <1>3. PICK k \in S : \A m \in S : k =< m
      BY <1>2
  <1>4. k # 0 /\ k \in 1 .. n /\ k - 1 \notin S
      BY <1>3
  <1>5. k - 1 \in X
      BY <1>4
  <1>6. QED
      BY <1>4, <1>5

\* What the constants are.
LEMMA InterleaveConstants ==
  /\ VideoDuration \in Nat \ {0} /\ AudioDuration \in Nat \ {0}
  /\ NumTracks \in Tracks /\ 1 \in Tracks /\ Tracks \subseteq Sources
  /\ Sources \subseteq Nat /\ Video \in Sources /\ Video \notin Tracks
  /\ \A s \in Sources : s = Video \/ s \in Tracks
  BY InterleaveAssumption DEF Tracks, Sources, Video

Counts == [Sources -> Nat]

\* What the clocks and the counters are.
LEMMA SourceNumbers ==
  ASSUME beginning \in Beginnings, NEW n \in Counts, NEW s \in Sources
  PROVE  /\ Period(s) \in Nat \ {0} /\ Clock(s) \in Nat /\ Lag(s) \in Nat
         /\ Made(n, s) \in Nat
  <1>1. beginning \in [audio : [Tracks -> Nat], reorder : Nat]
      BY InterleaveAssumption
  <1>2. Period(s) \in Nat \ {0}
      BY InterleaveConstants DEF Period
  <1>3. Clock(s) \in Nat
      BY <1>1, InterleaveConstants, InterleaveAssumption DEF Clock
  <1>4. Lag(s) \in Nat
      BY <1>1, InterleaveConstants DEF Lag
  <1>5. n[s] \in Nat
      BY DEF Counts
  <1>6. Made(n, s) \in Nat
      BY <1>2, <1>5 DEF Made
  <1>7. QED
      BY <1>2, <1>3, <1>4, <1>6

\* A source makes a packet.
OneMore(n, m, s) ==
    m[s] = n[s] + 1 /\ \A u \in Sources : u # s => m[u] = n[u]

LEMMA MadeOneMore ==
  ASSUME beginning \in Beginnings, NEW n \in Counts, NEW m \in Counts,
         NEW s \in Sources, OneMore(n, m, s)
  PROVE  /\ Made(m, s) = Made(n, s) + Period(s) /\ m[s] > 0
         /\ \A u \in Sources : u # s => Made(m, u) = Made(n, u) /\ m[u] = n[u]
  <1>1. m[s] = n[s] + 1 /\ \A u \in Sources : u # s => m[u] = n[u]
      BY DEF OneMore
  <1>2. PICK c \in Nat : c = n[s]
      BY DEF Counts
  <1>3. PICK d \in Nat : d = Period(s)
      BY SourceNumbers
  <1>4. (c + 1) * d = c * d + d
      OBVIOUS
  <1>5. Made(m, s) = (c + 1) * d /\ Made(n, s) = c * d
      BY <1>1, <1>2, <1>3 DEF Made
  <1>6. \A u \in Sources : u # s => Made(m, u) = Made(n, u)
      BY <1>1, Zenon DEF Made
  <1>7. Made(m, s) = Made(n, s) + Period(s)
      BY <1>3, <1>4, <1>5
  <1>8. m[s] > 0
      BY <1>1, <1>2
  <1>9. QED
      BY <1>1, <1>6, <1>7, <1>8

\* The greater of two numbers is one of them.
LEMMA MaxOfTwo ==
  ASSUME NEW a \in Int, NEW b \in Int
  PROVE  /\ Max({a, b}) \in Int /\ Max({a, b}) \in {a, b}
         /\ a =< Max({a, b}) /\ b =< Max({a, b})
  <1>1. PICK x \in {a, b} : \A y \in {a, b} : y =< x
    <2>1. CASE a =< b
        BY <2>1
    <2>2. CASE ~(a =< b)
        BY <2>2
    <2>3. QED
        BY <2>1, <2>2
  <1>2. Max({a, b}) \in {a, b} /\ \A y \in {a, b} : y =< Max({a, b})
    <2>1. Max({a, b}) = CHOOSE z \in {a, b} : \A y \in {a, b} : z >= y
        BY DEF Max
    <2>2. \A y \in {a, b} : x >= y
        BY <1>1
    <2>3. PICK m : m = Max({a, b})
        OBVIOUS
    <2>4. m \in {a, b} /\ \A y \in {a, b} : m >= y
        BY <1>1, <2>1, <2>2, <2>3
    <2>5. QED
        BY <2>3, <2>4
  <1>3. QED
      BY <1>2

\* The bound of the gap is one of the two.
LEMMA GapBoundIs ==
  GapBound \in Nat /\ VideoDuration =< GapBound /\ AudioDuration - 1 =< GapBound
  <1> DEFINE S == {VideoDuration, AudioDuration - 1}
             n == VideoDuration + AudioDuration
  <1>1. n \in Nat /\ S \in SUBSET (0 .. n) /\ S # {}
      BY InterleaveAssumption
  <1>2. Max(S) \in S /\ \A m \in S : m =< Max(S)
    <2> HIDE DEF S, n
    <2>1. QED
        BY <1>1, GreatestNumber
  <1>3. QED
      BY <1>1, <1>2 DEF GapBound

-----------------------------------------------------------------------------
(* The buffer                                                               *)

\* Packets of a buffer are packets.
LEMMA InBufTyped ==
  ASSUME NEW buf \in Seq(Packets)
  PROVE  /\ DOMAIN buf = 1 .. Len(buf) /\ Len(buf) \in Nat
         /\ InBuf(buf) \subseteq Packets
         /\ \A p \in InBuf(buf) : /\ p.source \in Sources /\ p.dts_usec \in Int
                                  /\ p.pts \in Int /\ p.dts \in Int
  <1>1. DOMAIN buf = 1 .. Len(buf) /\ Len(buf) \in Nat
      OBVIOUS
  <1>2. InBuf(buf) \subseteq Packets
      BY <1>1 DEF InBuf
  <1>3. \A p \in Packets : /\ p.source \in Sources /\ p.dts_usec \in Int
                           /\ p.pts \in Int /\ p.dts \in Int
      BY DEF Packets
  <1>4. QED
      BY <1>1, <1>2, <1>3

\* The first packet of a source, and that there is none.
LEMMA FirstOfIs ==
  ASSUME NEW buf \in Seq(Packets), NEW s \in Sources
  PROVE  /\ FirstOf(buf, s) = 0 <=> None(buf, s)
         /\ FirstOf(buf, s) # 0 =>
                /\ FirstOf(buf, s) \in DOMAIN buf
                /\ buf[FirstOf(buf, s)].source = s
                /\ \A i \in DOMAIN buf :
                       buf[i].source = s => FirstOf(buf, s) =< i
  <1> DEFINE I == {i \in 1 .. Len(buf) : buf[i].source = s}
  <1>1. FirstOf(buf, s) = IF I # {} THEN Min(I) ELSE 0
      BY DEF FirstOf, SelectInSeq
  <1>2. I \in SUBSET Nat /\ DOMAIN buf = 1 .. Len(buf) /\ Len(buf) \in Nat
      OBVIOUS
  <1>3. I # {} => Min(I) \in I /\ \A i \in I : Min(I) =< i
    <2> HIDE DEF I
    <2>1. QED
        BY <1>2, LeastNumber
  <1>4. I = {} <=> None(buf, s)
      BY <1>2 DEF None, InBuf
  <1>5. QED
      BY <1>1, <1>2, <1>3, <1>4

\* The last packet of a source.
LEMMA LastOfIs ==
  ASSUME NEW buf \in Seq(Packets), NEW s \in Sources, ~None(buf, s)
  PROVE  /\ LastOf(buf, s) \in DOMAIN buf /\ buf[LastOf(buf, s)].source = s
         /\ \A i \in DOMAIN buf : buf[i].source = s => i =< LastOf(buf, s)
  <1> DEFINE I == {i \in 1 .. Len(buf) : buf[i].source = s}
  <1>1. LastOf(buf, s) = IF I # {} THEN Max(I) ELSE 0
      BY DEF LastOf, SelectLastInSeq
  <1>2. /\ I \in SUBSET (0 .. Len(buf)) /\ DOMAIN buf = 1 .. Len(buf)
        /\ Len(buf) \in Nat
      OBVIOUS
  <1>3. I # {}
      BY <1>2 DEF None, InBuf
  <1>4. Max(I) \in I /\ \A i \in I : i =< Max(I)
    <2> HIDE DEF I
    <2>1. QED
        BY <1>2, <1>3, GreatestNumber
  <1>5. QED
      BY <1>1, <1>2, <1>3, <1>4

\* Which sources are missing.
LEMMA MissingIs ==
  ASSUME NEW buf \in Seq(Packets), NEW s \in Sources
  PROVE  s \in Missing(buf) <=> None(buf, s)
  BY FirstOfIs DEF Missing

\* In a sorted buffer the first packet of a source is before the others of it.
LEMMA FirstIsFirst ==
  ASSUME NEW buf \in Seq(Packets), Sorted(buf), NEW s \in Sources, ~None(buf, s)
  PROVE  /\ FirstOf(buf, s) \in DOMAIN buf
         /\ buf[FirstOf(buf, s)].source = s
         /\ FirstIn(buf, buf[FirstOf(buf, s)])
  <1> DEFINE f == FirstOf(buf, s)
  <1>1. /\ f \in DOMAIN buf /\ buf[f].source = s
        /\ \A i \in DOMAIN buf : buf[i].source = s => f =< i
      BY FirstOfIs
  <1>2. DOMAIN buf = 1 .. Len(buf) /\ Len(buf) \in Nat
      BY InBufTyped
  <1> HIDE DEF f
  <1>3. ASSUME NEW q \in InBuf(buf), q.source = s
        PROVE  q = buf[f] \/ buf[f].dts_usec < q.dts_usec
    <2>1. PICK i \in DOMAIN buf : q = buf[i]
        BY DEF InBuf
    <2>2. i = f \/ f < i
        BY <1>1, <1>2, <1>3, <2>1
    <2>3. CASE f < i
        BY <1>1, <1>3, <2>1, <2>3 DEF Sorted, Before
    <2>4. QED
        BY <2>1, <2>2, <2>3
  <1>4. buf[f] \in InBuf(buf)
      BY <1>1 DEF InBuf
  <1>5. QED
      BY <1>1, <1>3, <1>4 DEF FirstIn, f

\* What is left when the first packets of a buffer are discarded.
LEMMA DiscardIs ==
  ASSUME NEW buf \in Seq(Packets), Sorted(buf), NEW n \in 0 .. Len(buf)
  PROVE  LET r == Discard(buf, n)
         IN  /\ r \in Seq(Packets) /\ Sorted(r) /\ Len(r) = Len(buf) - n
             /\ InBuf(r) = {buf[i] : i \in n + 1 .. Len(buf)}
             /\ InBuf(r) \subseteq InBuf(buf)
  <1> DEFINE r == Discard(buf, n)
  <1>1. /\ \A i \in 1 .. Len(buf) : buf[i] \in Packets
        /\ DOMAIN buf = 1 .. Len(buf) /\ Len(buf) \in Nat
      OBVIOUS
  <1>2. /\ r \in Seq(Packets) /\ Len(r) = Len(buf) - n
        /\ \A i \in 1 .. Len(buf) - n : r[i] = buf[i + n]
    <2>1. \A i \in n + 1 .. Len(buf) : buf[i] \in Packets
        BY <1>1
    <2>2. QED
      <3>1. PICK m \in Int : m = n + 1
          BY <1>1
      <3> DEFINE q == SubSeq(buf, m, Len(buf))
      <3>2. \A i \in m .. Len(buf) : buf[i] \in Packets
          BY <2>1, <3>1
      <3>3. /\ q \in Seq(Packets)
            /\ Len(q) = IF m <= Len(buf) THEN Len(buf) - m + 1 ELSE 0
            /\ \A i \in 1 .. Len(buf) - m + 1 : q[i] = buf[m + i - 1]
          BY <1>1, <3>2, SubSeqProperties
      <3>4. r = q
          BY <3>1, Zenon DEF Discard
      <3> HIDE DEF q, r
      <3>5. Len(buf) - m + 1 = Len(buf) - n /\ n =< Len(buf) /\ n \in Nat
          BY <1>1, <3>1
      <3>6. Len(q) = Len(buf) - n
        <4>1. Len(q) = IF m <= Len(buf) THEN Len(buf) - m + 1 ELSE 0
            BY <3>3
        <4>2. CASE m <= Len(buf)
            BY <3>5, <4>1, <4>2
        <4>3. CASE ~(m <= Len(buf))
          <5>1. PICK l \in Nat : l = Len(buf)
              BY <1>1
          <5>2. ~(m <= l) /\ n =< l
              BY <3>5, <4>3, <5>1
          <5>3. l - n = 0
            <6>1. n \in Nat /\ m = n + 1
                BY <3>1, <3>5
            <6>2. n = l
                BY <5>1, <5>2, <6>1
            <6>3. QED
                BY <6>1, <6>2
          <5>4. QED
              BY <4>1, <4>3, <5>1, <5>3
        <4>4. QED
            BY <4>2, <4>3
      <3>7. \A i \in 1 .. Len(buf) - n : m + i - 1 = i + n
          BY <3>1, <3>5
      <3>8. QED
          BY <3>3, <3>4, <3>5, <3>6, <3>7
  <1> HIDE DEF r
  <1>3. DOMAIN r = 1 .. Len(buf) - n
      BY <1>2
  <1>4. Sorted(r)
    <2> SUFFICES ASSUME NEW i \in DOMAIN r, NEW j \in DOMAIN r, i < j
                 PROVE  Before(r[i], r[j])
        BY DEF Sorted
    <2>1. /\ i + n \in DOMAIN buf /\ j + n \in DOMAIN buf /\ i + n < j + n
          /\ r[i] = buf[i + n] /\ r[j] = buf[j + n]
        BY <1>1, <1>2, <1>3
    <2>2. QED
        BY <2>1, Zenon DEF Sorted
  <1>5. InBuf(r) = {buf[i] : i \in n + 1 .. Len(buf)}
    <2>1. ASSUME NEW i \in DOMAIN r
          PROVE  \E k \in n + 1 .. Len(buf) : r[i] = buf[k]
      <3>1. i + n \in n + 1 .. Len(buf) /\ r[i] = buf[i + n]
          BY <1>1, <1>2, <1>3
      <3>2. QED
          BY <3>1, Zenon
    <2>2. ASSUME NEW k \in n + 1 .. Len(buf)
          PROVE  \E i \in DOMAIN r : r[i] = buf[k]
      <3>1. PICK i \in Int : i = k - n
          OBVIOUS
      <3>2. i \in DOMAIN r /\ r[i] = buf[i + n] /\ i + n = k
          BY <1>1, <1>2, <1>3, <3>1
      <3>3. QED
          BY <3>2, Zenon
    <2>3. QED
        BY <2>1, <2>2 DEF InBuf
  <1>6. InBuf(r) \subseteq InBuf(buf)
    <2>1. \A i \in n + 1 .. Len(buf) : i \in DOMAIN buf
        BY <1>1
    <2>2. QED
        BY <1>5, <2>1, Zenon DEF InBuf
  <1>7. QED
      BY <1>2, <1>4, <1>5, <1>6 DEF r

\* A packet is left exactly when its place is not among the first.
LEMMA DiscardKeeps ==
  ASSUME NEW buf \in Seq(Packets), Sorted(buf), NEW n \in 0 .. Len(buf),
         NEW i \in DOMAIN buf
  PROVE  buf[i] \in InBuf(Discard(buf, n)) <=> n < i
  <1>1. /\ DOMAIN buf = 1 .. Len(buf) /\ Len(buf) \in Nat
        /\ \A k \in DOMAIN buf : buf[k].dts_usec \in Int
    <2>1. \A k \in DOMAIN buf : buf[k] \in InBuf(buf)
        BY DEF InBuf
    <2>2. QED
        BY <2>1, InBufTyped
  <1>2. InBuf(Discard(buf, n)) = {buf[k] : k \in n + 1 .. Len(buf)}
      BY DiscardIs
  <1>3. CASE n < i
      BY <1>1, <1>2, <1>3
  <1>4. ASSUME ~(n < i), buf[i] \in InBuf(Discard(buf, n)) PROVE FALSE
    <2>1. PICK k \in n + 1 .. Len(buf) : buf[i] = buf[k]
        BY <1>2, <1>4
    <2>2. k \in DOMAIN buf /\ i < k
        BY <1>1, <1>4
    <2>3. Before(buf[i], buf[k])
        BY <2>2 DEF Sorted
    <2>4. QED
        BY <1>1, <2>1, <2>2, <2>3 DEF Before
  <1>5. QED
      BY <1>3, <1>4

\* The packet r is buf with p put in its place.
Adds(r, buf, p) ==
    /\ r \in Seq(Packets) /\ Sorted(r) /\ r # <<>>
    /\ InBuf(r) = InBuf(buf) \cup {p}

\* Before and after.
LEMMA BeforeOrAfter ==
  ASSUME NEW p \in Packets, NEW q \in Packets,
         q.source = p.source => q.dts_usec < p.dts_usec
  PROVE  IF \/ p.dts_usec < q.dts_usec
            \/ p.dts_usec = q.dts_usec /\ p.source = Video
         THEN Before(p, q) ELSE Before(q, p)
  <1>1. p.dts_usec \in Int /\ q.dts_usec \in Int
      BY DEF Packets
  <1>2. QED
      BY <1>1 DEF Before

LEMMA BeforeGoesOn ==
  ASSUME NEW p \in Packets, NEW q \in Packets, NEW r \in Packets,
         \/ p.dts_usec < q.dts_usec
         \/ p.dts_usec = q.dts_usec /\ p.source = Video,
         r.source = p.source => r.dts_usec < p.dts_usec,
         Before(q, r)
  PROVE  Before(p, r)
  <1>1. p.dts_usec \in Int /\ q.dts_usec \in Int /\ r.dts_usec \in Int
      BY DEF Packets
  <1>2. QED
      BY <1>1 DEF Before

\* insert_interleaved_packet keeps the order.
LEMMA InsertIs ==
  ASSUME NEW buf \in Seq(Packets), Sorted(buf), NEW p \in Packets,
         \A q \in InBuf(buf) : q.source = p.source => q.dts_usec < p.dts_usec
  PROVE  Adds(Insert(buf, p), buf, p)
  <1> DEFINE later(q) == \/ p.dts_usec < q.dts_usec
                         \/ p.dts_usec = q.dts_usec /\ p.source = Video
             I == {i \in 1 .. Len(buf) : later(buf[i])}
             first == IF I # {} THEN Min(I) ELSE 0
             at == IF first = 0 THEN Len(buf) + 1 ELSE first
             r == Insert(buf, p)
  <1>1. /\ DOMAIN buf = 1 .. Len(buf) /\ Len(buf) \in Nat
        /\ \A i \in 1 .. Len(buf) : buf[i] \in Packets /\ buf[i] \in InBuf(buf)
      BY DEF InBuf
  <1>2. r = SubSeq(buf, 1, at - 1) \o <<p>> \o SubSeq(buf, at, Len(buf))
      BY DEF Insert, SelectInSeq, InsertAt
  <1>3. /\ at \in 1 .. Len(buf) + 1
        /\ \A i \in 1 .. at - 1 : ~later(buf[i])
        /\ at =< Len(buf) => later(buf[at])
    <2>1. I # {} => Min(I) \in I /\ \A i \in I : Min(I) =< i
      <3>1. I \in SUBSET Nat
          OBVIOUS
      <3> HIDE DEF I
      <3>2. QED
          BY <3>1, LeastNumber
    <2>2. CASE I = {}
      <3>1. at = Len(buf) + 1
          BY <2>2
      <3>2. \A i \in 1 .. Len(buf) : ~later(buf[i])
          BY <2>2
      <3> HIDE DEF at, later
      <3>3. QED
          BY <1>1, <3>1, <3>2
    <2>3. CASE I # {}
      <3>1. at = Min(I) /\ Min(I) \in I /\ \A i \in I : Min(I) =< i
          BY <2>1, <2>3
      <3>2. at \in 1 .. Len(buf) /\ later(buf[at])
          BY <3>1
      <3>3. ASSUME NEW i \in 1 .. at - 1, later(buf[i]) PROVE FALSE
        <4> HIDE DEF at, later
        <4>1. i \in 1 .. Len(buf) /\ i < at
            BY <1>1, <3>2
        <4>2. i \in I
            BY <3>3, <4>1
        <4> HIDE DEF I
        <4>3. QED
            BY <3>1, <3>2, <4>1, <4>2
      <3> HIDE DEF at, later
      <3>4. QED
          BY <1>1, <3>2, <3>3
    <2>4. QED
        BY <2>2, <2>3
  <1> HIDE DEF at, first, I
  <1>4. /\ \A i \in 1 .. at - 1 : Before(buf[i], p)
        /\ \A i \in at .. Len(buf) : Before(p, buf[i])
    <2>1. ASSUME NEW i \in 1 .. at - 1 PROVE Before(buf[i], p)
      <3>1. i \in 1 .. Len(buf) /\ ~later(buf[i])
          BY <1>1, <1>3
      <3>2. QED
          BY <1>1, <3>1, BeforeOrAfter
    <2>2. ASSUME NEW i \in at .. Len(buf) PROVE Before(p, buf[i])
      <3>1. /\ i \in 1 .. Len(buf) /\ at \in 1 .. Len(buf) /\ later(buf[at])
            /\ i = at \/ at < i
          BY <1>1, <1>3
      <3>2. Before(p, buf[at])
          BY <1>1, <3>1, BeforeOrAfter
      <3>3. CASE at < i
        <4>1. Before(buf[at], buf[i])
            BY <1>1, <3>1, <3>3 DEF Sorted
        <4>2. QED
            BY <1>1, <3>1, <4>1, BeforeGoesOn
      <3>4. QED
          BY <3>1, <3>2, <3>3
    <2>3. QED
        BY <2>1, <2>2
  <1> HIDE DEF later
  <1>5. /\ r \in Seq(Packets) /\ Len(r) = Len(buf) + 1 /\ r[at] = p
        /\ \A i \in 1 .. at - 1 : r[i] = buf[i]
        /\ \A i \in at + 1 .. Len(buf) + 1 : r[i] = buf[i - 1]
    <2> DEFINE a == SubSeq(buf, 1, at - 1)
               b == SubSeq(buf, at, Len(buf))
    <2>1. /\ a \in Seq(Packets) /\ Len(a) = at - 1
          /\ \A i \in 1 .. at - 1 : a[i] = buf[i]
      <3>1. \A i \in 1 .. at - 1 : buf[i] \in Packets
          BY <1>1, <1>3
      <3>2. QED
          BY <1>1, <1>3, <3>1, SubSeqProperties
    <2>2. /\ b \in Seq(Packets) /\ Len(b) = Len(buf) - at + 1
          /\ \A i \in 1 .. Len(buf) - at + 1 : b[i] = buf[at + i - 1]
      <3>1. \A i \in at .. Len(buf) : buf[i] \in Packets
          BY <1>1, <1>3
      <3>2. QED
          BY <1>1, <1>3, <3>1, SubSeqProperties
    <2> HIDE DEF a, b
    <2>3. r = a \o <<p>> \o b
        BY <1>2 DEF a, b
    <2> HIDE DEF r
    <2>4. /\ r \in Seq(Packets) /\ Len(r) = at + (Len(buf) - at + 1)
          /\ r[at] = p /\ \A i \in 1 .. at - 1 : r[i] = a[i]
          /\ \A i \in at + 1 .. Len(buf) + 1 : r[i] = b[i - at]
      <3> DEFINE m == <<p>>
                 am == a \o m
      <3>1. m \in Seq(Packets) /\ Len(m) = 1 /\ m[1] = p
          OBVIOUS
      <3> HIDE DEF m
      <3>2. /\ am \in Seq(Packets) /\ Len(am) = at /\ am[at] = p
            /\ \A i \in 1 .. at - 1 : am[i] = a[i]
        <4>1. /\ am \in Seq(Packets) /\ Len(am) = Len(a) + Len(m)
              /\ \A i \in 1 .. Len(a) + Len(m) :
                     am[i] = IF i <= Len(a) THEN a[i] ELSE m[i - Len(a)]
            BY <2>1, <3>1, ConcatProperties
        <4> HIDE DEF am
        <4>2. Len(a) + Len(m) = at /\ Len(a) = at - 1 /\ at - Len(a) = 1
            BY <1>1, <1>3, <2>1, <3>1
        <4>3. am[at] = m[1]
            BY <1>3, <4>1, <4>2
        <4>4. \A i \in 1 .. at - 1 : am[i] = a[i]
            BY <1>1, <1>3, <4>1, <4>2
        <4>5. QED
            BY <3>1, <4>1, <4>2, <4>3, <4>4
      <3>3. r = am \o b
          BY <2>3 DEF m
      <3> HIDE DEF am
      <3>4. /\ r \in Seq(Packets) /\ Len(r) = at + (Len(buf) - at + 1)
            /\ \A i \in 1 .. at : r[i] = am[i]
            /\ \A i \in at + 1 .. Len(buf) + 1 : r[i] = b[i - at]
        <4>1. /\ r \in Seq(Packets) /\ Len(r) = Len(am) + Len(b)
              /\ \A i \in 1 .. Len(am) + Len(b) :
                     r[i] = IF i <= Len(am) THEN am[i] ELSE b[i - Len(am)]
            BY <2>2, <3>2, <3>3, ConcatProperties
        <4>2. QED
            BY <1>1, <1>3, <2>2, <3>2, <4>1
      <3>5. QED
          BY <1>1, <1>3, <3>2, <3>4
    <2>5. ASSUME NEW i \in at + 1 .. Len(buf) + 1 PROVE b[i - at] = buf[i - 1]
      <3>1. i - at \in 1 .. Len(buf) - at + 1 /\ at + (i - at) - 1 = i - 1
          BY <1>1, <1>3
      <3>2. QED
          BY <2>2, <3>1
    <2>6. QED
        BY <1>1, <1>3, <2>1, <2>4, <2>5
  <1> HIDE DEF r
  <1>6. DOMAIN r = 1 .. Len(buf) + 1
      BY <1>1, <1>5
  <1>7. Sorted(r)
    <2> SUFFICES ASSUME NEW i \in DOMAIN r, NEW j \in DOMAIN r, i < j
                 PROVE  Before(r[i], r[j])
        BY DEF Sorted
    <2>1. CASE j < at
      <3>1. /\ r[i] = buf[i] /\ r[j] = buf[j]
            /\ i \in DOMAIN buf /\ j \in DOMAIN buf
          BY <1>1, <1>3, <1>5, <1>6, <2>1
      <3>2. QED
          BY <3>1 DEF Sorted
    <2>2. CASE j = at
      <3>1. r[i] = buf[i] /\ r[j] = p /\ i \in 1 .. at - 1
          BY <1>1, <1>3, <1>5, <1>6, <2>2
      <3>2. QED
          BY <1>4, <3>1
    <2>3. CASE i = at
      <3>1. r[i] = p /\ r[j] = buf[j - 1] /\ j - 1 \in at .. Len(buf)
          BY <1>1, <1>3, <1>5, <1>6, <2>3
      <3>2. QED
          BY <1>4, <3>1
    <2>4. CASE i < at /\ at < j
      <3>1. /\ r[i] = buf[i] /\ r[j] = buf[j - 1] /\ i < j - 1
            /\ i \in DOMAIN buf /\ j - 1 \in DOMAIN buf
          BY <1>1, <1>3, <1>5, <1>6, <2>4
      <3>2. QED
          BY <3>1 DEF Sorted
    <2>5. CASE at < i
      <3>1. /\ r[i] = buf[i - 1] /\ r[j] = buf[j - 1] /\ i - 1 < j - 1
            /\ i - 1 \in DOMAIN buf /\ j - 1 \in DOMAIN buf
          BY <1>1, <1>3, <1>5, <1>6, <2>5
      <3>2. QED
          BY <3>1 DEF Sorted
    <2>6. QED
        BY <1>1, <1>3, <1>6, <2>1, <2>2, <2>3, <2>4, <2>5
  <1>8. InBuf(r) = InBuf(buf) \cup {p}
    <2>1. ASSUME NEW i \in DOMAIN r PROVE r[i] \in InBuf(buf) \cup {p}
      <3>1. \/ i \in 1 .. Len(buf) /\ r[i] = buf[i]
            \/ r[i] = p
            \/ i - 1 \in 1 .. Len(buf) /\ r[i] = buf[i - 1]
          BY <1>1, <1>3, <1>5, <1>6
      <3>2. QED
          BY <1>1, <3>1
    <2>2. ASSUME NEW i \in DOMAIN buf PROVE buf[i] \in InBuf(r)
      <3>1. CASE i < at
        <4>1. i \in DOMAIN r /\ r[i] = buf[i]
            BY <1>1, <1>3, <1>5, <1>6, <3>1
        <4>2. QED
            BY <4>1 DEF InBuf
      <3>2. CASE ~(i < at)
        <4>1. PICK j \in Int : j = i + 1
            BY <1>1
        <4>2. j \in at + 1 .. Len(buf) + 1 /\ j - 1 = i
            BY <1>1, <1>3, <3>2, <4>1
        <4>3. j \in DOMAIN r /\ r[j] = buf[i]
            BY <1>1, <1>3, <1>5, <1>6, <4>2
        <4>4. QED
            BY <4>3 DEF InBuf
      <3>3. QED
          BY <3>1, <3>2
    <2>3. p \in InBuf(r)
        BY <1>1, <1>3, <1>5, <1>6 DEF InBuf
    <2>4. QED
        BY <2>1, <2>2, <2>3 DEF InBuf
  <1>9. r # <<>>
      BY <1>1, <1>5
  <1>10. QED
      BY <1>5, <1>7, <1>8, <1>9 DEF Adds, r

\* What is left when the first packet is sent.
LEMMA HeadTailIs ==
  ASSUME NEW buf \in Seq(Packets), Sorted(buf), buf # <<>>
  PROVE  /\ Head(buf) \in InBuf(buf) /\ FirstIn(buf, Head(buf))
         /\ Tail(buf) \in Seq(Packets) /\ Sorted(Tail(buf))
         /\ InBuf(Tail(buf)) \subseteq InBuf(buf)
         /\ \A q \in InBuf(buf) : q = Head(buf) \/ q \in InBuf(Tail(buf))
  <1>1. /\ DOMAIN buf = 1 .. Len(buf) /\ Len(buf) \in Nat \ {0}
        /\ Head(buf) = buf[1]
      OBVIOUS
  <1>2. /\ Tail(buf) \in Seq(Packets) /\ Len(Tail(buf)) = Len(buf) - 1
        /\ DOMAIN Tail(buf) = 1 .. Len(buf) - 1
        /\ \A i \in 1 .. Len(buf) - 1 : Tail(buf)[i] = buf[i + 1]
      OBVIOUS
  <1> DEFINE h == Head(buf)
             r == Tail(buf)
  <1>3. /\ h = buf[1] /\ r \in Seq(Packets) /\ DOMAIN r = 1 .. Len(buf) - 1
        /\ \A i \in 1 .. Len(buf) - 1 : r[i] = buf[i + 1]
      BY <1>1, <1>2
  <1> HIDE DEF h, r
  <1>4. h \in InBuf(buf)
      BY <1>1, <1>3 DEF InBuf
  <1>5. FirstIn(buf, h)
    <2>1. ASSUME NEW q \in InBuf(buf), q.source = h.source
          PROVE  q = h \/ h.dts_usec < q.dts_usec
      <3>1. PICK i \in DOMAIN buf : q = buf[i]
          BY DEF InBuf
      <3>2. CASE i = 1
          BY <1>3, <3>1, <3>2
      <3>3. CASE i # 1
        <4>1. 1 \in DOMAIN buf /\ 1 < i
            BY <1>1, <3>3
        <4>2. Before(buf[1], buf[i])
            BY <4>1, Zenon DEF Sorted
        <4>3. QED
            BY <1>3, <2>1, <3>1, <4>2 DEF Before
      <3>4. QED
          BY <3>2, <3>3
    <2>2. QED
        BY <1>4, <2>1 DEF FirstIn
  <1>6. Sorted(r)
    <2> SUFFICES ASSUME NEW i \in DOMAIN r, NEW j \in DOMAIN r, i < j
                 PROVE  Before(r[i], r[j])
        BY DEF Sorted
    <2>1. /\ i + 1 \in DOMAIN buf /\ j + 1 \in DOMAIN buf /\ i + 1 < j + 1
          /\ r[i] = buf[i + 1] /\ r[j] = buf[j + 1]
        BY <1>1, <1>3
    <2>2. QED
        BY <2>1, Zenon DEF Sorted
  <1>7. InBuf(r) \subseteq InBuf(buf)
    <2>1. ASSUME NEW i \in DOMAIN r PROVE \E k \in DOMAIN buf : r[i] = buf[k]
      <3>1. i + 1 \in DOMAIN buf /\ r[i] = buf[i + 1]
          BY <1>1, <1>3
      <3>2. QED
          BY <3>1, Zenon
    <2>2. QED
        BY <2>1, Zenon DEF InBuf
  <1>8. ASSUME NEW q \in InBuf(buf) PROVE q = h \/ q \in InBuf(r)
    <2>1. PICK i \in DOMAIN buf : q = buf[i]
        BY DEF InBuf
    <2>2. CASE i = 1
        BY <1>3, <2>1, <2>2
    <2>3. CASE i # 1
      <3>1. PICK k \in Int : k = i - 1
          BY <1>1
      <3>2. k \in DOMAIN r /\ k + 1 = i
          BY <1>1, <1>3, <2>3, <3>1
      <3>3. r[k] = q
          BY <1>3, <2>1, <3>2
      <3>4. QED
          BY <3>2, <3>3, Zenon DEF InBuf
    <2>4. QED
        BY <2>2, <2>3
  <1>9. QED
      BY <1>3, <1>4, <1>5, <1>6, <1>7, <1>8 DEF h, r

-----------------------------------------------------------------------------
(* Inserting the packets of a buffer one after the other                    *)

\* One step of the fold, on the numbers of a set from its greatest on.
Fold(seq, g, S) ==
    IF S = {} THEN <<>> ELSE Insert(g[S \ {Max(S)}], seq[Max(S)])

IsFold(seq, g, n) == g = [S \in SUBSET (1 .. n) |-> Fold(seq, g, S)]

\* The fold has a result, by induction on the length.
LEMMA FoldExists ==
  ASSUME NEW seq, NEW n \in Nat
  PROVE  \E g : IsFold(seq, g, n)
  <1> DEFINE X == {k \in 0 .. n : \E g : IsFold(seq, g, k)}
  <1>1. 0 \in X
    <2> DEFINE g == [S \in SUBSET (1 .. 0) |-> <<>>]
    <2>1. \A S \in SUBSET (1 .. 0) : S = {}
        OBVIOUS
    <2>2. \A S \in SUBSET (1 .. 0) : g[S] = Fold(seq, g, S)
        BY <2>1 DEF Fold
    <2>3. IsFold(seq, g, 0)
        BY <2>2, Zenon DEF IsFold
    <2>4. QED
        BY <2>3
  <1>2. ASSUME NEW k \in 1 .. n, k - 1 \in X PROVE k \in X
    <2>1. PICK g : IsFold(seq, g, k - 1)
        BY <1>2
    <2> DEFINE h == [S \in SUBSET (1 .. k) |->
                        IF k \in S THEN Fold(seq, g, S) ELSE g[S]]
    <2>2. ASSUME NEW S \in SUBSET (1 .. k) PROVE h[S] = Fold(seq, h, S)
      <3>1. CASE k \in S
        <4>1. Max(S) = k
          <5>1. S \in SUBSET (0 .. k)
              OBVIOUS
          <5>2. Max(S) \in S /\ \A m \in S : m =< Max(S)
              BY <3>1, <5>1, GreatestNumber
          <5>3. PICK m \in S : m = Max(S)
              BY <5>2
          <5>4. m \in Nat /\ m =< k /\ k =< m
              BY <3>1, <5>2, <5>3
          <5>5. QED
              BY <5>3, <5>4
        <4>2. /\ S \ {k} \in SUBSET (1 .. k) /\ k \notin S \ {k} /\ S # {}
            BY <3>1
        <4>3. h[S \ {k}] = g[S \ {k}]
            BY <4>2
        <4>4. h[S] = Fold(seq, g, S)
            BY <3>1
        <4> HIDE DEF h
        <4>5. QED
            BY <4>1, <4>3, <4>4 DEF Fold
      <3>2. CASE k \notin S
        <4>1. S \in SUBSET (1 .. k - 1) /\ h[S] = g[S]
            BY <3>2
        <4>2. g[S] = Fold(seq, g, S)
            BY <2>1, <4>1, Zenon DEF IsFold
        <4>3. CASE S = {}
            BY <4>1, <4>2, <4>3 DEF Fold
        <4>4. CASE S # {}
          <5>1. /\ S \ {Max(S)} \in SUBSET (1 .. k)
                /\ k \notin S \ {Max(S)}
              BY <3>2
          <5>2. h[S \ {Max(S)}] = g[S \ {Max(S)}]
              BY <5>1
          <5> HIDE DEF h
          <5>3. QED
              BY <4>1, <4>2, <5>2 DEF Fold
        <4>5. QED
            BY <4>3, <4>4
      <3>3. QED
          BY <3>1, <3>2
    <2>3. IsFold(seq, h, k)
        BY <2>2, Zenon DEF IsFold
    <2>4. QED
        BY <2>3
  <1> HIDE DEF X
  <1>3. n \in 0 .. n
      OBVIOUS
  <1>4. n \in X
      BY <1>1, <1>2, <1>3, Induct
  <1>5. QED
      BY <1>4 DEF X

\* Start's FoldLeft is the fold of the whole sequence.
LEMMA FoldLeftIs ==
  ASSUME NEW seq \in Seq(Packets)
  PROVE  \E g : /\ IsFold(seq, g, Len(seq))
                /\ FoldLeft(Insert, <<>>, seq) = g[1 .. Len(seq)]
  <1> DEFINE g == CHOOSE g : IsFold(seq, g, Len(seq))
  <1>1. IsFold(seq, g, Len(seq))
    <2>1. Len(seq) \in Nat
        OBVIOUS
    <2>2. QED
        BY <2>1, FoldExists
  <1>2. DOMAIN seq = 1 .. Len(seq)
      OBVIOUS
  <1>3. FoldLeft(Insert, <<>>, seq) = g[1 .. Len(seq)]
      BY <1>2 DEF FoldLeft, MapThenFoldSet, IsFold, Fold
  <1>4. QED
      BY <1>1, <1>3

\* What the fold returns: the packets of the sequence, sorted.
LEMMA FoldInserts ==
  ASSUME NEW seq \in Seq(Packets), seq # <<>>,
         \A i, j \in DOMAIN seq :
             i < j /\ seq[i].source = seq[j].source
                 => seq[i].dts_usec < seq[j].dts_usec
  PROVE  LET r == FoldLeft(Insert, <<>>, seq)
         IN  /\ r \in Seq(Packets) /\ Sorted(r) /\ r # <<>>
             /\ InBuf(r) = InBuf(seq)
  <1>1. PICK g : /\ IsFold(seq, g, Len(seq))
                 /\ FoldLeft(Insert, <<>>, seq) = g[1 .. Len(seq)]
      BY FoldLeftIs
  <1>2. /\ Len(seq) \in Nat \ {0} /\ DOMAIN seq = 1 .. Len(seq)
        /\ \A i \in 1 .. Len(seq) : seq[i] \in Packets
      OBVIOUS
  <1> DEFINE Good(k) ==
                 /\ g[1 .. k] \in Seq(Packets) /\ Sorted(g[1 .. k])
                 /\ k # 0 => g[1 .. k] # <<>>
                 /\ InBuf(g[1 .. k]) = {seq[i] : i \in 1 .. k}
             X == {k \in 0 .. Len(seq) : Good(k)}
  <1>3. 0 \in X
    <2>1. 1 .. 0 = {} /\ {} \in SUBSET (1 .. Len(seq))
        OBVIOUS
    <2>2. g[1 .. 0] = <<>>
        BY <1>1, <2>1 DEF IsFold, Fold
    <2>3. <<>> \in Seq(Packets) /\ DOMAIN <<>> = {}
        OBVIOUS
    <2>4. Sorted(<<>>) /\ InBuf(<<>>) = {}
        BY <2>3, Zenon DEF Sorted, InBuf
    <2>5. {seq[i] : i \in 1 .. 0} = {}
        BY <2>1
    <2>6. Good(0)
        BY <2>2, <2>3, <2>4, <2>5
    <2> HIDE DEF Good
    <2>7. QED
        BY <1>2, <2>6
  <1>4. ASSUME NEW k \in 1 .. Len(seq), k - 1 \in X PROVE k \in X
    <2>1. Good(k - 1)
        BY <1>4
    <2> DEFINE b == g[1 .. k - 1]
    <2>2. g[1 .. k] = Insert(b, seq[k])
      <3>1. /\ 1 .. k \in SUBSET (1 .. Len(seq)) /\ 1 .. k # {}
            /\ (1 .. k) \ {k} = 1 .. k - 1
          BY <1>2
      <3>2. Max(1 .. k) = k
        <4>1. Max(1 .. k) \in 1 .. k /\ \A m \in 1 .. k : m =< Max(1 .. k)
          <5>1. 1 .. k \in SUBSET (0 .. k) /\ k \in Nat
              BY <1>2
          <5>2. QED
              BY <3>1, <5>1, GreatestNumber
        <4>2. PICK m \in 1 .. k : m = Max(1 .. k)
            BY <4>1
        <4>3. k =< m
            BY <4>1, <4>2
        <4>4. QED
            BY <4>2, <4>3
      <3>3. g[1 .. k] = Fold(seq, g, 1 .. k)
          BY <1>1, <3>1, Zenon DEF IsFold
      <3>4. QED
          BY <3>1, <3>2, <3>3, Zenon DEF Fold
    <2>3. b \in Seq(Packets) /\ Sorted(b) /\ seq[k] \in Packets
        BY <1>2, <2>1
    <2>4. ASSUME NEW q \in InBuf(b), q.source = seq[k].source
          PROVE  q.dts_usec < seq[k].dts_usec
      <3>1. PICK i \in 1 .. k - 1 : q = seq[i]
          BY <2>1, Zenon
      <3>2. i \in DOMAIN seq /\ k \in DOMAIN seq /\ i < k
          BY <1>2
      <3>3. QED
          BY <2>4, <3>1, <3>2
    <2>5. Adds(Insert(b, seq[k]), b, seq[k])
      <3> HIDE DEF b
      <3>1. QED
          BY <2>3, <2>4, InsertIs
    <2>6. InBuf(b) \cup {seq[k]} = {seq[i] : i \in 1 .. k}
      <3>1. InBuf(b) = {seq[i] : i \in 1 .. k - 1}
          BY <2>1
      <3>2. \A i \in 1 .. k : i \in 1 .. k - 1 \/ i = k
          OBVIOUS
      <3>3. \A i \in 1 .. k - 1 : i \in 1 .. k
          OBVIOUS
      <3>4. k \in 1 .. k
          OBVIOUS
      <3> HIDE DEF b
      <3>5. QED
          BY <3>1, <3>2, <3>3, <3>4
    <2>7. Good(k)
        BY <2>2, <2>5, <2>6 DEF Adds
    <2> HIDE DEF Good
    <2>8. QED
        BY <1>2, <2>7
  <1> HIDE DEF X
  <1>5. Len(seq) \in 0 .. Len(seq) /\ Len(seq) \in Nat
      BY <1>2
  <1>6. Len(seq) \in X
      BY <1>3, <1>4, <1>5, Induct
  <1>7. Good(Len(seq))
      BY <1>6 DEF X
  <1>8. InBuf(seq) = {seq[i] : i \in 1 .. Len(seq)}
      BY <1>2 DEF InBuf
  <1>9. QED
      BY <1>1, <1>2, <1>7, <1>8

-----------------------------------------------------------------------------
(* Waiting for the streams                                                  *)

\* The packets of a source come before the ones it has still to make.
LEMMA UnmovedIsBefore ==
  ASSUME beginning \in Beginnings, NEW n \in Counts, NEW p \in Packets,
         Unmoved(p, n)
  PROVE  /\ p.dts_usec + Period(p.source)
                =< Clock(p.source) + Made(n, p.source)
         /\ p.dts_usec < Clock(p.source) + Made(n, p.source)
         /\ p.source # Video =>
                p.dts_usec + AudioDuration
                    =< Clock(p.source) + Made(n, p.source)
  <1>1. p.source \in Sources /\ p.dts_usec \in Int /\ p.pts \in Int
      BY DEF Packets
  <1>2. /\ Period(p.source) \in Nat \ {0} /\ Clock(p.source) \in Nat
        /\ Made(n, p.source) \in Nat
        /\ p.source # Video => Period(p.source) = AudioDuration
      BY <1>1, SourceNumbers DEF Period
  <1>3. /\ p.pts + Period(p.source) =< Made(n, p.source)
        /\ p.dts_usec = Clock(p.source) + p.pts
      BY DEF Unmoved
  <1>4. /\ p.dts_usec + Period(p.source)
                =< Clock(p.source) + Made(n, p.source)
        /\ p.dts_usec < Clock(p.source) + Made(n, p.source)
    <2>1. PICK c \in Nat : c = Clock(p.source)
        BY <1>2
    <2>2. PICK d \in Nat \ {0} : d = Period(p.source)
        BY <1>2
    <2>3. PICK e \in Nat : e = Made(n, p.source)
        BY <1>2
    <2>4. p.pts + d =< e /\ p.dts_usec = c + p.pts
        BY <1>3, <2>1, <2>2, <2>3
    <2>5. p.dts_usec + d =< c + e /\ p.dts_usec < c + e
        BY <1>1, <2>4
    <2>6. QED
        BY <2>1, <2>2, <2>3, <2>5
  <1>5. QED
      BY <1>2, <1>4

\* The packet an encoder makes next is put behind the others of its source, and
\* none is missing before it.
LEMMA InsertWaits ==
  ASSUME beginning \in Beginnings, NEW n \in Counts, NEW m \in Counts,
         NEW buf \in Seq(Packets), Sorted(buf), Untouched(buf, n),
         NEW p \in Packets, OneMore(n, m, p.source),
         p.pts = Made(n, p.source), p.dts_usec = Clock(p.source) + p.pts,
         p.dts = p.pts - Lag(p.source)
  PROVE  /\ Adds(Insert(buf, p), buf, p)
         /\ Untouched(Insert(buf, p), m)
  <1>1. /\ p.source \in Sources /\ InBuf(buf) \subseteq Packets
        /\ \A q \in Packets : q.source \in Sources /\ q.pts \in Int
      BY InBufTyped DEF Packets
  <1>2. /\ Made(m, p.source) = Made(n, p.source) + Period(p.source)
        /\ \A u \in Sources : u # p.source => Made(m, u) = Made(n, u)
    <2>1. PICK s \in Sources : s = p.source
        BY <1>1
    <2>2. OneMore(n, m, s)
        BY <2>1
    <2>3. QED
        BY <2>1, <2>2, MadeOneMore
  <1>3. Made(n, p.source) \in Nat /\ Period(p.source) \in Nat \ {0}
      BY <1>1, SourceNumbers
  <1>4. \A q \in InBuf(buf) : Unmoved(q, n)
      BY DEF Untouched
  <1> DEFINE r == Insert(buf, p)
  <1>5. Adds(r, buf, p)
    <2>1. ASSUME NEW q \in InBuf(buf), q.source = p.source
          PROVE  q.dts_usec < p.dts_usec
        BY <1>1, <1>4, <2>1, UnmovedIsBefore
    <2>2. QED
        BY <2>1, InsertIs
  <1> HIDE DEF r
  <1>6. InBuf(r) = InBuf(buf) \cup {p}
      BY <1>5 DEF Adds
  <1>7. Unmoved(p, m)
      BY <1>2, <1>3 DEF Unmoved
  <1>8. ASSUME NEW q \in InBuf(buf) PROVE Unmoved(q, m)
    <2>1. Made(n, q.source) \in Nat /\ q.pts + Period(q.source) \in Int
      <3>1. q.source \in Sources /\ q.pts \in Int
          BY <1>1
      <3>2. Made(n, q.source) \in Nat /\ Period(q.source) \in Nat \ {0}
          BY <3>1, SourceNumbers
      <3>3. QED
          BY <3>1, <3>2
    <2>2. q.pts + Period(q.source) =< Made(m, q.source)
      <3>1. q.pts + Period(q.source) =< Made(n, q.source)
          BY <1>4 DEF Unmoved
      <3>2. CASE q.source = p.source
          BY <1>2, <1>3, <2>1, <3>1, <3>2
      <3>3. CASE q.source # p.source
          BY <1>1, <1>2, <3>1, <3>3
      <3>4. QED
          BY <3>2, <3>3
    <2>3. QED
        BY <1>4, <2>2 DEF Unmoved
  <1>9. Unbroken(r, m)
    <2> SUFFICES ASSUME NEW q \in InBuf(r), q.source # Video
                 PROVE  \/ q.pts + AudioDuration = Made(m, q.source)
                        \/ \E x \in InBuf(r) : /\ x.source = q.source
                                               /\ x.pts = q.pts + AudioDuration
        BY DEF Unbroken
    <2>1. CASE q = p
      <3>1. Period(p.source) = AudioDuration
          BY <2>1 DEF Period
      <3>2. QED
          BY <1>2, <2>1, <3>1
    <2>2. CASE q \in InBuf(buf)
      <3>1. \/ q.pts + AudioDuration = Made(n, q.source)
            \/ \E x \in InBuf(buf) : /\ x.source = q.source
                                     /\ x.pts = q.pts + AudioDuration
          BY <2>2 DEF Unbroken, Untouched
      <3>2. CASE q.source = p.source
          BY <1>6, <3>1, <3>2
      <3>3. CASE q.source # p.source
          BY <1>1, <1>2, <1>6, <2>2, <3>1, <3>3
      <3>4. QED
          BY <3>2, <3>3
    <2>3. QED
        BY <1>6, <2>1, <2>2
  <1>10. QED
      BY <1>5, <1>6, <1>7, <1>8, <1>9 DEF Untouched, r

\* What is discarded from the front leaves no hole.
LEMMA DiscardWaits ==
  ASSUME beginning \in Beginnings, NEW n \in Counts,
         NEW buf \in Seq(Packets), Sorted(buf), Untouched(buf, n),
         NEW k \in 0 .. Len(buf)
  PROVE  Untouched(Discard(buf, k), n)
  <1> DEFINE r == Discard(buf, k)
  <1>1. /\ r \in Seq(Packets) /\ Sorted(r) /\ InBuf(r) \subseteq InBuf(buf)
      BY DiscardIs
  <1>2. \A i \in DOMAIN buf : buf[i] \in InBuf(r) <=> k < i
      BY DiscardKeeps
  <1> HIDE DEF r
  <1>3. /\ InBuf(buf) \subseteq Packets /\ DOMAIN buf = 1 .. Len(buf)
        /\ Len(buf) \in Nat
        /\ \A p \in Packets : /\ p.dts_usec \in Int /\ p.source \in Sources
                              /\ p.pts \in Int
      BY InBufTyped DEF Packets
  <1>4. Unbroken(r, n)
    <2> SUFFICES ASSUME NEW p \in InBuf(r), p.source # Video,
                        p.pts + AudioDuration # Made(n, p.source)
                 PROVE  \E q \in InBuf(r) : /\ q.source = p.source
                                            /\ q.pts = p.pts + AudioDuration
        BY DEF Unbroken
    <2>1. PICK q \in InBuf(buf) : /\ q.source = p.source
                                  /\ q.pts = p.pts + AudioDuration
        BY <1>1 DEF Untouched, Unbroken
    <2>2. PICK i \in DOMAIN buf : p = buf[i]
        BY <1>1 DEF InBuf
    <2>3. PICK j \in DOMAIN buf : q = buf[j]
        BY DEF InBuf
    <2>4. p.dts_usec < q.dts_usec
      <3>1. /\ p.dts_usec = Clock(p.source) + p.pts
            /\ q.dts_usec = Clock(q.source) + q.pts
          BY <1>1 DEF Untouched, Unmoved
      <3>2. Clock(p.source) \in Nat /\ AudioDuration \in Nat \ {0}
          BY <1>1, <1>3, SourceNumbers, InterleaveConstants
      <3>3. QED
          BY <1>1, <1>3, <2>1, <3>1, <3>2
    <2>5. ~(j < i)
      <3>1. ASSUME j < i PROVE FALSE
        <4>1. Before(q, p)
            BY <2>2, <2>3, <3>1 DEF Sorted
        <4>2. p.dts_usec \in Int /\ q.dts_usec \in Int
            BY <1>1, <1>3
        <4>3. QED
            BY <2>1, <2>4, <4>1, <4>2 DEF Before
      <3>2. QED
          BY <3>1
    <2>6. k < i
        BY <1>2, <2>2
    <2>7. k < j
        BY <1>3, <2>5, <2>6
    <2>8. QED
        BY <1>2, <2>1, <2>3, <2>7
  <1>5. QED
      BY <1>1, <1>4 DEF Untouched, r

-----------------------------------------------------------------------------
(* Where the streams begin                                                  *)

Complete(buf) == \A s \in Sources : ~None(buf, s)

LEMMA NothingMissing ==
  ASSUME NEW buf \in Seq(Packets)
  PROVE  Missing(buf) = {} <=> Complete(buf)
  BY MissingIs, Zenon DEF Complete, Missing

\* What get_interleaved_start_idx returns is a number of packets to discard.
LEMMA BeforeStartIs ==
  ASSUME NEW buf \in Seq(Packets), Complete(buf)
  PROVE  BeforeStart(buf) \in 0 .. Len(buf)
  <1> DEFINE video == FirstOf(buf, Video)
             dist(i) == LET d == buf[i].dts_usec - buf[video].dts_usec
                        IN  IF d < 0 THEN -d ELSE d
             audio == {i \in DOMAIN buf : buf[i].source # Video}
             near == {i \in audio : \A j \in audio : dist(i) =< dist(j)}
             closest == Min(near)
             S == {video, closest}
  <1>1. /\ DOMAIN buf = 1 .. Len(buf) /\ Len(buf) \in Nat
        /\ \A i \in DOMAIN buf : buf[i].dts_usec \in Int
    <2>1. \A i \in DOMAIN buf : buf[i] \in InBuf(buf)
        BY DEF InBuf
    <2>2. QED
        BY <2>1, InBufTyped
  <1>2. video \in 1 .. Len(buf)
      BY <1>1, FirstOfIs, InterleaveConstants DEF Complete
  <1>3. closest \in 1 .. Len(buf)
    <2>1. audio # {}
      <3>1. 1 \in Sources /\ 1 # Video
          BY InterleaveConstants
      <3>2. PICK p \in InBuf(buf) : p.source = 1
          BY <3>1 DEF Complete, None
      <3>3. PICK i \in DOMAIN buf : p = buf[i]
          BY DEF InBuf
      <3>4. QED
          BY <3>1, <3>2, <3>3
    <2> DEFINE T == {dist(i) : i \in audio}
    <2>2. \A i \in audio : dist(i) \in Nat
      <3>1. ASSUME NEW d \in Int PROVE (IF d < 0 THEN -d ELSE d) \in Nat
          OBVIOUS
      <3>2. \A i \in audio : buf[i].dts_usec - buf[video].dts_usec \in Int
          BY <1>1, <1>2
      <3>3. QED
          BY <3>1, <3>2
    <2>3. T \in SUBSET Nat /\ T # {}
      <3> HIDE DEF dist, audio
      <3>1. QED
          BY <2>1, <2>2
    <2>4. PICK l \in T : \A m \in T : l =< m
      <3> HIDE DEF T
      <3>1. QED
          BY <2>3, LeastNumber
    <2>5. PICK i \in audio : l = dist(i)
      <3> HIDE DEF dist, audio
      <3>1. QED
          BY <2>4
    <2>6. i \in near
      <3>1. \A j \in audio : dist(j) \in T
        <4> HIDE DEF dist, audio
        <4>1. QED
            OBVIOUS
      <3> HIDE DEF dist, audio, T
      <3>2. QED
          BY <2>4, <2>5, <3>1
    <2>7. near \in SUBSET Nat /\ near # {} /\ near \subseteq 1 .. Len(buf)
      <3>1. audio \subseteq 1 .. Len(buf)
          BY <1>1
      <3>2. near \subseteq audio
          OBVIOUS
      <3> HIDE DEF dist, audio, near
      <3>3. QED
          BY <2>6, <3>1, <3>2
    <2>8. Min(near) \in near
      <3> HIDE DEF near
      <3>1. QED
          BY <2>7, LeastNumber
    <2>9. QED
      <3> HIDE DEF near
      <3>1. QED
          BY <2>7, <2>8
  <1>4. BeforeStart(buf) = Min(S) - 1
      BY DEF BeforeStart
  <1> HIDE DEF closest, video
  <1>5. Min(S) \in S
    <2>1. S \in SUBSET Nat /\ S # {}
        BY <1>2, <1>3
    <2> HIDE DEF S
    <2>2. QED
        BY <2>1, LeastNumber
  <1>6. QED
    <2>1. PICK x \in S : x = Min(S)
        BY <1>5
    <2>2. x \in 1 .. Len(buf)
        BY <1>2, <1>3
    <2> HIDE DEF S
    <2>3. QED
        BY <1>1, <1>4, <2>1, <2>2

\* The distance prune_premature_packets looks at, and what it asks for.
FirstPacket(buf, s) == buf[FirstOf(buf, s)]

LEMMA PrematureIs ==
  ASSUME NEW buf \in Seq(Packets), Complete(buf)
  PROVE  /\ Premature(buf) \in 0 .. Len(buf)
         /\ FirstPacket(buf, NumTracks).dts_usec
                =< FirstPacket(buf, Video).dts_usec + VideoDuration
                => Premature(buf) = 0
         /\ FirstPacket(buf, NumTracks).dts_usec
                > FirstPacket(buf, Video).dts_usec + VideoDuration
                => \A s \in Sources : FirstOf(buf, s) =< Premature(buf)
  <1> DEFINE F == {FirstOf(buf, s) : s \in Sources}
             diff == FirstPacket(buf, NumTracks).dts_usec
                         - FirstPacket(buf, Video).dts_usec
  <1>1. \A s \in Sources : FirstOf(buf, s) \in DOMAIN buf
      BY FirstOfIs DEF Complete
  <1>2. /\ DOMAIN buf = 1 .. Len(buf) /\ Len(buf) \in Nat
        /\ \A i \in DOMAIN buf : buf[i].dts_usec \in Int
    <2>1. \A i \in DOMAIN buf : buf[i] \in InBuf(buf)
        BY DEF InBuf
    <2>2. QED
        BY <2>1, InBufTyped
  <1>3. /\ FirstPacket(buf, NumTracks).dts_usec \in Int
        /\ FirstPacket(buf, Video).dts_usec \in Int
      BY <1>1, <1>2, InterleaveConstants DEF FirstPacket
  <1>4. Premature(buf) = IF diff > VideoDuration THEN Max(F) ELSE 0
      BY DEF Premature, FirstPacket
  <1>5. Max(F) \in F /\ \A m \in F : m =< Max(F)
    <2>1. F \in SUBSET (0 .. Len(buf)) /\ F # {}
        BY <1>1, <1>2, InterleaveConstants
    <2> HIDE DEF F
    <2>2. QED
        BY <1>2, <2>1, GreatestNumber
  <1>6. /\ Max(F) \in 0 .. Len(buf)
        /\ \A s \in Sources : FirstOf(buf, s) =< Max(F)
    <2>1. F \subseteq 0 .. Len(buf) /\ \A s \in Sources : FirstOf(buf, s) \in F
        BY <1>1, <1>2
    <2> HIDE DEF F
    <2>2. QED
        BY <1>5, <2>1
  <1> HIDE DEF F
  <1>7. VideoDuration \in Nat
      BY InterleaveConstants
  <1>8. CASE diff > VideoDuration
    <2>1. Premature(buf) = Max(F)
        BY <1>4, <1>8
    <2>2. ~(FirstPacket(buf, NumTracks).dts_usec
                =< FirstPacket(buf, Video).dts_usec + VideoDuration)
        BY <1>3, <1>7, <1>8
    <2>3. QED
        BY <1>6, <2>1, <2>2
  <1>9. CASE ~(diff > VideoDuration)
    <2>1. Premature(buf) = 0
        BY <1>4, <1>9
    <2>2. ~(FirstPacket(buf, NumTracks).dts_usec
                > FirstPacket(buf, Video).dts_usec + VideoDuration)
        BY <1>3, <1>7, <1>9
    <2>3. QED
        BY <1>2, <2>1, <2>2
  <1>10. QED
      BY <1>8, <1>9

\* There is audio of the last track soon after each video packet, or before.
AudioSoon(buf) ==
    \A z \in InBuf(buf) : z.source = Video =>
        \E y \in InBuf(buf) : /\ y.source = NumTracks
                              /\ y.dts_usec =< z.dts_usec + GapBound

\* If the first packets are discarded, the audio that follows the discarded
\* audio is soon after the video that is left.
LEMMA DiscardSoon ==
  ASSUME beginning \in Beginnings, NEW n \in Counts,
         NEW buf \in Seq(Packets), Sorted(buf), Untouched(buf, n),
         AudioSoon(buf), NEW k \in 0 .. Len(buf),
         ~None(Discard(buf, k), NumTracks)
  PROVE  AudioSoon(Discard(buf, k))
  <1> DEFINE r == Discard(buf, k)
  <1>1. /\ r \in Seq(Packets) /\ Sorted(r) /\ InBuf(r) \subseteq InBuf(buf)
      BY DiscardIs
  <1>2. \A i \in DOMAIN buf : buf[i] \in InBuf(r) <=> k < i
      BY DiscardKeeps
  <1>3. PICK w \in InBuf(r) : w.source = NumTracks
      BY DEF None
  <1> HIDE DEF r
  <1>4. /\ InBuf(buf) \subseteq Packets /\ DOMAIN buf = 1 .. Len(buf)
        /\ Len(buf) \in Nat
        /\ \A p \in Packets : /\ p.dts_usec \in Int /\ p.source \in Sources
                              /\ p.pts \in Int
      BY InBufTyped DEF Packets
  <1>5. /\ GapBound \in Nat /\ AudioDuration - 1 =< GapBound
        /\ AudioDuration \in Nat \ {0} /\ NumTracks \in Sources
        /\ NumTracks # Video
      BY GapBoundIs, InterleaveConstants
  <1> SUFFICES ASSUME NEW z \in InBuf(r), z.source = Video
               PROVE  \E y \in InBuf(r) : /\ y.source = NumTracks
                                          /\ y.dts_usec =< z.dts_usec + GapBound
      BY DEF AudioSoon, r
  <1>6. PICK y \in InBuf(buf) : /\ y.source = NumTracks
                                /\ y.dts_usec =< z.dts_usec + GapBound
      BY <1>1 DEF AudioSoon
  <1>7. PICK i \in DOMAIN buf : y = buf[i]
      BY DEF InBuf
  <1>8. CASE k < i
      BY <1>2, <1>6, <1>7, <1>8
  <1>9. CASE ~(k < i)
    <2> DEFINE D == {l \in 1 .. k : buf[l].source = NumTracks}
    <2>1. D \in SUBSET (0 .. k) /\ D # {} /\ k \in Nat
      <3>1. i \in D
          BY <1>4, <1>6, <1>7, <1>9
      <3>2. QED
          BY <1>4, <3>1
    <2>2. PICK l \in D : \A m \in D : m =< l
      <3>1. Max(D) \in D /\ \A m \in D : m =< Max(D)
        <4> HIDE DEF D
        <4>1. QED
            BY <2>1, GreatestNumber
      <3> HIDE DEF D
      <3>2. QED
          BY <3>1
    <2>3. l \in DOMAIN buf /\ l =< k /\ buf[l].source = NumTracks
        BY <1>4
    <2>4. PICK d \in InBuf(buf) : d = buf[l]
        BY <2>3 DEF InBuf
    <2>5. l \in DOMAIN buf /\ l =< k /\ d = buf[l] /\ d.source = NumTracks
        BY <2>3, <2>4
    <2>6. PICK j \in DOMAIN buf : z = buf[j]
        BY <1>1 DEF InBuf
    <2>7. k < j
        BY <1>2, <2>6
    <2>8. d.dts_usec < z.dts_usec /\ d.dts_usec \in Int /\ z.dts_usec \in Int
      <3>1. l < j
          BY <1>4, <2>5, <2>7
      <3>2. Before(d, z)
          BY <2>5, <2>6, <3>1, Zenon DEF Sorted
      <3>3. d.dts_usec \in Int /\ z.dts_usec \in Int
          BY <1>1, <1>4, <2>5
      <3>4. QED
          BY <3>2, <3>3 DEF Before
    <2>9. PICK o \in DOMAIN buf : w = buf[o]
        BY <1>1 DEF InBuf
    <2>10. d.dts_usec < w.dts_usec /\ w.dts_usec \in Int
      <3>1. k < o
          BY <1>2, <2>9
      <3>2. l < o
          BY <1>4, <2>5, <3>1
      <3>3. Before(d, w)
          BY <2>5, <2>9, <3>2, Zenon DEF Sorted
      <3>4. w.dts_usec \in Int
          BY <1>1, <1>4
      <3>5. QED
          BY <1>3, <2>5, <2>8, <3>3, <3>4 DEF Before
    <2>11. PICK c \in Nat : c = Clock(NumTracks)
        BY <1>5, SourceNumbers
    <2>12. d.dts_usec = c + d.pts /\ d.pts \in Int
        BY <1>4, <2>5, <2>11 DEF Untouched, Unmoved
    <2>13. d.pts + AudioDuration # Made(n, NumTracks)
      <3>1. w \in Packets /\ Unmoved(w, n)
          BY <1>1, <1>4 DEF Untouched
      <3>2. w.dts_usec + AudioDuration =< c + Made(n, NumTracks)
          BY <1>3, <1>5, <2>11, <3>1, UnmovedIsBefore
      <3>3. Made(n, NumTracks) \in Nat
          BY <1>5, SourceNumbers
      <3>4. PICK e \in Nat : e = Made(n, NumTracks)
          BY <3>3
      <3>5. w.dts_usec + AudioDuration =< c + e
          BY <3>2, <3>4
      <3>6. d.pts + AudioDuration # e
        <4>1. ASSUME NEW a \in Int, NEW b \in Int, NEW x \in Int,
                     NEW f \in Nat, NEW g \in Nat, NEW h \in Nat,
                     a < x, a = g + b, x + f =< g + h
              PROVE  b + f # h
            BY <4>1
        <4>2. QED
            BY <1>5, <2>8, <2>10, <2>12, <3>5, <4>1
      <3>7. QED
          BY <3>4, <3>6
    <2>14. PICK q \in InBuf(buf) : /\ q.source = NumTracks
                                   /\ q.pts = d.pts + AudioDuration
        BY <1>5, <2>5, <2>13 DEF Untouched, Unbroken
    <2>15. q.dts_usec = c + q.pts /\ q.dts_usec \in Int
        BY <1>4, <2>11, <2>14 DEF Untouched, Unmoved
    <2>16. q.dts_usec = d.dts_usec + AudioDuration
        BY <1>5, <2>11, <2>12, <2>14, <2>15
    <2>17. PICK e \in DOMAIN buf : q = buf[e]
        BY DEF InBuf
    <2>18. k < e
      <3>1. CASE e =< k
        <4>1. e \in D
            BY <1>4, <2>14, <2>17, <3>1
        <4>2. e =< l
            BY <2>2, <4>1
        <4>3. e # l
            BY <1>5, <2>5, <2>8, <2>16, <2>17
        <4>4. e < l
            BY <1>4, <2>5, <4>2, <4>3
        <4>5. Before(q, d)
            BY <2>5, <2>17, <4>4, Zenon DEF Sorted
        <4>6. QED
            BY <1>5, <2>5, <2>8, <2>14, <2>15, <2>16, <4>5 DEF Before
      <3>2. QED
          BY <1>4, <3>1
    <2>19. q \in InBuf(r)
        BY <1>2, <2>17, <2>18
    <2>20. q.dts_usec =< z.dts_usec + GapBound
        BY <1>5, <2>8, <2>16
    <2>21. QED
        BY <2>14, <2>19, <2>20
  <1>10. QED
      BY <1>8, <1>9

\* The last packet that waits of a track is the last one it has made.
LEMMA LastMade ==
  ASSUME beginning \in Beginnings, NEW n \in Counts,
         NEW buf \in Seq(Packets), Sorted(buf), Untouched(buf, n),
         NEW t \in Tracks, ~None(buf, t)
  PROVE  \E r \in InBuf(buf) :
             r.source = t /\ r.dts_usec + AudioDuration = Clock(t) + Made(n, t)
  <1>1. /\ t \in Sources /\ t # Video
        /\ InBuf(buf) \subseteq Packets
        /\ \A p \in Packets : /\ p.dts_usec \in Int /\ p.source \in Sources
                              /\ p.pts \in Int
        /\ DOMAIN buf = 1 .. Len(buf) /\ Len(buf) \in Nat
      BY InBufTyped, InterleaveConstants DEF Packets
  <1>2. PICK i \in DOMAIN buf : /\ buf[i].source = t
                                /\ \A j \in DOMAIN buf :
                                       buf[j].source = t => j =< i
      BY <1>1, LastOfIs
  <1>3. PICK r \in InBuf(buf) : r = buf[i]
      BY DEF InBuf
  <1>4. PICK c \in Nat : c = Clock(t)
      BY <1>1, SourceNumbers
  <1>5. /\ r.source = t /\ r.dts_usec = c + r.pts /\ r.pts \in Int
        /\ r.dts_usec \in Int
      BY <1>1, <1>2, <1>3, <1>4 DEF Untouched, Unmoved
  <1>6. AudioDuration \in Nat \ {0}
      BY InterleaveConstants
  <1>7. r.pts + AudioDuration = Made(n, t)
    <2>1. ASSUME NEW q \in InBuf(buf), q.source = t,
                 q.pts = r.pts + AudioDuration
          PROVE  FALSE
      <3>1. q.dts_usec = c + q.pts /\ q.dts_usec \in Int
          BY <1>1, <1>4, <2>1 DEF Untouched, Unmoved
      <3>2. r.dts_usec < q.dts_usec
          BY <1>4, <1>5, <1>6, <2>1, <3>1
      <3>3. PICK j \in DOMAIN buf : q = buf[j]
          BY DEF InBuf
      <3>4. j =< i
          BY <1>2, <2>1, <3>3
      <3>5. CASE j = i
          BY <1>3, <1>5, <3>2, <3>3, <3>5
      <3>6. CASE j < i
        <4>1. Before(q, r)
            BY <1>3, <3>3, <3>6, Zenon DEF Sorted
        <4>2. QED
            BY <1>5, <2>1, <3>1, <3>2, <4>1 DEF Before
      <3>7. QED
          BY <1>1, <3>4, <3>5, <3>6
    <2>2. QED
        BY <1>1, <1>5, <2>1 DEF Untouched, Unbroken
  <1>8. r.dts_usec + AudioDuration = Clock(t) + Made(n, t)
    <2>1. PICK e \in Int : e = Made(n, t)
        BY <1>5, <1>6, <1>7
    <2>2. r.dts_usec + AudioDuration = c + e
        BY <1>4, <1>5, <1>6, <1>7, <2>1
    <2>3. QED
        BY <1>4, <2>1, <2>2
  <1>9. QED
      BY <1>5, <1>8

\* Why prune_premature_packets always works.  What the last packet to arrive
\* changes: the capture waited for it, or for the audio to reach the video.
LEMMA TooEarly ==
  ASSUME beginning \in Beginnings, NEW n \in Counts, InStep(n),
         NEW old \in Seq(Packets), Sorted(old), Untouched(old, n),
         NEW p \in Packets, p.dts_usec = Clock(p.source) + Made(n, p.source),
         \/ \E s \in Sources : None(old, s)
         \/ /\ EndsEarly(old) /\ p.source # Video
            /\ \A u \in Tracks : Clock(p.source) + Made(n, p.source)
                                     =< Clock(u) + Made(n, u),
         NEW buf \in Seq(Packets), Sorted(buf),
         InBuf(buf) = InBuf(old) \cup {p}, Complete(buf),
         FirstPacket(buf, NumTracks).dts_usec
             > FirstPacket(buf, Video).dts_usec + VideoDuration
  PROVE  ~Complete(Discard(buf, Premature(buf)))
  <1> DEFINE k == Premature(buf)
             r == Discard(buf, k)
  <1>1. k \in 0 .. Len(buf) /\ \A s \in Sources : FirstOf(buf, s) =< k
      BY PrematureIs
  <1>2. /\ \A i \in DOMAIN buf : buf[i] \in InBuf(r) <=> k < i
        /\ InBuf(r) \subseteq InBuf(buf)
      BY <1>1, DiscardKeeps, DiscardIs
  <1> HIDE DEF k, r
  <1>3. \A s \in Sources : /\ FirstPacket(buf, s).source = s
                           /\ FirstIn(buf, FirstPacket(buf, s))
                           /\ FirstPacket(buf, s) \notin InBuf(r)
    <2> SUFFICES ASSUME NEW s \in Sources
                 PROVE  /\ FirstPacket(buf, s).source = s
                        /\ FirstIn(buf, FirstPacket(buf, s))
                        /\ FirstPacket(buf, s) \notin InBuf(r)
        OBVIOUS
    <2>1. PICK i \in DOMAIN buf : i = FirstOf(buf, s)
        BY FirstIsFirst DEF Complete
    <2>2. buf[i].source = s /\ FirstIn(buf, buf[i])
        BY <2>1, FirstIsFirst DEF Complete
    <2>3. ~(k < i)
        BY <1>1, <2>1
    <2>4. QED
        BY <1>2, <2>1, <2>2, <2>3 DEF FirstPacket
  <1>4. /\ InBuf(buf) \subseteq Packets /\ InBuf(old) \subseteq Packets
        /\ \A q \in Packets : /\ q.dts_usec \in Int /\ q.source \in Sources
                              /\ q.pts \in Int
      BY InBufTyped DEF Packets
  <1>5. CASE \E s \in Sources : None(old, s)
    <2>1. PICK s \in Sources : None(old, s)
        BY <1>5
    <2>2. \A q \in InBuf(buf) : q.source = s => q = p
        BY <2>1 DEF None
    <2>3. FirstPacket(buf, s) = p
        BY <1>3, <2>2 DEF FirstIn
    <2>4. None(r, s)
        BY <1>2, <1>3, <2>2, <2>3 DEF None
    <2>5. QED
        BY <2>4 DEF Complete, r, k
  <1>6. CASE ~ \E s \in Sources : None(old, s)
    <2>1. /\ EndsEarly(old) /\ p.source # Video
          /\ \A u \in Tracks : Clock(p.source) + Made(n, p.source)
                                   =< Clock(u) + Made(n, u)
        BY <1>6
    <2>2. PICK t \in Tracks : \A x, q \in InBuf(old) :
              x.source = t /\ q.source = Video => x.dts_usec < q.dts_usec
        BY <2>1 DEF EndsEarly
    <2>3. /\ NumTracks \in Tracks /\ NumTracks \in Sources /\ t \in Sources
          /\ Video \in Sources /\ NumTracks # Video
          /\ AudioDuration \in Nat \ {0} /\ VideoDuration \in Nat
        BY InterleaveConstants
    <2>4. PICK f \in InBuf(buf) : f = FirstPacket(buf, NumTracks)
        BY <1>3, <2>3 DEF FirstIn
    <2>5. PICK g \in InBuf(buf) : g = FirstPacket(buf, Video)
        BY <1>3, <2>3 DEF FirstIn
    <2>6. g \in InBuf(old) /\ g.source = Video
        BY <1>3, <2>1, <2>3, <2>5
    <2>7. PICK e \in InBuf(old) :
              /\ e.source = t
              /\ e.dts_usec + AudioDuration = Clock(t) + Made(n, t)
        BY <1>6, <2>3, LastMade
    <2>8. PICK T \in Nat : T = Clock(t) + Made(n, t)
        BY <2>3, SourceNumbers
    <2>9. PICK U \in Nat : U = Clock(NumTracks) + Made(n, NumTracks)
        BY <2>3, SourceNumbers
    <2>10. g.dts_usec \in Int /\ f.dts_usec \in Int /\ e.dts_usec \in Int
        BY <1>4
    <2>11. T < g.dts_usec + AudioDuration
      <3>1. e.dts_usec < g.dts_usec
          BY <2>2, <2>6, <2>7
      <3>2. QED
          BY <2>3, <2>7, <2>8, <2>10, <3>1
    <2>12. g.dts_usec < f.dts_usec
      <3>1. f.dts_usec > g.dts_usec + VideoDuration
          BY <2>4, <2>5
      <3>2. QED
          BY <2>3, <2>10, <3>1
    <2>13. f.source = NumTracks /\ FirstIn(buf, f) /\ f \notin InBuf(r)
        BY <1>3, <2>3, <2>4
    <2>14. f \in InBuf(old)
      <3>1. ASSUME f = p, f \notin InBuf(old) PROVE FALSE
        <4>1. PICK x \in InBuf(old) : x.source = NumTracks
            BY <1>6, <2>3 DEF None
        <4>2. x.dts_usec < U /\ f.dts_usec = U
            BY <1>4, <2>9, <2>13, <3>1, <4>1, UnmovedIsBefore DEF Untouched
        <4>3. x \in InBuf(buf) /\ x # f /\ x.dts_usec \in Int
            BY <1>4, <3>1, <4>1
        <4>4. f.dts_usec < x.dts_usec
            BY <2>13, <4>1, <4>3 DEF FirstIn
        <4>5. QED
            BY <2>9, <4>2, <4>3, <4>4
      <3>2. QED
          BY <3>1
    <2>15. PICK c \in Nat : c = Clock(NumTracks)
        BY <2>3, SourceNumbers
    <2>16. f.dts_usec = c + f.pts /\ f.pts \in Nat /\ n[NumTracks] > 0
      <3>1. Unmoved(f, n)
          BY <2>14 DEF Untouched
      <3>2. f.dts_usec = c + f.pts /\ f.pts \in Nat
          BY <2>13, <2>15, <3>1 DEF Unmoved
      <3>3. f.pts + AudioDuration =< Made(n, NumTracks)
          BY <2>3, <2>13, <3>1 DEF Unmoved, Period
      <3>4. n[NumTracks] \in Nat
          BY <2>3 DEF Counts
      <3>5. CASE n[NumTracks] = 0
        <4>1. Made(n, NumTracks) = 0
            BY <2>3, <3>5 DEF Made, Period
        <4>2. QED
            BY <2>3, <3>2, <3>3, <4>1
      <3>6. QED
          BY <3>2, <3>4, <3>5
    <2>17. U =< T + AudioDuration
        BY <2>3, <2>8, <2>9, <2>16 DEF InStep
    <2>18. f.dts_usec + AudioDuration = U
      <3>1. ASSUME NEW x \in InBuf(old), x.source = NumTracks,
                   x.pts = f.pts + AudioDuration
            PROVE  FALSE
        <4>1. x.dts_usec = c + x.pts /\ x.dts_usec \in Int
            BY <1>4, <2>15, <3>1 DEF Untouched, Unmoved
        <4>2. x.dts_usec + AudioDuration =< U
            BY <1>4, <2>3, <2>9, <3>1, UnmovedIsBefore DEF Untouched
        <4>3. x.dts_usec = f.dts_usec + AudioDuration
            BY <2>3, <2>15, <2>16, <3>1, <4>1
        <4>4. QED
            BY <2>3, <2>8, <2>9, <2>10, <2>11, <2>12, <2>17, <4>2, <4>3
      <3>2. f.pts + AudioDuration = Made(n, NumTracks)
          BY <2>3, <2>13, <2>14, <3>1 DEF Untouched, Unbroken
      <3>3. f.dts_usec + AudioDuration = c + (f.pts + AudioDuration)
          BY <2>3, <2>15, <2>16
      <3>4. QED
          BY <2>9, <2>15, <3>2, <3>3
    <2>19. None(r, NumTracks)
      <3> SUFFICES ASSUME NEW q \in InBuf(r), q.source = NumTracks
                   PROVE  FALSE
          BY DEF None
      <3>1. q \in InBuf(buf) /\ q # f /\ q.dts_usec \in Int
          BY <1>2, <1>4, <2>13
      <3>2. f.dts_usec < q.dts_usec
          BY <2>13, <3>1 DEF FirstIn
      <3>3. CASE q \in InBuf(old)
        <4>1. q.dts_usec + AudioDuration =< U
            BY <1>4, <2>3, <2>9, <3>3, UnmovedIsBefore DEF Untouched
        <4>2. QED
            BY <2>3, <2>9, <2>10, <2>18, <3>1, <3>2, <4>1
      <3>4. CASE q = p
        <4>1. U =< T
            BY <2>1, <2>8, <2>9, <3>4
        <4>2. QED
            BY <2>3, <2>8, <2>9, <2>10, <2>11, <2>12, <2>18, <4>1
      <3>5. QED
          BY <3>1, <3>3, <3>4
    <2>20. QED
        BY <2>3, <2>19 DEF Complete, r, k
  <1>7. QED
      BY <1>5, <1>6

-----------------------------------------------------------------------------
(* A capture that has begun                                                 *)

Firsts == [Sources -> Packets \cup {NoPacket}]

\* apply_interleaved_packet_offset.
LEMMA ShiftIs ==
  ASSUME NEW p \in Packets, NEW v \in Int, NEW a \in [Tracks -> Int]
  PROVE  LET offset == IF p.source = Video THEN v ELSE a[p.source]
             q == Shift(p, v, a)
         IN  /\ offset \in Int /\ q \in Packets /\ q.source = p.source
             /\ q.dts = p.dts - offset /\ q.pts = p.pts - offset
             /\ q.dts_usec = p.dts - offset
  <1> DEFINE offset == IF p.source = Video THEN v ELSE a[p.source]
  <1>1. /\ p.source \in Sources /\ p.dts \in Int /\ p.pts \in Int
        /\ p.keyframe \in BOOLEAN
      BY DEF Packets
  <1>2. offset \in Int
      BY <1>1, InterleaveConstants
  <1>3. Shift(p, v, a) = [p EXCEPT !.dts = p.dts - offset,
                                   !.pts = p.pts - offset,
                                   !.dts_usec = p.dts - offset]
      BY DEF Shift
  <1> HIDE DEF offset
  <1>4. p.dts - offset \in Int /\ p.pts - offset \in Int
      BY <1>1, <1>2
  <1>5. QED
      BY <1>1, <1>2, <1>3, <1>4 DEF Packets, offset

\* The packet that is sent is the first of its source, or one that comes later.
LEMMA SendKeepsFirsts ==
  ASSUME NEW buf \in Seq(Packets), Sorted(buf), buf # <<>>,
         NEW sent \in Firsts, FirstsAtZero(buf, sent)
  PROVE  LET h == Head(buf)
             m == [sent EXCEPT ![h.source] = IF @ = NoPacket THEN h ELSE @]
         IN  m \in Firsts /\ FirstsAtZero(Tail(buf), m)
  <1> DEFINE h == Head(buf)
             m == [sent EXCEPT ![h.source] =
                      IF sent[h.source] = NoPacket THEN h ELSE sent[h.source]]
             r == Tail(buf)
  <1>1. /\ h \in InBuf(buf) /\ FirstIn(buf, h) /\ h \in Packets
        /\ InBuf(r) \subseteq InBuf(buf)
        /\ \A q \in InBuf(buf) : q = h \/ q \in InBuf(r)
        /\ \A q \in Packets : q.dts_usec \in Int /\ q.source \in Sources
      BY HeadTailIs, InBufTyped DEF Packets
  <1> HIDE DEF h, r
  <1>2. /\ m \in Firsts /\ h.source \in Sources
        /\ m[h.source] = IF sent[h.source] = NoPacket THEN h
                         ELSE sent[h.source]
        /\ \A s \in Sources : s # h.source => m[s] = sent[s]
      BY <1>1 DEF Firsts
  <1>3. h # NoPacket
    <2>1. h.source # -1
        BY <1>2, InterleaveConstants
    <2>2. QED
        BY <2>1 DEF NoPacket
  <1> HIDE DEF m
  <1>4. ASSUME NEW s \in Sources
        PROVE  IF m[s] = NoPacket
               THEN \E p \in InBuf(r) : p.source = s /\ Zero(p) /\ FirstIn(r, p)
               ELSE m[s].source = s /\ Zero(m[s])
    <2>1. IF sent[s] = NoPacket
          THEN \E p \in InBuf(buf) :
                   p.source = s /\ Zero(p) /\ FirstIn(buf, p)
          ELSE sent[s].source = s /\ Zero(sent[s])
        BY DEF FirstsAtZero
    <2>2. CASE sent[s] # NoPacket
      <3>1. m[s] = sent[s]
          BY <1>2, <2>2
      <3>2. QED
          BY <2>1, <2>2, <3>1
    <2>3. CASE sent[s] = NoPacket /\ s = h.source
      <3>1. m[s] = h /\ m[s] # NoPacket
          BY <1>2, <1>3, <2>3
      <3>2. PICK p \in InBuf(buf) :
                p.source = s /\ Zero(p) /\ FirstIn(buf, p)
          BY <2>1, <2>3
      <3>3. p = h
        <4>1. p = h \/ h.dts_usec < p.dts_usec
            BY <1>1, <2>3, <3>2 DEF FirstIn
        <4>2. h = p \/ p.dts_usec < h.dts_usec
            BY <1>1, <2>3, <3>2 DEF FirstIn
        <4>3. p.dts_usec \in Int /\ h.dts_usec \in Int
            BY <1>1, InBufTyped
        <4>4. QED
            BY <4>1, <4>2, <4>3
      <3>4. QED
          BY <2>3, <3>1, <3>2, <3>3
    <2>4. CASE sent[s] = NoPacket /\ s # h.source
      <3>1. m[s] = NoPacket
          BY <1>2, <2>4
      <3>2. PICK p \in InBuf(buf) :
                p.source = s /\ Zero(p) /\ FirstIn(buf, p)
          BY <2>1, <2>4
      <3>3. p \in InBuf(r)
          BY <1>1, <2>4, <3>2
      <3>4. FirstIn(r, p)
          BY <1>1, <3>2, <3>3 DEF FirstIn
      <3>5. QED
          BY <3>1, <3>2, <3>3, <3>4
    <2>5. QED
        BY <2>2, <2>3, <2>4
  <1>5. m \in Firsts /\ FirstsAtZero(r, m)
      BY <1>2, <1>4 DEF FirstsAtZero
  <1>6. QED
      BY <1>5 DEF m, r, h

\* initialize_interleaved_packets: the buffer that is moved to time zero.
LEMMA StartIs ==
  ASSUME beginning \in Beginnings, NEW n \in Counts,
         NEW buf \in Seq(Packets), Sorted(buf), Untouched(buf, n),
         Complete(buf), NEW v, v = FirstPacket(buf, Video).pts,
         NEW a, a = [t \in Tracks |-> FirstPacket(buf, t).dts],
         NEW sent, \A s \in Sources : sent[s] = NoPacket,
         NEW r, r = FoldLeft(Insert, <<>>, [i \in DOMAIN buf |->
                                               Shift(buf[i], v, a)])
  PROVE  /\ v \in Int /\ a \in [Tracks -> Int]
         /\ r \in Seq(Packets) /\ Sorted(r) /\ r # <<>>
         /\ InBuf(r) = {Shift(p, v, a) : p \in InBuf(buf)}
         /\ Moved(r, n, v, a) /\ FirstsAtZero(r, sent)
  <1>1. /\ DOMAIN buf = 1 .. Len(buf) /\ Len(buf) \in Nat
        /\ InBuf(buf) \subseteq Packets
        /\ \A i \in DOMAIN buf : buf[i] \in InBuf(buf)
      BY InBufTyped DEF InBuf
  <1>2. \A s \in Sources : /\ FirstPacket(buf, s).source = s
                           /\ FirstIn(buf, FirstPacket(buf, s))
                           /\ FirstPacket(buf, s) \in Packets
    <2>1. \A s \in Sources : /\ FirstPacket(buf, s).source = s
                             /\ FirstIn(buf, FirstPacket(buf, s))
        BY FirstIsFirst DEF Complete, FirstPacket
    <2>2. QED
        BY <1>1, <2>1 DEF FirstIn
  <1>3. v \in Int /\ a \in [Tracks -> Int]
    <2>1. \A q \in Packets : q.pts \in Int /\ q.dts \in Int
        BY DEF Packets
    <2>2. QED
        BY <1>2, <2>1, InterleaveConstants
  <1> DEFINE offset(s) == IF s = Video THEN v ELSE a[s]
             seq == [i \in DOMAIN buf |-> Shift(buf[i], v, a)]
  <1>4. ASSUME NEW p \in Packets
        PROVE  /\ Shift(p, v, a) \in Packets
               /\ Shift(p, v, a).source = p.source
               /\ Shift(p, v, a).dts = p.dts - offset(p.source)
               /\ Shift(p, v, a).pts = p.pts - offset(p.source)
               /\ Shift(p, v, a).dts_usec = p.dts - offset(p.source)
               /\ offset(p.source) \in Int
      BY <1>3, ShiftIs
  <1> HIDE DEF offset
  <1>5. /\ seq \in Seq(Packets) /\ DOMAIN seq = DOMAIN buf
        /\ Len(seq) = Len(buf)
        /\ \A i \in DOMAIN buf : seq[i] = Shift(buf[i], v, a)
    <2>1. \A i \in DOMAIN buf : Shift(buf[i], v, a) \in Packets
        BY <1>1, <1>4
    <2>2. QED
        BY <1>1, <2>1
  <1> HIDE DEF seq
  <1>6. InBuf(seq) = {Shift(p, v, a) : p \in InBuf(buf)}
      BY <1>5, Zenon DEF InBuf
  \* In a source dts_usec and dts are as far apart in all packets.
  <1>7. ASSUME NEW p \in InBuf(buf), NEW q \in InBuf(buf),
               q.source = p.source, p.dts_usec < q.dts_usec
        PROVE  Shift(p, v, a).dts_usec < Shift(q, v, a).dts_usec
    <2>1. /\ p \in Packets /\ q \in Packets /\ p.source \in Sources
          /\ p.dts \in Int /\ q.dts \in Int /\ p.pts \in Int /\ q.pts \in Int
        BY <1>1 DEF Packets
    <2>2. PICK c \in Nat : c = Clock(p.source)
        BY <2>1, SourceNumbers
    <2>3. PICK d \in Nat : d = Lag(p.source)
        BY <2>1, SourceNumbers
    <2>4. /\ p.dts_usec = c + p.pts /\ p.dts = p.pts - d
          /\ q.dts_usec = c + q.pts /\ q.dts = q.pts - d
        BY <1>7, <2>2, <2>3 DEF Untouched, Unmoved
    <2>5. p.dts < q.dts
        BY <1>7, <2>1, <2>2, <2>3, <2>4
    <2>6. PICK o \in Int : /\ Shift(p, v, a).dts_usec = p.dts - o
                           /\ Shift(q, v, a).dts_usec = q.dts - o
      <3>1. PICK o \in Int : o = offset(p.source)
          BY <1>4, <2>1
      <3>2. Shift(p, v, a).dts_usec = p.dts - o
          BY <1>4, <2>1, <3>1
      <3>3. Shift(q, v, a).dts_usec = q.dts - o
          BY <1>4, <1>7, <2>1, <3>1
      <3>4. QED
          BY <3>2, <3>3
    <2>7. QED
        BY <2>1, <2>5, <2>6
  <1>8. /\ r \in Seq(Packets) /\ Sorted(r) /\ r # <<>>
        /\ InBuf(r) = {Shift(p, v, a) : p \in InBuf(buf)}
    <2>1. ASSUME NEW i \in DOMAIN seq, NEW j \in DOMAIN seq, i < j,
                 seq[i].source = seq[j].source
          PROVE  seq[i].dts_usec < seq[j].dts_usec
      <3>1. Before(buf[i], buf[j])
          BY <1>5, <2>1, Zenon DEF Sorted
      <3>2. buf[i].source = buf[j].source
        <4>1. buf[i] \in Packets /\ buf[j] \in Packets
            BY <1>1, <1>5
        <4>2. /\ Shift(buf[i], v, a).source = buf[i].source
              /\ Shift(buf[j], v, a).source = buf[j].source
            BY <1>4, <4>1
        <4>3. QED
            BY <1>5, <2>1, <4>2
      <3>3. buf[i].dts_usec < buf[j].dts_usec
          BY <3>1, <3>2 DEF Before
      <3>4. QED
          BY <1>1, <1>5, <1>7, <3>2, <3>3
    <2>2. seq # <<>>
      <3>1. PICK p \in InBuf(buf) : TRUE
          BY InterleaveConstants DEF Complete, None
      <3>2. QED
          BY <1>1, <1>5, <3>1 DEF InBuf
    <2>3. r = FoldLeft(Insert, <<>>, seq)
        BY DEF seq
    <2>4. QED
        BY <1>5, <1>6, <2>1, <2>2, <2>3, FoldInserts
  <1>9. Moved(r, n, v, a)
    <2> SUFFICES ASSUME NEW p \in InBuf(buf)
                 PROVE  LET q == Shift(p, v, a)
                        IN  q.dts_usec < Limit(n, v, a, q.source)
        BY <1>8 DEF Moved
    <2>1. p \in Packets /\ p.source \in Sources /\ p.dts \in Int /\ p.pts \in Int
        BY <1>1 DEF Packets
    <2>2. PICK d \in Nat : d = Lag(p.source)
        BY <2>1, SourceNumbers
    <2>3. PICK e \in Nat : e = Made(n, p.source)
        BY <2>1, SourceNumbers
    <2>4. PICK f \in Nat \ {0} : f = Period(p.source)
        BY <2>1, SourceNumbers
    <2>5. PICK o \in Int : o = offset(p.source)
        BY <1>4, <2>1
    <2>6. p.dts = p.pts - d /\ p.pts + f =< e
        BY <2>2, <2>3, <2>4 DEF Untouched, Unmoved
    <2>7. p.dts - o < e - d - o
      <3>1. p.pts < e /\ p.pts \in Int
          BY <2>1, <2>3, <2>4, <2>6
      <3>2. p.dts < e - d
          BY <2>2, <2>3, <2>6, <3>1
      <3>3. QED
          BY <2>1, <2>2, <2>3, <2>5, <3>2
    <2>8. /\ Shift(p, v, a).dts_usec = p.dts - o
          /\ Shift(p, v, a).source = p.source
        BY <1>4, <2>1, <2>5
    <2>9. Limit(n, v, a, p.source) = e - d - o
        BY <2>2, <2>3, <2>5 DEF Limit, offset
    <2>10. QED
        BY <2>7, <2>8, <2>9
  <1>10. ASSUME NEW s \in Sources
         PROVE  \E q \in InBuf(r) : q.source = s /\ Zero(q) /\ FirstIn(r, q)
    <2>1. PICK p \in InBuf(buf) : p = FirstPacket(buf, s)
        BY <1>2 DEF FirstIn
    <2>2. /\ p.source = s /\ FirstIn(buf, p) /\ p \in Packets
          /\ p.dts \in Int /\ p.pts \in Int
        BY <1>2, <2>1 DEF Packets
    <2>3. PICK q \in InBuf(r) : q = Shift(p, v, a)
        BY <1>8
    <2>4. q.source = s
        BY <1>4, <2>2, <2>3
    <2>5. Zero(q)
      <3>1. CASE s = Video
        <4>1. q.pts = p.pts - v /\ v = p.pts
            BY <1>4, <2>1, <2>2, <2>3, <3>1 DEF offset
        <4>2. QED
            BY <2>2, <2>4, <3>1, <4>1 DEF Zero
      <3>2. CASE s # Video
        <4>1. q.dts = p.dts - a[s]
            BY <1>4, <2>2, <2>3, <3>2 DEF offset
        <4>2. a[s] = p.dts
            BY <2>1, <3>2, InterleaveConstants
        <4>3. QED
            BY <2>2, <2>4, <3>2, <4>1, <4>2 DEF Zero
      <3>3. QED
          BY <3>1, <3>2
    <2>6. FirstIn(r, q)
      <3>1. ASSUME NEW x \in InBuf(r), x.source = q.source
            PROVE  x = q \/ q.dts_usec < x.dts_usec
        <4>1. PICK y \in InBuf(buf) : x = Shift(y, v, a)
            BY <1>8
        <4>2. y.source = s
            BY <1>1, <1>4, <2>4, <3>1, <4>1
        <4>3. y = p \/ p.dts_usec < y.dts_usec
            BY <2>2, <4>2 DEF FirstIn
        <4>4. CASE y = p
            BY <2>3, <4>1, <4>4
        <4>5. CASE p.dts_usec < y.dts_usec
            BY <1>7, <2>2, <2>3, <4>1, <4>2, <4>5
        <4>6. QED
            BY <4>3, <4>4, <4>5
      <3>2. QED
          BY <3>1 DEF FirstIn
    <2>7. QED
        BY <2>4, <2>5, <2>6
  <1>11. FirstsAtZero(r, sent)
      BY <1>10 DEF FirstsAtZero
  <1>12. QED
      BY <1>3, <1>8, <1>9, <1>11

-----------------------------------------------------------------------------
(* Steps of interleave_packets                                              *)

\* What a step leaves when the encoders have made n packets by then.
Keeps(n) ==
    /\ interleaved_packets' \in Seq(Packets) /\ Sorted(interleaved_packets')
    /\ received_audio' \in BOOLEAN /\ received_video' \in BOOLEAN
    /\ video_offset' \in Int /\ audio_offsets' \in [Tracks -> Int]
    /\ highest_audio_ts' \in Int /\ highest_video_ts' \in Int
    /\ out' \in Packets \cup {NoPacket} /\ first_out' \in Firsts
    /\ start_gap' \in [Tracks -> Int] /\ start_gap'[NumTracks] =< GapBound
    /\ IF received_audio' /\ received_video'
       THEN /\ Moved(interleaved_packets', n, video_offset', audio_offsets')
            /\ FirstsAtZero(interleaved_packets', first_out')
       ELSE /\ Waiting(interleaved_packets', n, received_audio', received_video')
            /\ out' = NoPacket
            /\ \A s \in Sources : first_out'[s] = NoPacket

\* send_interleaved, in a capture that has begun.
LEMMA SendKeeps ==
  ASSUME NEW buf \in Seq(Packets), Sorted(buf), buf # <<>>,
         FirstsAtZero(buf, first_out), first_out \in Firsts,
         out \in Packets \cup {NoPacket},
         NEW audio_ts, NEW video_ts, Send(buf, audio_ts, video_ts)
  PROVE  /\ interleaved_packets' \in Seq(Packets)
         /\ Sorted(interleaved_packets')
         /\ InBuf(interleaved_packets') \subseteq InBuf(buf)
         /\ out' \in Packets \cup {NoPacket} /\ first_out' \in Firsts
         /\ FirstsAtZero(interleaved_packets', first_out')
  <1> DEFINE h == Head(buf)
             m == [first_out EXCEPT ![h.source] = IF @ = NoPacket THEN h ELSE @]
  <1>1. \/ interleaved_packets' = Tail(buf) /\ out' = h /\ first_out' = m
        \/ interleaved_packets' = buf /\ UNCHANGED <<out, first_out>>
      BY Zenon DEF Send
  <1>2. CASE interleaved_packets' = Tail(buf) /\ out' = h /\ first_out' = m
    <2>1. PICK f : f = first_out
        OBVIOUS
    <2>2. f \in Firsts /\ FirstsAtZero(buf, f)
        BY <2>1
    <2>3. m \in Firsts /\ FirstsAtZero(Tail(buf), m)
        BY <2>1, <2>2, SendKeepsFirsts, Zenon
    <2>4. /\ Tail(buf) \in Seq(Packets) /\ Sorted(Tail(buf))
          /\ InBuf(Tail(buf)) \subseteq InBuf(buf) /\ h \in Packets
        BY HeadTailIs, InBufTyped
    <2> HIDE DEF m, h
    <2>5. QED
        BY <1>2, <2>3, <2>4, Zenon
  <1>3. CASE interleaved_packets' = buf /\ UNCHANGED <<out, first_out>>
    <2>1. out' = out /\ first_out' = first_out
        BY <1>3
    <2>2. QED
        BY <1>3, <2>1, Zenon
  <1>4. QED
      BY <1>1, <1>2, <1>3

\* The capture goes on waiting, with what is left of the buffer.
LEMMA HoldKeeps ==
  ASSUME InterleaveTypeOK, NothingSent, start_gap[NumTracks] =< GapBound,
         NEW n \in Counts, NEW buf \in Seq(Packets), Sorted(buf),
         NEW audio_ts \in Int, NEW video_ts \in Int,
         Hold(buf, audio_ts, video_ts),
         NEW audio \in BOOLEAN, NEW video \in BOOLEAN,
         SetReceived(audio, video), ~(audio /\ video),
         Waiting(buf, n, audio, video)
  PROVE  Keeps(n)
  <1>1. /\ interleaved_packets' = buf
        /\ received_audio' = audio /\ received_video' = video
        /\ highest_audio_ts' = audio_ts /\ highest_video_ts' = video_ts
        /\ video_offset' = video_offset /\ audio_offsets' = audio_offsets
        /\ out' = out /\ first_out' = first_out /\ start_gap' = start_gap
      BY DEF Hold, SetReceived, SetHighest, historyVars
  <1>2. /\ video_offset \in Int /\ audio_offsets \in [Tracks -> Int]
        /\ out = NoPacket /\ first_out \in Firsts
        /\ start_gap \in [Tracks -> Int]
        /\ \A s \in Sources : first_out[s] = NoPacket
      BY DEF InterleaveTypeOK, NothingSent, Firsts
  <1>3. ~(received_audio' /\ received_video')
      BY <1>1
  <1>4. Waiting(interleaved_packets', n, received_audio', received_video')
      BY <1>1, Zenon
  <1>5. Sorted(interleaved_packets')
      BY <1>1, Zenon
  <1>6. /\ interleaved_packets' \in Seq(Packets)
        /\ received_audio' \in BOOLEAN /\ received_video' \in BOOLEAN
        /\ video_offset' \in Int /\ audio_offsets' \in [Tracks -> Int]
        /\ highest_audio_ts' \in Int /\ highest_video_ts' \in Int
        /\ out' \in Packets \cup {NoPacket} /\ first_out' \in Firsts
        /\ start_gap' \in [Tracks -> Int] /\ start_gap'[NumTracks] =< GapBound
        /\ out' = NoPacket /\ \A s \in Sources : first_out'[s] = NoPacket
      BY <1>1, <1>2
  <1>7. QED
      BY <1>3, <1>4, <1>5, <1>6, Zenon DEF Keeps

\* It waits, and its flags say which kind of packets there is.
LEMMA WaitKeeps ==
  ASSUME InterleaveTypeOK, NothingSent, start_gap[NumTracks] =< GapBound,
         NEW n \in Counts, NEW buf \in Seq(Packets), Sorted(buf),
         Untouched(buf, n), Missing(buf) # {},
         NEW audio_ts \in Int, NEW video_ts \in Int,
         Hold(buf, audio_ts, video_ts),
         SetReceived(Missing(buf) \cap Tracks = {}, Video \notin Missing(buf))
  PROVE  Keeps(n)
  <1>1. \A s \in Sources : s \in Missing(buf) <=> None(buf, s)
      BY MissingIs
  <1>2. PICK audio \in BOOLEAN : audio = (Missing(buf) \cap Tracks = {})
      OBVIOUS
  <1>3. PICK video \in BOOLEAN : video = (Video \notin Missing(buf))
      OBVIOUS
  <1>4. Missing(buf) \subseteq Sources /\ Tracks \subseteq Sources
        /\ Video \in Sources /\ \A s \in Sources : s = Video \/ s \in Tracks
      BY InterleaveConstants DEF Missing
  <1>5. video <=> ~None(buf, Video)
      BY <1>1, <1>3, <1>4
  <1>6. audio <=> ~ \E t \in Tracks : None(buf, t)
      BY <1>1, <1>2, <1>4
  <1>7. \E s \in Sources : None(buf, s)
      BY <1>1, <1>4
  <1>8. ~(audio /\ video)
      BY <1>4, <1>5, <1>6, <1>7
  <1>9. Waiting(buf, n, audio, video)
      BY <1>5, <1>6, <1>7, Zenon DEF Waiting
  <1>10. SetReceived(audio, video)
      BY <1>2, <1>3
  <1>11. QED
      BY <1>8, <1>9, <1>10, HoldKeeps

\* initialize_interleaved_packets asks for more audio.
LEMMA NotPastVideo ==
  ASSUME NEW buf \in Seq(Packets), Sorted(buf), Complete(buf),
         ~AudioPastVideo(buf)
  PROVE  EndsEarly(buf)
  <1>1. /\ InBuf(buf) \subseteq Packets /\ DOMAIN buf = 1 .. Len(buf)
        /\ \A i \in DOMAIN buf : buf[i] \in InBuf(buf)
        /\ \A q \in InBuf(buf) : q.dts_usec \in Int
        /\ Video \in Sources /\ Tracks \subseteq Sources
      BY InBufTyped, InterleaveConstants DEF InBuf
  <1>2. PICK t \in Tracks :
            ~(buf[LastOf(buf, t)].dts_usec >= buf[FirstOf(buf, Video)].dts_usec)
      BY DEF AudioPastVideo
  <1>3. PICK i \in DOMAIN buf : i = LastOf(buf, t) /\ buf[i].source = t
                                /\ \A j \in DOMAIN buf :
                                       buf[j].source = t => j =< i
      BY <1>1, LastOfIs DEF Complete
  <1>4. PICK g \in InBuf(buf) : /\ g = buf[FirstOf(buf, Video)]
                                /\ g.source = Video /\ FirstIn(buf, g)
      BY <1>1, FirstIsFirst DEF Complete
  <1>5. PICK e \in InBuf(buf) : e = buf[i]
      BY <1>1
  <1>6. e.dts_usec < g.dts_usec
      BY <1>1, <1>2, <1>3, <1>4, <1>5
  <1>7. ASSUME NEW p \in InBuf(buf), NEW q \in InBuf(buf),
               p.source = t, q.source = Video
        PROVE  p.dts_usec < q.dts_usec
    <2>1. g = q \/ g.dts_usec < q.dts_usec
        BY <1>4, <1>7 DEF FirstIn
    <2>2. p = e \/ p.dts_usec < e.dts_usec
      <3>1. PICK j \in DOMAIN buf : p = buf[j]
          BY DEF InBuf
      <3>2. j =< i
          BY <1>3, <1>7, <3>1
      <3>3. CASE j = i
          BY <1>5, <3>1, <3>3
      <3>4. CASE j < i
        <4>1. Before(p, e)
            BY <1>5, <3>1, <3>4, Zenon DEF Sorted
        <4>2. QED
            BY <1>3, <1>5, <1>7, <4>1 DEF Before
      <3>5. QED
          BY <1>1, <3>2, <3>3, <3>4
    <2>3. p.dts_usec \in Int /\ q.dts_usec \in Int /\ e.dts_usec \in Int
          /\ g.dts_usec \in Int
        BY <1>1
    <2>4. QED
        BY <1>6, <2>1, <2>2, <2>3
  <1>8. QED
      BY <1>7 DEF EndsEarly

\* initialize_interleaved_packets: the streams begin.
LEMMA StartKeeps ==
  ASSUME InterleaveTypeOK, NothingSent,
         NEW n \in Counts, NEW buf \in Seq(Packets), Sorted(buf),
         Untouched(buf, n), Complete(buf), AudioSoon(buf),
         NEW audio_ts \in Int, NEW video_ts \in Int,
         Start(buf, audio_ts, video_ts)
  PROVE  Keeps(n)
  <1> DEFINE first(s) == FirstPacket(buf, s)
  <1>1. PICK v : v = first(Video).pts
      OBVIOUS
  <1>2. PICK a : a = [t \in Tracks |-> first(t).dts]
      OBVIOUS
  <1>3. PICK ats : ats = audio_ts - first(1).dts_usec
      OBVIOUS
  <1>4. PICK vts : vts = video_ts - first(Video).dts_usec
      OBVIOUS
  <1>5. PICK r : r = FoldLeft(Insert, <<>>,
                              [i \in DOMAIN buf |-> Shift(buf[i], v, a)])
      OBVIOUS
  <1>6. /\ SetReceived(TRUE, TRUE) /\ SetHighest(ats, vts)
        /\ video_offset' = v /\ audio_offsets' = a
        /\ start_gap' = [t \in Tracks |->
                            first(t).dts_usec - first(Video).dts_usec]
        /\ Send(r, ats, vts)
      BY <1>1, <1>2, <1>3, <1>4, <1>5, Zenon DEF Start, FirstPacket
  <1>7. PICK sent : sent = first_out
      OBVIOUS
  <1>8. beginning \in Beginnings /\ \A s \in Sources : sent[s] = NoPacket
      BY <1>7 DEF InterleaveTypeOK, NothingSent
  <1>9. /\ v \in Int /\ a \in [Tracks -> Int]
        /\ r \in Seq(Packets) /\ Sorted(r) /\ r # <<>>
        /\ Moved(r, n, v, a) /\ FirstsAtZero(r, sent)
      BY <1>1, <1>2, <1>5, <1>8, StartIs
  <1>10. /\ interleaved_packets' \in Seq(Packets)
         /\ Sorted(interleaved_packets')
         /\ InBuf(interleaved_packets') \subseteq InBuf(r)
         /\ out' \in Packets \cup {NoPacket} /\ first_out' \in Firsts
         /\ FirstsAtZero(interleaved_packets', first_out')
    <2>1. first_out \in Firsts /\ out \in Packets \cup {NoPacket}
        BY DEF InterleaveTypeOK, Firsts
    <2>2. FirstsAtZero(r, first_out)
        BY <1>7, <1>9, Zenon
    <2>3. QED
        BY <1>6, <1>9, <2>1, <2>2, SendKeeps, Zenon
  <1>11. Moved(interleaved_packets', n, video_offset', audio_offsets')
    <2>1. video_offset' = v /\ audio_offsets' = a
        BY <1>6
    <2>2. Moved(interleaved_packets', n, v, a)
        BY <1>9, <1>10, Zenon DEF Moved
    <2>3. QED
        BY <2>1, <2>2, Zenon
  <1>12. \A s \in Sources : /\ first(s).source = s /\ FirstIn(buf, first(s))
                            /\ first(s) \in InBuf(buf)
                            /\ first(s).dts_usec \in Int
    <2>1. \A s \in Sources : first(s).source = s /\ FirstIn(buf, first(s))
        BY FirstIsFirst DEF Complete, FirstPacket
    <2> HIDE DEF first
    <2>2. QED
        BY <2>1, InBufTyped DEF FirstIn
  <1> HIDE DEF first
  <1>13. ats \in Int /\ vts \in Int
      BY <1>3, <1>4, <1>12, InterleaveConstants
  <1>14. /\ start_gap' \in [Tracks -> Int]
         /\ start_gap'[NumTracks] =< GapBound
    <2>1. /\ NumTracks \in Sources /\ Video \in Sources
          /\ NumTracks \in Tracks /\ Tracks \subseteq Sources
        BY InterleaveConstants
    <2>2. PICK f \in InBuf(buf) : f = first(NumTracks)
        BY <1>12, <2>1
    <2>3. PICK z \in InBuf(buf) : z = first(Video)
        BY <1>12, <2>1
    <2>4. PICK y \in InBuf(buf) : /\ y.source = NumTracks
                                  /\ y.dts_usec =< z.dts_usec + GapBound
        BY <1>12, <2>1, <2>3 DEF AudioSoon
    <2>5. f = y \/ f.dts_usec < y.dts_usec
        BY <1>12, <2>1, <2>2, <2>4 DEF FirstIn
    <2>6. /\ f.dts_usec \in Int /\ y.dts_usec \in Int /\ z.dts_usec \in Int
          /\ GapBound \in Nat
        BY InBufTyped, GapBoundIs
    <2>7. f.dts_usec - z.dts_usec =< GapBound
        BY <2>4, <2>5, <2>6
    <2>8. start_gap'[NumTracks] = f.dts_usec - z.dts_usec
        BY <1>6, <2>1, <2>2, <2>3
    <2>9. start_gap' \in [Tracks -> Int]
        BY <1>6, <1>12, <2>1
    <2>10. QED
        BY <2>7, <2>8, <2>9
  <1>15. /\ received_audio' \in BOOLEAN /\ received_video' \in BOOLEAN
         /\ received_audio' /\ received_video'
         /\ highest_audio_ts' \in Int /\ highest_video_ts' \in Int
         /\ video_offset' \in Int /\ audio_offsets' \in [Tracks -> Int]
      BY <1>6, <1>9, <1>13 DEF SetReceived, SetHighest
  <1>16. QED
      BY <1>10, <1>11, <1>14, <1>15, Zenon DEF Keeps

\* initialize_interleaved_packets, on what the pruning left.
LEMMA InitializeKeeps ==
  ASSUME InterleaveTypeOK, NothingSent, start_gap[NumTracks] =< GapBound,
         NEW n \in Counts, NEW buf \in Seq(Packets), Sorted(buf),
         Untouched(buf, n), Complete(buf) => AudioSoon(buf),
         NEW audio_ts \in Int, NEW video_ts \in Int,
         Initialize(buf, audio_ts, video_ts)
  PROVE  Keeps(n)
  <1>1. beginning \in Beginnings
      BY DEF InterleaveTypeOK
  <1>2. PICK begun : begun = Discard(buf, BeforeStart(buf))
      OBVIOUS
  <1>3. CASE Missing(buf) # {}
    <2>1. /\ Hold(buf, audio_ts, video_ts)
          /\ SetReceived(Missing(buf) \cap Tracks = {}, Video \notin Missing(buf))
        BY <1>3, Zenon DEF Initialize
    <2>2. QED
        BY <1>3, <2>1, WaitKeeps
  <1>4. CASE Missing(buf) = {}
    <2>1. Complete(buf)
        BY <1>4, NothingMissing
    <2>2. BeforeStart(buf) \in 0 .. Len(buf)
        BY <2>1, BeforeStartIs
    <2>3. begun \in Seq(Packets) /\ Sorted(begun) /\ Untouched(begun, n)
        BY <1>1, <1>2, <2>2, DiscardIs, DiscardWaits
    <2>4. CASE ~AudioPastVideo(buf)
      <3>1. Hold(buf, audio_ts, video_ts) /\ SetReceived(FALSE, TRUE)
          BY <1>4, <2>4, Zenon DEF Initialize
      <3>2. EndsEarly(buf)
          BY <2>1, <2>4, NotPastVideo
      <3>3. Waiting(buf, n, FALSE, TRUE)
          BY <2>1, <3>2, InterleaveConstants, Zenon DEF Waiting, Complete
      <3>4. QED
          BY <3>1, <3>3, HoldKeeps
    <2>5. CASE AudioPastVideo(buf) /\ Missing(begun) # {}
      <3>1. /\ Hold(begun, audio_ts, video_ts)
            /\ SetReceived(Missing(begun) \cap Tracks = {},
                           Video \notin Missing(begun))
          BY <1>2, <1>4, <2>5, Zenon DEF Initialize
      <3>2. QED
          BY <2>3, <2>5, <3>1, WaitKeeps
    <2>6. CASE AudioPastVideo(buf) /\ Missing(begun) = {}
      <3>1. Start(begun, audio_ts, video_ts)
          BY <1>2, <1>4, <2>6, Zenon DEF Initialize
      <3>2. Complete(begun)
          BY <2>3, <2>6, NothingMissing
      <3>3. ~None(begun, NumTracks)
          BY <3>2, InterleaveConstants DEF Complete
      <3>4. AudioSoon(begun)
          BY <1>1, <1>2, <2>1, <2>2, <3>3, DiscardSoon
      <3>5. QED
          BY <2>3, <3>1, <3>2, <3>4, StartKeeps
    <2>7. QED
        BY <2>4, <2>5, <2>6
  <1>5. QED
      BY <1>3, <1>4

\* The packet a source makes next, when n were made.
NextOf(p, n) ==
    /\ p \in Packets /\ p.pts = Made(n, p.source)
    /\ p.dts_usec = Clock(p.source) + p.pts /\ p.dts = p.pts - Lag(p.source)

\* No track is behind the one that makes the packet.
IsNext(p, n) ==
    \A u \in Tracks :
        Clock(p.source) + Made(n, p.source) =< Clock(u) + Made(n, u)

\* interleave_packets, when both kinds of packets were received.
LEMMA TryStartKeeps ==
  ASSUME InterleaveTypeOK, NothingSent, start_gap[NumTracks] =< GapBound,
         NEW n \in Counts, NEW m \in Counts, InStep(n),
         NEW old \in Seq(Packets), Sorted(old), Untouched(old, n),
         NEW p \in Packets, NextOf(p, n),
         \/ \E s \in Sources : None(old, s)
         \/ EndsEarly(old) /\ p.source # Video /\ IsNext(p, n),
         NEW buf, Adds(buf, old, p), Untouched(buf, m),
         NEW audio_ts \in Int, NEW video_ts \in Int,
         TryStart(buf, audio_ts, video_ts)
  PROVE  Keeps(m)
  <1>1. /\ beginning \in Beginnings /\ buf \in Seq(Packets) /\ Sorted(buf)
        /\ InBuf(buf) = InBuf(old) \cup {p}
      BY DEF InterleaveTypeOK, Adds
  <1>2. CASE Missing(buf) # {}
    <2>1. /\ Hold(buf, audio_ts, video_ts)
          /\ SetReceived(Video \in Missing(buf), Video \notin Missing(buf))
        BY <1>2, Zenon DEF TryStart
    <2>2. PICK audio \in BOOLEAN : audio = (Video \in Missing(buf))
      <3>1. (Video \in Missing(buf)) \in BOOLEAN
          OBVIOUS
      <3>2. QED
          BY <3>1, Zenon
    <2>3. PICK video \in BOOLEAN : video = (Video \notin Missing(buf))
        OBVIOUS
    <2>4. SetReceived(audio, video) /\ (audio <=> ~video)
        BY <2>1, <2>2, <2>3
    <2>5. video <=> ~None(buf, Video)
        BY <1>1, <2>3, MissingIs, InterleaveConstants
    <2>6. \E s \in Sources : None(buf, s)
        BY <1>1, <1>2, MissingIs DEF Missing
    <2>7. Waiting(buf, m, audio, video)
        BY <2>4, <2>5, <2>6, Zenon DEF Waiting
    <2>8. QED
        BY <1>1, <2>1, <2>4, <2>7, HoldKeeps
  <1>3. CASE Missing(buf) = {}
    <2>1. PICK k : k = IF Premature(buf) # 0 THEN Premature(buf)
                       ELSE BeforeStart(buf)
        OBVIOUS
    <2>2. PICK b : b = Discard(buf, k)
        OBVIOUS
    <2>3. Initialize(b, audio_ts, video_ts)
        BY <1>3, <2>1, <2>2, Zenon DEF TryStart, Pruned
    <2>4. Complete(buf)
        BY <1>1, <1>3, NothingMissing
    <2>5. k \in 0 .. Len(buf)
        BY <1>1, <2>1, <2>4, PrematureIs, BeforeStartIs
    <2>6. b \in Seq(Packets) /\ Sorted(b) /\ Untouched(b, m)
        BY <1>1, <2>2, <2>5, DiscardIs, DiscardWaits
    <2>7. \A s \in Sources : /\ FirstPacket(buf, s).source = s
                             /\ FirstIn(buf, FirstPacket(buf, s))
                             /\ FirstPacket(buf, s) \in InBuf(buf)
                             /\ FirstOf(buf, s) \in Nat \ {0}
      <3>1. DOMAIN buf = 1 .. Len(buf)
          BY <1>1
      <3>2. QED
          BY <1>1, <2>4, <3>1, FirstIsFirst DEF Complete, FirstPacket, FirstIn
    <2>8. /\ NumTracks \in Sources /\ Video \in Sources
          /\ VideoDuration \in Nat /\ GapBound \in Nat
          /\ VideoDuration =< GapBound
        BY InterleaveConstants, GapBoundIs
    <2>9. PICK f \in InBuf(buf) : f = FirstPacket(buf, NumTracks)
        BY <2>7, <2>8
    <2>10. PICK g \in InBuf(buf) : g = FirstPacket(buf, Video)
        BY <2>7, <2>8
    <2>11. f.dts_usec \in Int /\ g.dts_usec \in Int
        BY <1>1, InBufTyped
    <2>12. CASE f.dts_usec > g.dts_usec + VideoDuration
      <3>1. p.dts_usec = Clock(p.source) + Made(n, p.source)
          BY DEF NextOf
      <3>2. ~Complete(Discard(buf, Premature(buf)))
          BY <1>1, <2>4, <2>9, <2>10, <2>12, <3>1, TooEarly DEF IsNext
      <3>3. Premature(buf) # 0
        <4>1. /\ FirstOf(buf, Video) =< Premature(buf)
              /\ Premature(buf) \in 0 .. Len(buf)
            BY <1>1, <2>4, <2>8, <2>9, <2>10, <2>12, PrematureIs
        <4>2. FirstOf(buf, Video) \in Nat \ {0}
            BY <2>7, <2>8
        <4>3. QED
            BY <4>1, <4>2
      <3>4. ~Complete(b)
          BY <2>1, <2>2, <3>2, <3>3
      <3>5. QED
          BY <2>3, <2>6, <3>4, InitializeKeeps
    <2>13. CASE f.dts_usec =< g.dts_usec + VideoDuration
      <3>1. AudioSoon(buf)
        <4> SUFFICES ASSUME NEW z \in InBuf(buf), z.source = Video
                     PROVE  \E y \in InBuf(buf) :
                                /\ y.source = NumTracks
                                /\ y.dts_usec =< z.dts_usec + GapBound
            BY DEF AudioSoon
        <4>1. z.dts_usec \in Int
            BY <1>1, InBufTyped
        <4>2. g = z \/ g.dts_usec < z.dts_usec
            BY <2>7, <2>8, <2>10 DEF FirstIn
        <4>3. f.dts_usec =< z.dts_usec + GapBound
            BY <2>8, <2>11, <2>13, <4>1, <4>2
        <4>4. f.source = NumTracks
            BY <2>7, <2>8, <2>9
        <4>5. QED
            BY <4>3, <4>4
      <3>2. ASSUME Complete(b) PROVE AudioSoon(b)
        <4>1. ~None(b, NumTracks)
            BY <2>8, <3>2 DEF Complete
        <4>2. QED
            BY <1>1, <2>2, <2>5, <3>1, <4>1, DiscardSoon
      <3>3. QED
          BY <2>3, <2>6, <3>2, InitializeKeeps
    <2>14. QED
        BY <2>8, <2>11, <2>12, <2>13
  <1>4. QED
      BY <1>2, <1>3

\* The packet that a source makes next, moved like the others of a capture, comes
\* after them.
LEMMA MovedComesLast ==
  ASSUME beginning \in Beginnings, NEW c \in Counts, NEW n \in Counts,
         NEW p \in Packets, NextOf(p, c), OneMore(c, n, p.source),
         NEW v \in Int, NEW a \in [Tracks -> Int],
         NEW old \in Seq(Packets), Sorted(old), Moved(old, c, v, a),
         NEW packet, packet = Shift(p, v, a), NEW buf, buf = Insert(old, packet)
  PROVE  /\ packet.dts_usec = Limit(c, v, a, p.source)
         /\ \A u \in Sources : /\ Limit(c, v, a, u) \in Int
                               /\ Limit(n, v, a, u) \in Int
                               /\ Limit(c, v, a, u) =< Limit(n, v, a, u)
         /\ \A q \in InBuf(old) :
                q.source = packet.source => q.dts_usec < packet.dts_usec
         /\ Adds(buf, old, packet) /\ Moved(buf, n, v, a)
  <1> DEFINE s == p.source
  <1>1. /\ packet \in Packets /\ packet.source = s /\ s \in Sources
        /\ packet.dts_usec = p.dts - (IF s = Video THEN v ELSE a[s])
      BY ShiftIs DEF Packets
  <1>2. /\ Made(n, s) = Made(c, s) + Period(s)
        /\ \A u \in Sources : u # s => Made(n, u) = Made(c, u)
      BY <1>1, MadeOneMore
  <1>3. /\ \A u \in Sources : /\ Made(c, u) \in Nat /\ Lag(u) \in Nat
                              /\ Period(u) \in Nat \ {0}
                              /\ (IF u = Video THEN v ELSE a[u]) \in Int
      BY <1>1, SourceNumbers, InterleaveConstants
  <1>4. packet.dts_usec = Limit(c, v, a, s)
    <2>1. packet.dts_usec = p.dts - (IF s = Video THEN v ELSE a[s])
        BY ShiftIs
    <2>2. p.dts = Made(c, s) - Lag(s)
        BY DEF NextOf
    <2>3. QED
        BY <2>1, <2>2 DEF Limit
  <1>5. /\ \A u \in Sources : /\ Limit(c, v, a, u) \in Int
                              /\ Limit(c, v, a, u) =< Limit(n, v, a, u)
        /\ Limit(c, v, a, s) < Limit(n, v, a, s)
    <2>1. ASSUME NEW u \in Sources
          PROVE  /\ Limit(c, v, a, u) \in Int
                 /\ Limit(c, v, a, u) =< Limit(n, v, a, u)
                 /\ u = s => Limit(c, v, a, u) < Limit(n, v, a, u)
      <3>1. PICK o \in Int : o = IF u = Video THEN v ELSE a[u]
          BY <1>3
      <3>2. PICK d \in Nat : d = Lag(u)
          BY <1>3
      <3>3. PICK e \in Nat : e = Made(c, u)
          BY <1>3
      <3>4. PICK f \in Nat \ {0} : f = Period(u)
          BY <1>3
      <3>5. PICK g \in Nat : /\ g = Made(n, u)
                             /\ g = IF u = s THEN e + f ELSE e
        <4>1. CASE u = s
            BY <1>2, <3>3, <3>4, <4>1
        <4>2. CASE u # s
            BY <1>2, <3>3, <4>2
        <4>3. QED
            BY <4>1, <4>2
      <3>6. /\ Limit(c, v, a, u) = e - d - o
            /\ Limit(n, v, a, u) = g - d - o
          BY <3>1, <3>2, <3>3, <3>5 DEF Limit
      <3>7. /\ e - d - o \in Int /\ e - d - o =< g - d - o
            /\ u = s => e - d - o < g - d - o
        <4>1. e =< g /\ (u = s => e < g)
            BY <3>3, <3>4, <3>5
        <4>2. PICK b \in BOOLEAN : b = (u = s)
            OBVIOUS
        <4>3. g \in Nat
            BY <3>5
        <4>4. b => e < g
            BY <4>1, <4>2
        <4>5. e - d - o \in Int /\ e - d - o =< g - d - o
            BY <3>1, <3>2, <3>3, <4>1, <4>3
        <4>6. b => e - d - o < g - d - o
            BY <3>1, <3>2, <3>3, <4>3, <4>4
        <4>7. QED
            BY <4>2, <4>5, <4>6
      <3>8. QED
          BY <3>6, <3>7
    <2>2. QED
        BY <1>1, <2>1
  <1>6. ASSUME NEW q \in InBuf(old), q.source = packet.source
        PROVE  q.dts_usec < packet.dts_usec
      BY <1>1, <1>4, <1>6 DEF Moved
  <1>7. Adds(buf, old, packet)
      BY <1>1, <1>6, InsertIs
  <1>8. Moved(buf, n, v, a)
    <2>1. ASSUME NEW q \in InBuf(old)
          PROVE  q.dts_usec < Limit(n, v, a, q.source)
      <3>1. q.dts_usec \in Int /\ q.source \in Sources
          BY InBufTyped
      <3>2. q.dts_usec < Limit(c, v, a, q.source)
          BY DEF Moved
      <3>3. QED
        <4>1. PICK x \in Int : x = Limit(c, v, a, q.source)
            BY <1>5, <3>1
        <4>2. x =< Limit(n, v, a, q.source)
            BY <1>5, <3>1, <4>1
        <4>3. Limit(n, v, a, q.source) \in Int
          <5>1. Made(n, q.source) \in Nat
              BY <1>1, <3>1, SourceNumbers
          <5>2. QED
              BY <1>3, <3>1, <5>1 DEF Limit
        <4>4. QED
            BY <3>1, <3>2, <4>1, <4>2, <4>3
    <2>2. packet.dts_usec < Limit(n, v, a, packet.source)
        BY <1>1, <1>4, <1>5
    <2>3. QED
        BY <1>7, <2>1, <2>2 DEF Moved, Adds
  <1>9. \A u \in Sources : Limit(n, v, a, u) \in Int
    <2>1. \A u \in Sources : Made(n, u) \in Nat
        BY SourceNumbers
    <2>2. QED
        BY <1>3, <2>1 DEF Limit
  <1>10. QED
      BY <1>4, <1>5, <1>6, <1>7, <1>8, <1>9

\* interleave_packets, from the keyframe check on, in every state of a capture.
LEMMA ReceiveKeeps ==
  ASSUME InterleaveInv, NEW n \in Counts, NEW p \in Packets,
         NextOf(p, count), OneMore(count, n, p.source),
         p.source # Video => IsNext(p, count), Receive(p)
  PROVE  Keeps(n)
  <1>1. /\ InterleaveTypeOK /\ count \in Counts /\ beginning \in Beginnings
        /\ first_out \in Firsts /\ out \in Packets \cup {NoPacket}
        /\ p.source \in Sources
      BY DEF InterleaveInv, InterleaveTypeOK, Counts, Firsts, Packets
  <1>2. PICK c \in Counts : c = count
      BY <1>1
  <1>3. /\ NextOf(p, c) /\ OneMore(c, n, p.source) /\ InStep(c)
        /\ p.source # Video => IsNext(p, c)
      BY <1>2 DEF InterleaveInv
  <1>4. PICK old : old = interleaved_packets
      OBVIOUS
  <1>5. old \in Seq(Packets) /\ Sorted(old)
    <2>1. Sorted(interleaved_packets)
        BY Zenon DEF InterleaveInv
    <2>2. QED
        BY <1>1, <1>4, <2>1 DEF InterleaveTypeOK
  <1>6. start_gap[NumTracks] =< GapBound
      BY DEF InterleaveInv
  <1>7. PICK packet : packet = IF Started
                               THEN Shift(p, video_offset, audio_offsets) ELSE p
      OBVIOUS
  <1>8. PICK buf : buf = Insert(old, packet)
      OBVIOUS
  <1> DEFINE higher(x) == Max({x, packet.dts_usec})
             isVideo == p.source = Video
  <1>9. PICK audio_ts : audio_ts = IF isVideo THEN highest_audio_ts
                                   ELSE higher(highest_audio_ts)
      OBVIOUS
  <1>10. PICK video_ts : video_ts = IF isVideo THEN higher(highest_video_ts)
                                    ELSE highest_video_ts
      OBVIOUS
  <1>11. \/ /\ Started
            /\ Send(buf, audio_ts, video_ts)
            /\ SetHighest(audio_ts, video_ts)
            /\ UNCHANGED <<received_audio, received_video, video_offset,
                           audio_offsets, start_gap>>
         \/ /\ ~Started /\ (received_audio \/ ~isVideo)
            /\ received_video \/ isVideo
            /\ TryStart(buf, audio_ts, video_ts)
         \/ /\ ~((received_audio \/ ~isVideo) /\ (received_video \/ isVideo))
            /\ Hold(buf, audio_ts, video_ts)
            /\ SetReceived(received_audio \/ ~isVideo, received_video \/ isVideo)
      BY <1>4, <1>7, <1>8, <1>9, <1>10, Zenon DEF Receive, Started
  <1>12. packet \in Packets /\ packet.source = p.source
      BY <1>1, <1>7, ShiftIs DEF InterleaveTypeOK
  <1>13. audio_ts \in Int /\ video_ts \in Int
    <2>1. /\ highest_audio_ts \in Int /\ highest_video_ts \in Int
          /\ packet.dts_usec \in Int
        BY <1>1, <1>12 DEF InterleaveTypeOK, Packets
    <2>2. higher(highest_audio_ts) \in Int /\ higher(highest_video_ts) \in Int
        BY <2>1, MaxOfTwo
    <2> HIDE DEF higher
    <2>3. QED
        BY <1>9, <1>10, <2>1, <2>2
  <1> HIDE DEF higher
  <1>14. received_audio \in BOOLEAN /\ received_video \in BOOLEAN
      BY <1>1 DEF InterleaveTypeOK
  <1>15. CASE Started
    <2>1. /\ Send(buf, audio_ts, video_ts) /\ SetHighest(audio_ts, video_ts)
          /\ received_audio' = received_audio
          /\ received_video' = received_video
          /\ video_offset' = video_offset /\ audio_offsets' = audio_offsets
          /\ start_gap' = start_gap
      <3>1. \/ /\ Send(buf, audio_ts, video_ts)
               /\ SetHighest(audio_ts, video_ts)
               /\ UNCHANGED <<received_audio, received_video, video_offset,
                              audio_offsets, start_gap>>
            \/ ~((received_audio \/ ~isVideo) /\ (received_video \/ isVideo))
          BY <1>11, <1>15, Zenon
      <3>2. (received_audio \/ ~isVideo) /\ (received_video \/ isVideo)
          BY <1>15 DEF Started
      <3>3. QED
          BY <3>1, <3>2
    <2>2. PICK v \in Int : v = video_offset
        BY <1>1 DEF InterleaveTypeOK
    <2>3. PICK a \in [Tracks -> Int] : a = audio_offsets
        BY <1>1 DEF InterleaveTypeOK
    <2>4. PICK sent \in Firsts : sent = first_out
        BY <1>1
    <2>5. Moved(old, c, v, a) /\ FirstsAtZero(old, sent)
        BY <1>2, <1>4, <1>15, <2>2, <2>3, <2>4, Zenon DEF InterleaveInv
    <2>6. packet = Shift(p, v, a)
        BY <1>7, <1>15, <2>2, <2>3
    <2> DEFINE s == p.source
    <2>7. /\ \A q \in InBuf(old) :
                 q.source = packet.source => q.dts_usec < packet.dts_usec
          /\ Adds(buf, old, packet) /\ Moved(buf, n, v, a)
        BY <1>1, <1>3, <1>5, <1>8, <2>5, <2>6, MovedComesLast
    <2>8. FirstsAtZero(buf, sent)
      <3> SUFFICES ASSUME NEW u \in Sources, sent[u] = NoPacket
                   PROVE  \E q \in InBuf(buf) :
                              q.source = u /\ Zero(q) /\ FirstIn(buf, q)
          BY <2>5 DEF FirstsAtZero
      <3>1. PICK q \in InBuf(old) : q.source = u /\ Zero(q) /\ FirstIn(old, q)
          BY <2>5 DEF FirstsAtZero
      <3>2. FirstIn(buf, q)
          BY <2>7, <3>1 DEF FirstIn, Adds
      <3>3. QED
          BY <2>7, <3>1, <3>2 DEF Adds
    <2>9. /\ interleaved_packets' \in Seq(Packets)
           /\ Sorted(interleaved_packets')
           /\ InBuf(interleaved_packets') \subseteq InBuf(buf)
           /\ out' \in Packets \cup {NoPacket} /\ first_out' \in Firsts
           /\ FirstsAtZero(interleaved_packets', first_out')
      <3>1. FirstsAtZero(buf, first_out)
          BY <2>4, <2>8, Zenon
      <3>2. buf \in Seq(Packets) /\ Sorted(buf) /\ buf # <<>>
          BY <2>7 DEF Adds
      <3>3. QED
          BY <1>1, <2>1, <3>1, <3>2, SendKeeps, Zenon
    <2>10. Moved(interleaved_packets', n, video_offset', audio_offsets')
      <3>1. Moved(interleaved_packets', n, v, a)
          BY <2>7, <2>9, Zenon DEF Moved
      <3>2. QED
          BY <2>1, <2>2, <2>3, <3>1, Zenon
    <2>11. /\ received_audio' \in BOOLEAN /\ received_video' \in BOOLEAN
           /\ received_audio' /\ received_video'
           /\ highest_audio_ts' \in Int /\ highest_video_ts' \in Int
           /\ video_offset' \in Int /\ audio_offsets' \in [Tracks -> Int]
           /\ start_gap' \in [Tracks -> Int]
           /\ start_gap'[NumTracks] =< GapBound
        BY <1>1, <1>6, <1>13, <1>14, <1>15, <2>1
           DEF SetHighest, Started, InterleaveTypeOK
    <2>12. QED
        BY <2>9, <2>10, <2>11, Zenon DEF Keeps
  <1>16. CASE ~Started
    <2>1. packet = p
        BY <1>7, <1>16
    <2>2. /\ Waiting(old, c, received_audio, received_video) /\ NothingSent
        BY <1>2, <1>4, <1>16, Zenon DEF InterleaveInv
    <2>3. Untouched(old, c)
        BY <2>2 DEF Waiting
    <2>4. Adds(buf, old, p) /\ Untouched(buf, n)
        BY <1>1, <1>3, <1>5, <1>8, <2>1, <2>3, InsertWaits DEF NextOf
    <2>5. buf \in Seq(Packets) /\ Sorted(buf) /\ InBuf(buf) = InBuf(old) \cup {p}
        BY <2>4 DEF Adds
    <2>6. CASE /\ received_audio \/ ~isVideo
               /\ received_video \/ isVideo
      <3>1. TryStart(buf, audio_ts, video_ts)
          BY <1>11, <1>16, <2>6
      <3>2. \/ \E s \in Sources : None(old, s)
            \/ EndsEarly(old) /\ p.source # Video /\ IsNext(p, c)
        <4>1. SUFFICES ASSUME ~ \E s \in Sources : None(old, s)
                       PROVE  /\ EndsEarly(old) /\ p.source # Video
                              /\ IsNext(p, c)
            OBVIOUS
        <4>2. EndsEarly(old) /\ received_video
            BY <1>14, <2>2, <4>1, InterleaveConstants DEF Waiting
        <4>3. ~received_audio
            BY <1>16, <4>2 DEF Started
        <4>4. p.source # Video
            BY <2>6, <4>3
        <4>5. QED
            BY <1>3, <4>2, <4>4
      <3>3. QED
          BY <1>1, <1>3, <1>5, <1>6, <1>13, <2>2, <2>3, <2>4, <3>1, <3>2,
             TryStartKeeps
    <2>7. CASE ~((received_audio \/ ~isVideo) /\ (received_video \/ isVideo))
      <3>1. /\ Hold(buf, audio_ts, video_ts)
            /\ SetReceived(received_audio \/ ~isVideo, received_video \/ isVideo)
          BY <1>11, <1>16, <2>7, Zenon
      <3>2. PICK audio \in BOOLEAN : audio = (received_audio \/ ~isVideo)
        <4>1. (received_audio \/ ~isVideo) \in BOOLEAN
            OBVIOUS
        <4>2. QED
            BY <4>1, Zenon
      <3>3. PICK video \in BOOLEAN : video = (received_video \/ isVideo)
        <4>1. (received_video \/ isVideo) \in BOOLEAN
            OBVIOUS
        <4>2. QED
            BY <4>1, Zenon
      <3>4. SetReceived(audio, video) /\ ~(audio /\ video)
          BY <2>7, <3>1, <3>2, <3>3
      <3>5. None(buf, Video) <=> None(old, Video) /\ ~isVideo
          BY <2>5 DEF None
      <3>6. video <=> ~None(buf, Video)
          BY <1>14, <2>2, <3>3, <3>5 DEF Waiting
      <3>7. audio \/ video
          BY <3>2, <3>3
      <3>8. (\E s \in Sources : None(buf, s)) \/ EndsEarly(buf)
        <4>1. CASE ~video
            BY <3>6, <4>1, InterleaveConstants
        <4>2. CASE video
          <5>1. ~audio /\ isVideo /\ ~received_audio
              BY <1>14, <3>2, <3>4, <4>2
          <5>2. ASSUME NEW t \in Tracks, None(old, t)
                PROVE  None(buf, t)
              BY <2>5, <5>1, <5>2, InterleaveConstants DEF None
          <5>3. CASE ~received_video
            <6>1. \E t \in Tracks : None(old, t)
                BY <2>2, <5>1, <5>3 DEF Waiting
            <6>2. QED
                BY <5>2, <6>1, InterleaveConstants
          <5>4. CASE received_video
            <6>1. ~None(old, Video)
                BY <2>2, <5>4 DEF Waiting
            <6>2. CASE \E s \in Sources : None(old, s)
                BY <5>2, <6>1, <6>2, InterleaveConstants
            <6>3. CASE EndsEarly(old)
              <7>1. PICK t \in Tracks : \A x, q \in InBuf(old) :
                        x.source = t /\ q.source = Video
                            => x.dts_usec < q.dts_usec
                  BY <6>3 DEF EndsEarly
              <7>2. PICK z \in InBuf(old) : z.source = Video
                  BY <6>1 DEF None
              <7>3. z.dts_usec < p.dts_usec
                <8>1. Unmoved(z, c) /\ z \in Packets
                    BY <1>5, <2>3, InBufTyped DEF Untouched
                <8>2. z.dts_usec < Clock(Video) + Made(c, Video)
                    BY <1>1, <7>2, <8>1, UnmovedIsBefore
                <8>3. p.dts_usec = Clock(Video) + Made(c, Video)
                    BY <1>3, <5>1 DEF NextOf
                <8>4. QED
                    BY <8>2, <8>3
              <7>4. ASSUME NEW x \in InBuf(buf), NEW q \in InBuf(buf),
                           x.source = t, q.source = Video
                    PROVE  x.dts_usec < q.dts_usec
                <8>1. x \in InBuf(old)
                    BY <2>5, <5>1, <7>4, InterleaveConstants
                <8>2. CASE q \in InBuf(old)
                    BY <7>1, <7>4, <8>1, <8>2
                <8>3. CASE q = p
                  <9>1. x.dts_usec < z.dts_usec
                      BY <7>1, <7>2, <7>4, <8>1
                  <9>2. /\ x.dts_usec \in Int /\ z.dts_usec \in Int
                        /\ p.dts_usec \in Int
                      BY <1>5, <8>1, InBufTyped DEF Packets
                  <9>3. QED
                      BY <7>3, <8>3, <9>1, <9>2
                <8>4. QED
                    BY <2>5, <8>2, <8>3
              <7>5. QED
                  BY <7>4 DEF EndsEarly
            <6>4. QED
                BY <2>2, <6>2, <6>3 DEF Waiting
          <5>5. QED
              BY <1>14, <5>3, <5>4
        <4>3. QED
            BY <4>1, <4>2
      <3>9. Waiting(buf, n, audio, video)
          BY <2>4, <3>6, <3>7, <3>8, Zenon DEF Waiting
      <3>10. QED
          BY <1>1, <1>6, <1>13, <2>2, <2>5, <3>1, <3>4, <3>9, HoldKeeps
    <2>8. QED
        BY <2>6, <2>7
  <1>17. QED
      BY <1>15, <1>16

-----------------------------------------------------------------------------
(* The steps keep the invariant                                             *)

\* A source makes a packet, and no track gets ahead.
LEMMA StaysInStep ==
  ASSUME beginning \in Beginnings, NEW n \in Counts, NEW m \in Counts,
         InStep(n), NEW s \in Sources, OneMore(n, m, s),
         s # Video => \A u \in Tracks : Clock(s) + Made(n, s)
                                            =< Clock(u) + Made(n, u)
  PROVE  InStep(m)
  <1>1. /\ Made(m, s) = Made(n, s) + Period(s)
        /\ \A u \in Sources : u # s => Made(m, u) = Made(n, u) /\ m[u] = n[u]
      BY MadeOneMore
  <1>2. SUFFICES ASSUME NEW t \in Tracks, NEW u \in Tracks, m[u] > 0
                 PROVE  Clock(u) + Made(m, u)
                            =< Clock(t) + Made(m, t) + AudioDuration
      BY DEF InStep
  <1>3. /\ t \in Sources /\ u \in Sources /\ t # Video /\ u # Video
        /\ AudioDuration \in Nat
      BY InterleaveConstants
  <1>4. /\ \A x \in Sources : Clock(x) \in Nat /\ Made(n, x) \in Nat
        /\ \A x \in Sources : Made(m, x) \in Nat
        /\ Period(t) = AudioDuration /\ Period(u) = AudioDuration
      BY <1>3, SourceNumbers DEF Period
  <1>5. CASE u = s
    <2>1. Clock(u) + Made(n, u) =< Clock(t) + Made(n, t)
        BY <1>3, <1>5
    <2>2. Made(n, t) =< Made(m, t)
        BY <1>1, <1>3, <1>4, <1>5
    <2>3. Made(m, u) = Made(n, u) + AudioDuration
        BY <1>1, <1>4, <1>5
    <2>4. QED
        BY <1>3, <1>4, <2>1, <2>2, <2>3
  <1>6. CASE u # s
    <2>1. Made(m, u) = Made(n, u) /\ n[u] > 0
        BY <1>1, <1>2, <1>3, <1>6
    <2>2. Clock(u) + Made(n, u) =< Clock(t) + Made(n, t) + AudioDuration
        BY <2>1 DEF InStep
    <2>3. Made(n, t) =< Made(m, t)
      <3>1. CASE t = s
          BY <1>1, <1>3, <1>4, <3>1
      <3>2. CASE t # s
          BY <1>1, <1>3, <1>4, <3>2
      <3>3. QED
          BY <3>1, <3>2
    <2>4. QED
        BY <1>3, <1>4, <2>1, <2>2, <2>3
  <1>7. QED
      BY <1>5, <1>6

\* What a step keeps is the invariant after it.
LEMMA KeepsIsInv ==
  ASSUME NEW n \in Counts, count' = n, beginning \in Beginnings,
         beginning' = beginning, InStep(n), Keeps(n),
         sent_first' \in BOOLEAN, captures' \in Nat
  PROVE  InterleaveInv'
  <1>1. InterleaveTypeOK'
      BY Zenon DEF InterleaveTypeOK, Keeps, Counts, Firsts
  <1>2. Sorted(interleaved_packets)'
    <2>1. Sorted(interleaved_packets')
        BY DEF Keeps
    <2>2. QED
        BY <2>1, Zenon DEF Sorted, Before
  <1>3. /\ \A s \in Sources : Clock(s)' = Clock(s) /\ Lag(s)' = Lag(s)
        /\ Tracks \subseteq Sources
      BY InterleaveConstants DEF Clock, Lag
  <1>4. InStep(count)'
      BY <1>3 DEF InStep, Made, Period
  <1>5. CASE Started'
    <2>1. /\ Moved(interleaved_packets', n, video_offset', audio_offsets')
          /\ FirstsAtZero(interleaved_packets', first_out')
        BY <1>5, Zenon DEF Keeps, Started
    <2>2. FirstsAtZero(interleaved_packets, first_out)'
        BY <2>1, Zenon DEF FirstsAtZero, Zero, FirstIn, InBuf
    <2>3. Moved(interleaved_packets, count, video_offset, audio_offsets)'
      <3>1. PICK buf \in Seq(Packets) : buf = interleaved_packets'
          BY Zenon DEF Keeps
      <3>2. \A p \in InBuf(buf) : p.source \in Sources
          BY InBufTyped
      <3>3. \A p \in InBuf(buf) :
                p.dts_usec < Limit(n, video_offset', audio_offsets', p.source)
          BY <2>1, <3>1, Zenon DEF Moved
      <3>4. \A s \in Sources :
                Limit(count, video_offset, audio_offsets, s)'
                    = Limit(n, video_offset', audio_offsets', s)
          BY <1>3, Zenon DEF Limit, Made, Period
      <3>5. InBuf(interleaved_packets)' = InBuf(buf)
          BY <3>1, Zenon DEF InBuf
      <3>6. QED
          BY <3>2, <3>3, <3>4, <3>5, Zenon DEF Moved
    <2>4. QED
        BY <1>1, <1>2, <1>4, <1>5, <2>2, <2>3, Zenon DEF InterleaveInv, Keeps
  <1>6. CASE ~Started'
    <2>1. /\ Waiting(interleaved_packets', n, received_audio', received_video')
          /\ NothingSent'
        BY <1>6, Zenon DEF Keeps, Started, NothingSent
    <2>2. Waiting(interleaved_packets, count, received_audio, received_video)'
      <3>1. PICK buf \in Seq(Packets) : buf = interleaved_packets'
          BY Zenon DEF Keeps
      <3>2. Waiting(buf, n, received_audio', received_video')
          BY <2>1, <3>1
      <3>3. \A p \in InBuf(buf) : Unmoved(p, n) /\ p.source \in Sources
          BY <3>2, InBufTyped DEF Waiting, Untouched
      <3>4. \A p \in InBuf(buf) : Unmoved(p, count)'
          BY <1>3, <3>3, Zenon DEF Unmoved, Made, Period
      <3>5. InBuf(interleaved_packets)' = InBuf(buf)
          BY <3>1, Zenon DEF InBuf
      <3>6. Unbroken(interleaved_packets, count)'
        <4>1. Unbroken(buf, n)
            BY <3>2 DEF Waiting, Untouched
        <4>2. QED
            BY <3>5, <4>1, Zenon DEF Unbroken, Made, Period
      <3>7. \A s \in Sources : None(interleaved_packets, s)' <=> None(buf, s)
          BY <3>5, Zenon DEF None
      <3>8. EndsEarly(interleaved_packets)' <=> EndsEarly(buf)
          BY <3>5, Zenon DEF EndsEarly
      <3>9. Untouched(interleaved_packets, count)'
          BY <3>4, <3>5, <3>6, Zenon DEF Untouched
      <3>10. Video \in Sources
          BY InterleaveConstants
      <3>11. QED
          BY <1>3, <3>2, <3>7, <3>8, <3>9, <3>10, Zenon DEF Waiting
    <2>3. QED
        BY <1>1, <1>2, <1>4, <1>6, <2>1, <2>2, Zenon DEF InterleaveInv, Keeps
  <1>7. QED
      BY <1>5, <1>6

\* The packets of the encoders.
LEMMA PacketIs ==
  ASSUME InterleaveTypeOK, NEW s \in Sources, NEW k \in BOOLEAN
  PROVE  /\ Packet(s, k) \in Packets /\ Packet(s, k).source = s
         /\ NextOf(Packet(s, k), count)
  <1>1. /\ count \in Counts /\ beginning \in Beginnings
        /\ beginning \in [audio : [Tracks -> Nat], reorder : Nat]
      BY InterleaveAssumption DEF InterleaveTypeOK, Counts
  <1>2. /\ Made(count, s) \in Nat /\ Clock(s) \in Nat /\ Lag(s) \in Nat
      BY <1>1, SourceNumbers
  <1>3. Packet(s, k) =
            IF s = Video
            THEN [source |-> s, keyframe |-> k, pts |-> Made(count, s),
                  dts |-> Made(count, s) - Lag(s),
                  dts_usec |-> Clock(s) + Made(count, s)]
            ELSE [source |-> s, keyframe |-> FALSE, pts |-> Made(count, s),
                  dts |-> Made(count, s),
                  dts_usec |-> Clock(s) + Made(count, s)]
      BY DEF Packet, Made, Period, Clock, Lag
  <1>4. s # Video => Made(count, s) - Lag(s) = Made(count, s)
      BY <1>2 DEF Lag
  <1> DEFINE p == Packet(s, k)
  <1>5. /\ p.source = s /\ p.pts = Made(count, s)
        /\ p.dts = Made(count, s) - Lag(s)
        /\ p.dts_usec = Clock(s) + Made(count, s)
      BY <1>3, <1>4
  <1>6. p \in Packets
      BY <1>2, <1>3 DEF Packets
  <1>7. QED
      BY <1>5, <1>6 DEF NextOf

\* DropVideo: the buffer loses its beginning, and nothing else changes.
LEMMA DropIs ==
  ASSUME NEW old \in Seq(Packets), old = interleaved_packets, NEW p \in Packets,
         DropVideo(p)
  PROVE  \E k \in 0 .. Len(old) :
             /\ interleaved_packets' = Discard(old, k)
             /\ received_audio' = received_audio
             /\ received_video' = received_video
             /\ video_offset' = video_offset /\ audio_offsets' = audio_offsets
             /\ highest_audio_ts' = highest_audio_ts
             /\ highest_video_ts' = highest_video_ts
             /\ out' = out /\ first_out' = first_out /\ start_gap' = start_gap
  <1> DEFINE I == {i \in 1 .. Len(old) : old[i].dts_usec >= p.dts_usec}
             later == IF I # {} THEN Min(I) ELSE 0
             kept == IF later = 0 THEN Len(old) + 1 ELSE later
  <1>1. PICK k : k = kept - 1
      OBVIOUS
  <1>2. /\ interleaved_packets' = Discard(old, k)
        /\ received_audio' = received_audio
        /\ received_video' = received_video
        /\ video_offset' = video_offset /\ audio_offsets' = audio_offsets
        /\ highest_audio_ts' = highest_audio_ts
        /\ highest_video_ts' = highest_video_ts
        /\ out' = out /\ first_out' = first_out /\ start_gap' = start_gap
      BY <1>1 DEF DropVideo, SelectInSeq, historyVars
  <1>3. k \in 0 .. Len(old)
    <2>1. Len(old) \in Nat
        OBVIOUS
    <2>2. I # {} => Min(I) \in I
      <3>1. I \in SUBSET Nat
          OBVIOUS
      <3> HIDE DEF I
      <3>2. QED
          BY <3>1, LeastNumber
    <2>3. later \in 0 .. Len(old)
        BY <2>1, <2>2
    <2> HIDE DEF later
    <2>4. QED
        BY <1>1, <2>1, <2>3
  <1> HIDE DEF kept, later, I
  <1>4. QED
      BY <1>2, <1>3

\* DropVideo: no video was received, so the capture still waits.
LEMMA DropKeeps ==
  ASSUME InterleaveInv, ~received_video, NEW n \in Counts,
         NEW m \in Counts, n = count, OneMore(n, m, Video),
         NEW p \in Packets, DropVideo(p)
  PROVE  Keeps(m)
  <1>1. /\ InterleaveTypeOK /\ beginning \in Beginnings /\ NothingSent
        /\ start_gap[NumTracks] =< GapBound
      BY DEF InterleaveInv, InterleaveTypeOK, Started
  <1>2. PICK old : old = interleaved_packets
      OBVIOUS
  <1>3. old \in Seq(Packets) /\ Sorted(old)
    <2>1. Sorted(interleaved_packets)
        BY Zenon DEF InterleaveInv
    <2>2. QED
        BY <1>1, <1>2, <2>1 DEF InterleaveTypeOK
  <1>4. Waiting(old, n, received_audio, received_video)
      BY <1>2, Zenon DEF InterleaveInv, Started
  <1>5. PICK k \in 0 .. Len(old) :
            /\ interleaved_packets' = Discard(old, k)
            /\ received_audio' = received_audio
            /\ received_video' = received_video
            /\ video_offset' = video_offset /\ audio_offsets' = audio_offsets
            /\ highest_audio_ts' = highest_audio_ts
            /\ highest_video_ts' = highest_video_ts
            /\ out' = out /\ first_out' = first_out /\ start_gap' = start_gap
      BY <1>2, <1>3, DropIs
  <1>6. /\ interleaved_packets' = Discard(old, k)
        /\ received_audio' = received_audio
        /\ received_video' = received_video
        /\ video_offset' = video_offset /\ audio_offsets' = audio_offsets
        /\ highest_audio_ts' = highest_audio_ts
        /\ highest_video_ts' = highest_video_ts
        /\ out' = out /\ first_out' = first_out /\ start_gap' = start_gap
      BY <1>5
  <1>7. k \in 0 .. Len(old)
      BY <1>5
  <1>8. PICK buf : buf = Discard(old, k)
      OBVIOUS
  <1>9. /\ buf \in Seq(Packets) /\ Sorted(buf) /\ InBuf(buf) \subseteq InBuf(old)
      BY <1>3, <1>7, <1>8, DiscardIs
  <1>10. Untouched(buf, m)
    <2>1. Untouched(buf, n)
        BY <1>1, <1>3, <1>4, <1>7, <1>8, DiscardWaits DEF Waiting
    <2>2. /\ Made(m, Video) = Made(n, Video) + Period(Video)
          /\ \A u \in Sources : u # Video => Made(m, u) = Made(n, u)
        BY <1>1, MadeOneMore, InterleaveConstants
    <2>3. \A q \in InBuf(buf) : q.source # Video /\ q.source \in Sources
      <3>1. None(old, Video)
          BY <1>4 DEF Waiting
      <3>2. QED
          BY <1>9, <3>1, InBufTyped DEF None
    <2>4. \A q \in InBuf(buf) : Made(m, q.source) = Made(n, q.source)
        BY <2>2, <2>3
    <2>5. QED
        BY <2>1, <2>4, Zenon DEF Untouched, Unbroken, Unmoved
  <1>11. Waiting(buf, m, received_audio, received_video)
    <2>1. \A s : None(old, s) => None(buf, s)
        BY <1>9 DEF None
    <2>2. None(buf, Video) /\ Video \in Sources
        BY <1>4, <2>1, InterleaveConstants DEF Waiting
    <2>3. received_audio \/ \E t \in Tracks : None(buf, t)
        BY <1>4, <2>1 DEF Waiting
    <2>4. QED
        BY <1>10, <2>2, <2>3, Zenon DEF Waiting
  <1>12. PICK audio \in BOOLEAN : audio = received_audio
      BY <1>1 DEF InterleaveTypeOK
  <1>13. PICK video \in BOOLEAN : video = received_video
      BY <1>1 DEF InterleaveTypeOK
  <1>14. PICK audio_ts \in Int : audio_ts = highest_audio_ts
      BY <1>1 DEF InterleaveTypeOK
  <1>15. PICK video_ts \in Int : video_ts = highest_video_ts
      BY <1>1 DEF InterleaveTypeOK
  <1>16. Hold(buf, audio_ts, video_ts) /\ SetReceived(audio, video)
      BY <1>6, <1>8, <1>12, <1>13, <1>14, <1>15
         DEF Hold, SetReceived, SetHighest, historyVars
  <1>17. Waiting(buf, m, audio, video) /\ ~(audio /\ video)
      BY <1>11, <1>12, <1>13, Zenon
  <1>18. QED
      BY <1>1, <1>9, <1>16, <1>17, HoldKeeps

\* A new capture waits with an empty buffer.
LEMMA BeginKeeps ==
  ASSUME InterleaveInv, BeginCapture, NEW n \in Counts
  PROVE  Keeps(n)
  <1>1. /\ InterleaveTypeOK /\ start_gap[NumTracks] =< GapBound
      BY DEF InterleaveInv
  <1>2. /\ interleaved_packets' = <<>>
        /\ received_audio' = FALSE /\ received_video' = FALSE
        /\ highest_audio_ts' = 0 /\ highest_video_ts' = 0
        /\ video_offset' = 0
        /\ audio_offsets' = [audio_offsets EXCEPT ![1] = 0]
        /\ out' = NoPacket /\ first_out' = [s \in Sources |-> NoPacket]
        /\ start_gap' = start_gap
      BY DEF BeginCapture, SetReceived, SetHighest
  <1>3. /\ audio_offsets' \in [Tracks -> Int] /\ video_offset' \in Int
        /\ highest_audio_ts' \in Int /\ highest_video_ts' \in Int
        /\ start_gap' \in [Tracks -> Int] /\ start_gap'[NumTracks] =< GapBound
        /\ first_out' \in Firsts /\ out' \in Packets \cup {NoPacket}
        /\ \A s \in Sources : first_out'[s] = NoPacket
    <2>1. audio_offsets \in [Tracks -> Int] /\ start_gap \in [Tracks -> Int]
        BY <1>1 DEF InterleaveTypeOK
    <2>2. audio_offsets' \in [Tracks -> Int]
      <3>1. PICK a : a = audio_offsets
          OBVIOUS
      <3>2. audio_offsets' = [a EXCEPT ![1] = 0] /\ a \in [Tracks -> Int]
          BY <1>2, <2>1, <3>1
      <3>3. QED
          BY <3>2, InterleaveConstants
    <2>3. start_gap' \in [Tracks -> Int] /\ start_gap'[NumTracks] =< GapBound
        BY <1>1, <1>2, <2>1
    <2>4. /\ first_out' \in Firsts
          /\ \A s \in Sources : first_out'[s] = NoPacket
        BY <1>2 DEF Firsts
    <2>5. QED
        BY <1>2, <2>2, <2>3, <2>4
  <1>4. <<>> \in Seq(Packets) /\ InBuf(<<>>) = {} /\ Sorted(<<>>)
    <2>1. <<>> \in Seq(Packets) /\ DOMAIN <<>> = {}
        OBVIOUS
    <2>2. QED
        BY <2>1, Zenon DEF InBuf, Sorted
  <1>5. Waiting(<<>>, n, FALSE, FALSE)
    <2>1. \A s : None(<<>>, s)
        BY <1>4, Zenon DEF None
    <2>2. Untouched(<<>>, n)
        BY <1>4, Zenon DEF Untouched, Unbroken
    <2>3. Video \in Sources /\ 1 \in Tracks
        BY InterleaveConstants
    <2>4. QED
        BY <2>1, <2>2, <2>3, Zenon DEF Waiting
  <1>6. QED
      BY <1>2, <1>3, <1>4, <1>5, Zenon DEF Keeps

\* The invariant holds at the start.
LEMMA InterleaveInvInit == InterleaveInit => InterleaveInv
  <1> SUFFICES ASSUME InterleaveInit PROVE InterleaveInv
      OBVIOUS
  <1>1. InterleaveTypeOK /\ count \in Counts
    <2>1. interleaved_packets \in Seq(Packets)
        BY DEF InterleaveInit
    <2>2. /\ received_audio \in BOOLEAN /\ received_video \in BOOLEAN
          /\ beginning \in Beginnings /\ sent_first \in BOOLEAN
        BY Zenon DEF InterleaveInit
    <2>3. /\ video_offset \in Int /\ audio_offsets \in [Tracks -> Int]
          /\ highest_audio_ts \in Int /\ highest_video_ts \in Int
          /\ captures \in Nat /\ start_gap \in [Tracks -> Int]
        BY DEF InterleaveInit
    <2>4. count \in [Sources -> Nat]
        BY DEF InterleaveInit
    <2>5. /\ out \in Packets \cup {NoPacket}
          /\ first_out \in [Sources -> Packets \cup {NoPacket}]
        BY DEF InterleaveInit
    <2>6. QED
        BY <2>1, <2>2, <2>3, <2>4, <2>5, Zenon DEF InterleaveTypeOK, Counts
  <1>2. <<>> \in Seq(Packets) /\ InBuf(<<>>) = {} /\ Sorted(<<>>)
    <2>1. <<>> \in Seq(Packets) /\ DOMAIN <<>> = {}
        OBVIOUS
    <2>2. QED
        BY <2>1, Zenon DEF InBuf, Sorted
  <1>3. InStep(count)
    <2>1. \A s \in Sources : count[s] = 0
        BY DEF InterleaveInit
    <2>2. QED
        BY <2>1, InterleaveConstants DEF InStep
  <1>4. Waiting(<<>>, count, FALSE, FALSE)
    <2>1. \A s : None(<<>>, s)
        BY <1>2, Zenon DEF None
    <2>2. Untouched(<<>>, count)
        BY <1>2, Zenon DEF Untouched, Unbroken
    <2>3. Video \in Sources /\ 1 \in Tracks
        BY InterleaveConstants
    <2>4. QED
        BY <2>1, <2>2, <2>3, Zenon DEF Waiting
  <1>5. NothingSent /\ ~Started /\ interleaved_packets = <<>>
        /\ received_audio = FALSE /\ received_video = FALSE
      BY DEF InterleaveInit, NothingSent, Started
  <1>6. start_gap[NumTracks] =< GapBound
      BY GapBoundIs, InterleaveConstants DEF InterleaveInit
  <1>7. QED
      BY <1>1, <1>2, <1>3, <1>4, <1>5, <1>6, Zenon DEF InterleaveInv

\* An encoder makes its next packet: the output takes it, or drops it because no
\* keyframe came before it.
LEMMA EncodersStep ==
  ASSUME InterleaveTypeOK, InStep(count),
         VideoPacket \/ \E t \in Tracks : AudioPacket(t)
  PROVE  \E n \in Counts, p \in Packets :
             /\ count' = n /\ beginning' = beginning /\ captures' = captures
             /\ sent_first' \in BOOLEAN /\ InStep(n)
             /\ NextOf(p, count) /\ OneMore(count, n, p.source)
             /\ \/ Receive(p) /\ (p.source # Video => IsNext(p, count))
                \/ DropVideo(p) /\ ~received_video /\ p.source = Video
  <1>1. /\ count \in Counts /\ beginning \in Beginnings
        /\ sent_first \in BOOLEAN
      BY DEF InterleaveTypeOK, Counts
  <1>2. PICK c \in Counts : c = count
      BY <1>1
  <1>3. InStep(c) /\ Video \in Sources /\ Tracks \subseteq Sources
      BY <1>2, InterleaveConstants
  <1>4. ASSUME NEW s \in Sources, count' = [count EXCEPT ![s] = @ + 1]
        PROVE  \E n \in Counts : count' = n /\ OneMore(c, n, s)
    <2>1. count' \in Counts
        BY <1>1, <1>4 DEF Counts
    <2>2. PICK n \in Counts : n = count'
        BY <2>1
    <2>3. OneMore(c, n, s)
        BY <1>2, <1>4, <2>2 DEF OneMore, Counts
    <2>4. QED
        BY <2>2, <2>3
  <1>5. CASE VideoPacket
    <2>1. PICK k \in BOOLEAN :
              IF ~received_video /\ ~k THEN DropVideo(Packet(Video, k))
              ELSE Receive(Packet(Video, k))
        BY <1>5, Zenon DEF VideoPacket
    <2>2. /\ sent_first' = TRUE
          /\ count' = [count EXCEPT ![Video] = @ + 1]
          /\ beginning' = beginning /\ captures' = captures
        BY <1>5 DEF VideoPacket
    <2>3. PICK n \in Counts : count' = n /\ OneMore(c, n, Video)
        BY <1>3, <1>4, <2>2
    <2>4. PICK p : p = Packet(Video, k)
        OBVIOUS
    <2>5. p \in Packets /\ p.source = Video /\ NextOf(p, count)
        BY <1>1, <1>3, <2>4, PacketIs
    <2>6. InStep(n)
        BY <1>1, <1>3, <2>3, StaysInStep
    <2>7. OneMore(count, n, p.source) /\ sent_first' \in BOOLEAN
        BY <1>2, <2>2, <2>3, <2>5, Zenon
    <2>8. CASE ~received_video /\ ~k
      <3>1. DropVideo(p)
          BY <2>1, <2>4, <2>8
      <3>2. QED
          BY <2>2, <2>3, <2>5, <2>6, <2>7, <2>8, <3>1, Zenon
    <2>9. CASE ~(~received_video /\ ~k)
      <3>1. Receive(p)
          BY <2>1, <2>4, <2>9
      <3>2. QED
          BY <2>2, <2>3, <2>5, <2>6, <2>7, <3>1, Zenon
    <2>10. QED
        BY <2>8, <2>9
  <1>6. CASE \E t \in Tracks : AudioPacket(t)
    <2>1. PICK t \in Tracks : AudioPacket(t)
        BY <1>6
    <2>2. t \in Sources /\ t # Video
        BY <1>3, InterleaveConstants
    <2>3. PICK p : p = Packet(t, FALSE)
        OBVIOUS
    <2>4. /\ Receive(p) /\ sent_first' = sent_first
          /\ count' = [count EXCEPT ![t] = @ + 1]
          /\ beginning' = beginning /\ captures' = captures
        BY <2>1, <2>3 DEF AudioPacket
    <2>5. PICK n \in Counts : count' = n /\ OneMore(c, n, t)
        BY <1>4, <2>2, <2>4
    <2>6. p \in Packets /\ p.source = t /\ NextOf(p, count)
        BY <1>1, <2>2, <2>3, PacketIs
    <2>7. \A u \in Tracks : Clock(t) + Made(c, t) =< Clock(u) + Made(c, u)
      <3>1. \A u \in Tracks : /\ u # Video
                              /\ beginning.audio[u] + count[u] * AudioDuration
                                     = Clock(u) + Made(c, u)
          BY <1>2, InterleaveConstants DEF Clock, Made, Period
      <3>2. \A u \in Tracks : Clock(u) + Made(c, u) \in Nat
          BY <1>1, <1>3, SourceNumbers
      <3>3. \A u \in Tracks :
                LET x == beginning.audio[t] + count[t] * AudioDuration
                    y == beginning.audio[u] + count[u] * AudioDuration
                IN  x < y \/ (x = y /\ t =< u)
          BY <2>1 DEF AudioPacket
      <3>4. ASSUME NEW u \in Tracks
            PROVE  Clock(t) + Made(c, t) =< Clock(u) + Made(c, u)
        <4>1. PICK x \in Nat : x = Clock(t) + Made(c, t)
            BY <3>2
        <4>2. PICK y \in Nat : y = Clock(u) + Made(c, u)
            BY <3>2
        <4>3. x < y \/ x = y
            BY <3>1, <3>3, <4>1, <4>2
        <4>4. QED
            BY <4>1, <4>2, <4>3
      <3>5. QED
          BY <3>4
    <2>8. InStep(n)
        BY <1>1, <1>3, <2>2, <2>5, <2>7, StaysInStep
    <2>9. OneMore(count, n, p.source) /\ IsNext(p, count)
        BY <1>2, <2>5, <2>6, <2>7 DEF IsNext
    <2>10. sent_first' \in BOOLEAN
        BY <1>1, <2>4, Zenon
    <2>11. QED
        BY <2>4, <2>5, <2>6, <2>8, <2>9, <2>10, Zenon
  <1>7. QED
      BY <1>5, <1>6

\* Every step keeps it.
LEMMA InterleaveInvNext ==
  InterleaveInv /\ [InterleaveNext]_interleaveVars => InterleaveInv'
  <1> SUFFICES ASSUME InterleaveInv, [InterleaveNext]_interleaveVars
               PROVE  InterleaveInv'
      OBVIOUS
  <1>1. /\ InterleaveTypeOK /\ count \in Counts /\ beginning \in Beginnings
        /\ sent_first \in BOOLEAN /\ captures \in Nat /\ InStep(count)
      BY DEF InterleaveInv, InterleaveTypeOK, Counts
  <1>2. PICK c \in Counts : c = count
      BY <1>1
  <1>3. InStep(c)
      BY <1>1, <1>2
  <1>4. CASE VideoPacket \/ \E t \in Tracks : AudioPacket(t)
    <2>1. PICK n \in Counts, p \in Packets :
              /\ count' = n /\ beginning' = beginning /\ captures' = captures
              /\ sent_first' \in BOOLEAN /\ InStep(n)
              /\ NextOf(p, count) /\ OneMore(count, n, p.source)
              /\ \/ Receive(p) /\ (p.source # Video => IsNext(p, count))
                 \/ DropVideo(p) /\ ~received_video /\ p.source = Video
        BY <1>1, <1>4, EncodersStep
    <2>2. CASE Receive(p) /\ (p.source # Video => IsNext(p, count))
      <3>1. Keeps(n)
          BY <2>1, <2>2, ReceiveKeeps
      <3>2. QED
          BY <1>1, <2>1, <3>1, KeepsIsInv
    <2>3. CASE DropVideo(p) /\ ~received_video /\ p.source = Video
      <3>1. OneMore(c, n, Video)
          BY <1>2, <2>1, <2>3
      <3>2. Keeps(n)
          BY <1>2, <2>3, <3>1, DropKeeps
      <3>3. QED
          BY <1>1, <2>1, <3>2, KeepsIsInv
    <2>4. QED
        BY <2>1, <2>2, <2>3, Zenon
  <1>5. CASE BeginCapture
    <2>1. /\ sent_first' = FALSE /\ captures' = captures + 1
          /\ beginning' = beginning /\ count' = c
        BY <1>2, <1>5 DEF BeginCapture
    <2>2. Keeps(c)
        BY <1>5, BeginKeeps
    <2>3. sent_first' \in BOOLEAN /\ captures' \in Nat
      <3>1. sent_first' \in BOOLEAN
          BY <2>1, Zenon
      <3>2. captures' = captures + 1 /\ captures \in Nat
          BY <1>1, <2>1
      <3>3. QED
          BY <3>1, <3>2
    <2>4. QED
        BY <1>1, <1>3, <2>1, <2>2, <2>3, KeepsIsInv
  <1>6. CASE UNCHANGED interleaveVars
    <2>1. /\ interleaved_packets' = interleaved_packets
          /\ received_audio' = received_audio
          /\ received_video' = received_video
          /\ video_offset' = video_offset /\ audio_offsets' = audio_offsets
          /\ highest_audio_ts' = highest_audio_ts
          /\ highest_video_ts' = highest_video_ts
          /\ out' = out /\ first_out' = first_out /\ start_gap' = start_gap
          /\ beginning' = beginning /\ count' = c
          /\ sent_first' = sent_first /\ captures' = captures
        BY <1>2, <1>6 DEF interleaveVars, outputVars, historyVars
    <2>2. Keeps(c)
        BY <1>2, <2>1, Zenon
           DEF Keeps, InterleaveInv, InterleaveTypeOK, Started, NothingSent,
               Firsts
    <2>3. QED
        BY <1>1, <1>3, <2>1, <2>2, KeepsIsInv
  <1>7. QED
      BY <1>4, <1>5, <1>6 DEF InterleaveNext

-----------------------------------------------------------------------------
(* The order of the packets                                                 *)

\* CloseTogether, of tracks that begin at gap.
Close(gap) ==
    /\ \A t, u \in Tracks : gap[t] - gap[u] < AudioDuration
    /\ \A t, u \in Tracks : t = u \/ gap[t] =< gap[1] \/ gap[u] =< gap[1]

\* Audio begins at whole packets of its encoder.
Whole(buf) ==
    \A p \in InBuf(buf) :
        p.source # Video => \E k \in Nat : p.pts = k * AudioDuration

\* Before the start: the highest audio time stamp is that of the packet some
\* track made last, and no video is due before the highest one of the video.
HighestSoFar(n, audio_ts, video_ts) ==
    /\ \/ audio_ts = 0
       \/ \E t \in Tracks :
              n[t] > 0 /\ audio_ts + AudioDuration = Clock(t) + Made(n, t)
    /\ video_ts =< Clock(Video) + Made(n, Video)

\* The offsets of the tracks are whole packets, and gap says how far apart the
\* tracks were at the start.
BegunAt(a, gap) ==
    /\ \A t \in Tracks : \E k \in Nat : a[t] = k * AudioDuration
    /\ \A t, u \in Tracks :
           gap[t] - gap[u] = (Clock(t) + a[t]) - (Clock(u) + a[u])

\* After the start: no audio is due before the highest audio time stamp or
\* before audio of any track that waits, and no video before the highest one.
Level(buf, n, v, a, audio_ts, video_ts) ==
    /\ video_ts =< Limit(n, v, a, Video)
    /\ \A t \in Tracks :
           /\ audio_ts =< Limit(n, v, a, t)
           /\ \A p \in InBuf(buf) :
                  p.source # Video => p.dts_usec =< Limit(n, v, a, t)

\* Neither what waits nor what is due is before the packet that was sent.
Past(p, buf, n, v, a) ==
    p # NoPacket =>
        /\ \A q \in InBuf(buf) : p.dts_usec =< q.dts_usec
        /\ \A s \in Sources : p.dts_usec =< Limit(n, v, a, s)

\* A capture that has begun.
InStride(buf, n, v, a, gap, audio_ts, video_ts, sent) ==
    /\ BegunAt(a, gap)
    /\ beginning.reorder = 0 /\ Close(gap) =>
           Level(buf, n, v, a, audio_ts, video_ts) /\ Past(sent, buf, n, v, a)

OrderInv ==
    IF Started
    THEN InStride(interleaved_packets, count, video_offset, audio_offsets,
                  start_gap, highest_audio_ts, highest_video_ts, out)
    ELSE /\ Whole(interleaved_packets)
         /\ HighestSoFar(count, highest_audio_ts, highest_video_ts)

-----------------------------------------------------------------------------
(* The arithmetic of the tracks                                             *)

\* Multiples that are less than a multiple apart.
LEMMA Multiples ==
  ASSUME NEW d \in Nat \ {0}, NEW x \in Int, NEW y \in Int, x * d < y * d + d
  PROVE  x * d =< y * d
  <1>1. CASE x =< y
    <2>1. PICK z \in Nat : y = x + z
        BY <1>1
    <2>2. (x + z) * d = x * d + z * d /\ z * d \in Nat
        OBVIOUS
    <2>3. x * d \in Int
        OBVIOUS
    <2>4. QED
        BY <2>1, <2>2, <2>3
  <1>2. CASE y + 1 =< x
    <2>1. PICK z \in Nat : x = (y + 1) + z
        BY <1>2
    <2>2. /\ ((y + 1) + z) * d = (y * d + d) + z * d /\ z * d \in Nat
          /\ y * d \in Int
        OBVIOUS
    <2>3. QED
        BY <2>1, <2>2
  <1>3. QED
      BY <1>1, <1>2

\* Where a track that began at whole packets is.
LEMMA LimitIs ==
  ASSUME beginning \in Beginnings, NEW n \in Counts, NEW v,
         NEW a \in [Tracks -> Int], NEW t \in Tracks
  PROVE  /\ Clock(t) \in Nat /\ Made(n, t) \in Nat /\ a[t] \in Int
         /\ n[t] \in Nat /\ Made(n, t) = n[t] * AudioDuration
         /\ Limit(n, v, a, t) = Made(n, t) - a[t]
  <1>1. t \in Sources /\ t # Video /\ AudioDuration \in Nat
      BY InterleaveConstants
  <1>2. Clock(t) \in Nat /\ Made(n, t) \in Nat
      BY <1>1, SourceNumbers
  <1>3. Made(n, t) = n[t] * AudioDuration /\ n[t] \in Nat
      BY <1>1 DEF Made, Period, Counts
  <1>4. Limit(n, v, a, t) = Made(n, t) - 0 - a[t]
      BY <1>1 DEF Limit, Lag
  <1>5. QED
      BY <1>2, <1>3, <1>4

\* Audio of track t that is not due after the next packet of track u in the
\* system's time is not due after it in the time of the capture.
LEMMA NotAfter ==
  ASSUME beginning \in Beginnings, NEW n \in Counts, NEW v,
         NEW a \in [Tracks -> Int], NEW gap \in [Tracks -> Int],
         BegunAt(a, gap), NEW t \in Tracks, NEW u \in Tracks,
         gap[u] - gap[t] < AudioDuration, NEW x \in Int,
         Clock(t) + a[t] + x * AudioDuration =< Clock(u) + Made(n, u)
  PROVE  /\ x * AudioDuration =< Limit(n, v, a, u)
         /\ gap[u] < gap[t] =>
                x * AudioDuration + AudioDuration =< Limit(n, v, a, u)
  <1>1. PICK d \in Nat \ {0} : d = AudioDuration
      BY InterleaveConstants
  <1>2. PICK k \in Nat : a[u] = k * d
      BY <1>1 DEF BegunAt
  <1>3. PICK c \in Nat : c = n[u]
      BY LimitIs
  <1>4. /\ Clock(t) \in Nat /\ Clock(u) \in Nat /\ a[t] \in Int /\ a[u] \in Int
        /\ Made(n, u) = c * d /\ Limit(n, v, a, u) = c * d - k * d
        /\ c * d \in Int /\ k * d \in Int
    <2>1. /\ Clock(t) \in Nat /\ Clock(u) \in Nat /\ a[t] \in Int
          /\ a[u] \in Int /\ Made(n, u) = n[u] * AudioDuration
          /\ Limit(n, v, a, u) = Made(n, u) - a[u]
        BY LimitIs
    <2>2. c * d \in Int /\ k * d \in Int
        OBVIOUS
    <2>3. Made(n, u) = c * d
        BY <1>1, <1>3, <2>1
    <2>4. QED
        BY <1>2, <2>1, <2>2, <2>3
  <1>5. (c - k) * d = c * d - k * d
      OBVIOUS
  <1>6. PICK y \in Int : y = c - k
      OBVIOUS
  <1>7. gap[u] - gap[t] = (Clock(u) + a[u]) - (Clock(t) + a[t])
      BY DEF BegunAt
  <1>8. PICK e \in Int : e = gap[u] - gap[t]
      OBVIOUS
  <1>9. x * d \in Int /\ y * d \in Int /\ y * d = Limit(n, v, a, u)
      BY <1>4, <1>5, <1>6
  <1>10. x * d =< y * d + e
    <2>1. PICK p \in Int : p = Clock(t) + a[t]
        BY <1>4
    <2>2. PICK q \in Int : q = Clock(u)
        BY <1>4
    <2>3. PICK r \in Int : r = x * d
        BY <1>9
    <2>4. p + r =< q + c * d
        BY <1>1, <1>4, <2>1, <2>2, <2>3
    <2>5. e = (q + k * d) - p
        BY <1>2, <1>7, <1>8, <2>1, <2>2
    <2>6. PICK f \in Int : f = c * d
        BY <1>4
    <2>7. PICK g \in Int : g = k * d
        BY <1>4
    <2>8. y * d = f - g
        BY <1>5, <1>6, <2>6, <2>7
    <2>9. p + r =< q + f /\ e = (q + g) - p
        BY <2>4, <2>5, <2>6, <2>7
    <2>10. r =< (f - g) + e
        BY <2>1, <2>2, <2>3, <2>6, <2>7, <2>9
    <2>11. QED
        BY <2>3, <2>8, <2>10
  <1>11. x * d =< y * d
    <2>1. x * d < y * d + d
        BY <1>1, <1>8, <1>9, <1>10
    <2>2. QED
        BY <2>1, Multiples
  <1>12. ASSUME e < 0 PROVE x * d + d =< y * d
    <2>1. PICK z \in Int : z = x + 1
        OBVIOUS
    <2>2. z * d = x * d + d
      <3>1. (x + 1) * d = x * d + d
          OBVIOUS
      <3>2. QED
          BY <2>1, <3>1
    <2>3. z * d < y * d + d
        BY <1>8, <1>9, <1>10, <1>12, <2>2
    <2>4. z * d =< y * d
        BY <2>1, <2>3, Multiples
    <2>5. QED
        BY <2>2, <2>4
  <1>13. gap[u] < gap[t] => e < 0
      BY <1>8
  <1>14. QED
      BY <1>1, <1>9, <1>11, <1>12, <1>13

\* A track is not ahead of the others by more than its last packet.
LEMMA LastNotAfter ==
  ASSUME beginning \in Beginnings, NEW n \in Counts, InStep(n), NEW v,
         NEW a \in [Tracks -> Int], NEW gap \in [Tracks -> Int],
         BegunAt(a, gap), NEW t \in Tracks, NEW u \in Tracks,
         gap[u] - gap[t] < AudioDuration, n[t] > 0
  PROVE  /\ Limit(n, v, a, t) =< Limit(n, v, a, u) + AudioDuration
         /\ gap[u] < gap[t] => Limit(n, v, a, t) =< Limit(n, v, a, u)
  <1>1. PICK d \in Nat \ {0} : d = AudioDuration
      BY InterleaveConstants
  <1>2. PICK k \in Nat : a[t] = k * d
      BY <1>1 DEF BegunAt
  <1>3. PICK c \in Nat : c = n[t]
      BY LimitIs
  <1>4. PICK x \in Int : x = c - k - 1
      OBVIOUS
  <1>5. /\ Clock(t) \in Nat /\ Made(n, t) = c * d
        /\ Limit(n, v, a, t) = c * d - k * d
        /\ Clock(u) \in Nat /\ Made(n, u) \in Nat /\ Limit(n, v, a, u) \in Int
        /\ c * d \in Int /\ k * d \in Int
    <2>1. Limit(n, v, a, u) = Made(n, u) - a[u] /\ Made(n, u) \in Nat
          /\ a[u] \in Int
        BY LimitIs
    <2>2. /\ Clock(t) \in Nat /\ Made(n, t) = n[t] * AudioDuration
          /\ Limit(n, v, a, t) = Made(n, t) - a[t]
          /\ Clock(u) \in Nat
        BY LimitIs
    <2>3. c * d \in Int /\ k * d \in Int
        OBVIOUS
    <2>4. Made(n, t) = c * d
        BY <1>1, <1>3, <2>2
    <2>5. QED
        BY <1>2, <2>1, <2>2, <2>3, <2>4
  <1>6. x * d = c * d - k * d - d
    <2>1. (c - k - 1) * d = c * d - k * d - d
        OBVIOUS
    <2>2. QED
        BY <1>4, <2>1
  <1>7. Clock(t) + a[t] + x * d =< Clock(u) + Made(n, u)
    <2>1. Clock(t) + Made(n, t) =< Clock(u) + Made(n, u) + d
        BY <1>1 DEF InStep
    <2>2. PICK f \in Int : f = c * d
        BY <1>5
    <2>3. PICK g \in Int : g = k * d
        BY <1>5
    <2>4. /\ x * d = f - g - d /\ a[t] = g
          /\ Clock(t) + f =< Clock(u) + Made(n, u) + d
        BY <1>2, <1>5, <1>6, <2>1, <2>2, <2>3
    <2>5. QED
        BY <1>1, <1>5, <2>2, <2>3, <2>4
  <1>8. /\ x * d =< Limit(n, v, a, u)
        /\ gap[u] < gap[t] => x * d + d =< Limit(n, v, a, u)
      BY <1>1, <1>7, NotAfter
  <1>9. Limit(n, v, a, t) = x * d + d
    <2>1. PICK f \in Int : f = c * d - k * d
        BY <1>5
    <2>2. x * d = f - d /\ Limit(n, v, a, t) = f
        BY <1>5, <1>6, <2>1
    <2>3. QED
        BY <1>1, <2>1, <2>2
  <1>10. x * d \in Int
      BY <1>1, <1>4
  <1>11. QED
      BY <1>1, <1>5, <1>8, <1>9, <1>10

\* The highest time stamp of the audio, moved by the first track's offset, is
\* not after what is due of any track.
LEMMA HighestNotAfter ==
  ASSUME beginning \in Beginnings, NEW n \in Counts, InStep(n), NEW v,
         NEW a \in [Tracks -> Int], NEW gap \in [Tracks -> Int],
         BegunAt(a, gap), Close(gap), \A t \in Tracks : a[t] =< Made(n, t),
         NEW audio_ts \in Int,
         \/ audio_ts = 0
         \/ \E t \in Tracks :
                n[t] > 0 /\ audio_ts + AudioDuration = Clock(t) + Made(n, t),
         NEW u \in Tracks
  PROVE  audio_ts - (Clock(1) + a[1]) =< Limit(n, v, a, u)
  <1>1. PICK d \in Nat \ {0} : d = AudioDuration
      BY InterleaveConstants
  <1>2. 1 \in Tracks
      BY InterleaveConstants
  <1>3. \A t \in Tracks : /\ Clock(t) \in Nat /\ Made(n, t) \in Nat
                          /\ a[t] \in Int /\ Limit(n, v, a, t) \in Int
                          /\ Limit(n, v, a, t) = Made(n, t) - a[t]
    <2>1. \A t \in Tracks : /\ Clock(t) \in Nat /\ Made(n, t) \in Nat
                            /\ a[t] \in Int
                            /\ Limit(n, v, a, t) = Made(n, t) - a[t]
        BY LimitIs
    <2>2. QED
        BY <2>1
  <1>4. PICK f \in Nat : f = Clock(1) + a[1]
    <2>1. PICK k \in Nat : a[1] = k * d
        BY <1>1, <1>2 DEF BegunAt
    <2>2. Clock(1) \in Nat /\ k * d \in Nat
        BY <1>2, <1>3
    <2>3. QED
        BY <2>1, <2>2
  <1>5. PICK l \in Int : l = Limit(n, v, a, u)
      BY <1>3
  <1>6. CASE audio_ts = 0
    <2>1. 0 =< l
        BY <1>3, <1>5
    <2>2. QED
        BY <1>4, <1>5, <1>6, <2>1
  <1>7. ASSUME NEW t \in Tracks, n[t] > 0,
               audio_ts + AudioDuration = Clock(t) + Made(n, t)
        PROVE  audio_ts - (Clock(1) + a[1]) =< Limit(n, v, a, u)
    <2>1. PICK m \in Int : m = Limit(n, v, a, t)
        BY <1>3
    <2>2. PICK e \in Int : e = gap[t] - gap[1]
        BY <1>2
    <2>3. e = (Clock(t) + a[t]) - f /\ e < d
        BY <1>1, <1>2, <1>4, <2>2 DEF BegunAt, Close
    <2>4. audio_ts - f = e + m - d
      <3>1. m = Made(n, t) - a[t] /\ Made(n, t) \in Nat /\ a[t] \in Int
            /\ Clock(t) \in Nat
          BY <1>3, <2>1
      <3>2. audio_ts + d = Clock(t) + Made(n, t)
          BY <1>1, <1>7
      <3>3. QED
          BY <1>1, <1>4, <2>2, <2>3, <3>1, <3>2
    <2>5. gap[u] - gap[t] < AudioDuration
        BY DEF Close
    <2>6. /\ m =< l + d
          /\ gap[u] < gap[t] => m =< l
        BY <1>1, <1>5, <1>7, <2>1, <2>5, LastNotAfter
    <2>7. CASE gap[t] =< gap[1]
      <3>1. e =< 0
          BY <1>2, <2>2, <2>7
      <3>2. audio_ts - f =< l
          BY <1>1, <1>4, <1>5, <2>1, <2>2, <2>4, <2>6, <3>1
      <3>3. QED
          BY <1>4, <1>5, <3>2
    <2>8. CASE ~(gap[t] =< gap[1])
      <3>1. m =< l
        <4>1. CASE t = u
            BY <1>5, <2>1, <4>1
        <4>2. CASE t # u
          <5>1. gap[u] =< gap[1]
              BY <2>8, <4>2 DEF Close
          <5>2. gap[u] < gap[t]
              BY <1>2, <2>8, <5>1
          <5>3. QED
              BY <2>6, <5>2
        <4>3. QED
            BY <4>1, <4>2
      <3>2. audio_ts - f =< l
          BY <1>1, <1>4, <1>5, <2>1, <2>2, <2>3, <2>4, <3>1
      <3>3. QED
          BY <1>4, <1>5, <3>2
    <2>9. QED
        BY <2>7, <2>8
  <1>8. QED
      BY <1>6, <1>7

-----------------------------------------------------------------------------
(* The steps keep the order                                                 *)

\* The first packet of the buffer is not after the others.
LEMMA HeadIsLeast ==
  ASSUME NEW buf \in Seq(Packets), Sorted(buf), buf # <<>>
  PROVE  /\ Head(buf) \in InBuf(buf)
         /\ \A q \in InBuf(buf) : Head(buf).dts_usec =< q.dts_usec
  <1>1. /\ DOMAIN buf = 1 .. Len(buf) /\ Len(buf) \in Nat \ {0}
        /\ Head(buf) = buf[1] /\ Head(buf) \in InBuf(buf)
      BY HeadTailIs
  <1>2. \A q \in InBuf(buf) : q.dts_usec \in Int
      BY InBufTyped
  <1>3. ASSUME NEW q \in InBuf(buf) PROVE Head(buf).dts_usec =< q.dts_usec
    <2>1. PICK i \in DOMAIN buf : q = buf[i]
        BY DEF InBuf
    <2>2. i = 1 \/ 1 < i
        BY <1>1, <2>1
    <2>3. CASE i = 1
        BY <1>1, <1>2, <2>1, <2>3
    <2>4. CASE 1 < i
      <3>1. Before(Head(buf), q)
          BY <1>1, <2>1, <2>4 DEF Sorted
      <3>2. QED
          BY <1>1, <1>2, <3>1 DEF Before
    <2>5. QED
        BY <2>2, <2>3, <2>4
  <1>4. QED
      BY <1>1, <1>3

\* What is due is not before what the sources have made.
LEMMA LimitsAreNumbers ==
  ASSUME beginning \in Beginnings, NEW n \in Counts, NEW v \in Int,
         NEW a \in [Tracks -> Int]
  PROVE  \A s \in Sources : Limit(n, v, a, s) \in Int
  <1> SUFFICES ASSUME NEW s \in Sources
               PROVE  Limit(n, v, a, s) \in Int
      OBVIOUS
  <1>1. PICK o \in Int : o = IF s = Video THEN v ELSE a[s]
      BY InterleaveConstants
  <1>2. Made(n, s) \in Nat /\ Lag(s) \in Nat
      BY SourceNumbers
  <1>3. QED
      BY <1>1, <1>2 DEF Limit

\* send_interleaved: the opposing stream is ahead of the packet that is sent.
LEMMA SendInOrder ==
  ASSUME beginning \in Beginnings, NEW n \in Counts, NEW v \in Int,
         NEW a \in [Tracks -> Int],
         NEW buf \in Seq(Packets), Sorted(buf), buf # <<>>, Moved(buf, n, v, a),
         NEW audio_ts \in Int, NEW video_ts \in Int,
         Level(buf, n, v, a, audio_ts, video_ts),
         out \in Packets \cup {NoPacket}, Past(out, buf, n, v, a),
         Send(buf, audio_ts, video_ts)
  PROVE  /\ InOrder
         /\ Level(interleaved_packets', n, v, a, audio_ts, video_ts)
         /\ Past(out', interleaved_packets', n, v, a)
  <1>1. PICK h : h = Head(buf)
      OBVIOUS
  <1>2. /\ h \in InBuf(buf) /\ h \in Packets /\ h.source \in Sources
        /\ h.dts_usec \in Int
        /\ \A q \in InBuf(buf) : h.dts_usec =< q.dts_usec
        /\ InBuf(Tail(buf)) \subseteq InBuf(buf)
      BY <1>1, HeadIsLeast, HeadTailIs, InBufTyped
  <1>3. \A s \in Sources : Limit(n, v, a, s) \in Int
      BY LimitsAreNumbers
  <1>4. Video \in Sources /\ \A s \in Sources : s = Video \/ s \in Tracks
      BY InterleaveConstants
  <1>5. CASE (IF h.source = Video THEN audio_ts ELSE video_ts) > h.dts_usec
    <2>1. interleaved_packets' = Tail(buf) /\ out' = h
        BY <1>1, <1>5, Zenon DEF Send
    <2>2. InOrder
        BY <1>2, <2>1 DEF InOrder, Past
    <2>3. Level(Tail(buf), n, v, a, audio_ts, video_ts)
        BY <1>2 DEF Level
    <2>4. ASSUME NEW s \in Sources PROVE h.dts_usec =< Limit(n, v, a, s)
      <3>1. PICK l \in Int : l = Limit(n, v, a, s)
          BY <1>3
      <3>2. CASE h.source = Video /\ s = Video
        <4>1. h.dts_usec < Limit(n, v, a, s)
            BY <1>2, <3>2 DEF Moved
        <4>2. QED
            BY <1>2, <3>1, <4>1
      <3>3. CASE h.source = Video /\ s # Video
        <4>1. audio_ts =< l
            BY <1>4, <3>1, <3>3 DEF Level
        <4>2. QED
            BY <1>2, <1>5, <3>1, <3>3, <4>1
      <3>4. CASE h.source # Video /\ s = Video
        <4>1. video_ts =< l
            BY <3>1, <3>4 DEF Level
        <4>2. QED
            BY <1>2, <1>5, <3>1, <3>4, <4>1
      <3>5. CASE h.source # Video /\ s # Video
          BY <1>2, <1>4, <3>5 DEF Level
      <3>6. QED
          BY <3>2, <3>3, <3>4, <3>5
    <2>5. Past(h, Tail(buf), n, v, a)
        BY <1>2, <2>4 DEF Past
    <2>6. QED
        BY <2>1, <2>2, <2>3, <2>5
  <1>6. CASE ~((IF h.source = Video THEN audio_ts ELSE video_ts) > h.dts_usec)
    <2>1. interleaved_packets' = buf /\ out' = out
        BY <1>1, <1>6, Zenon DEF Send
    <2>2. InOrder
      <3>1. out # NoPacket => out.dts_usec \in Int
          BY DEF Packets
      <3>2. QED
          BY <2>1, <3>1 DEF InOrder
    <2>3. QED
        BY <2>1, <2>2
  <1>7. QED
      BY <1>5, <1>6

\* The first packet of each stream becomes its time zero, ...
Begins(buf, v, a, gap) ==
    /\ v = FirstPacket(buf, Video).pts
    /\ a = [t \in Tracks |-> FirstPacket(buf, t).dts]
    /\ gap = [t \in Tracks |-> FirstPacket(buf, t).dts_usec
                                   - FirstPacket(buf, Video).dts_usec]

\* ... the packets move with it, ...
MovedFrom(r, buf, v, a) ==
    \A q \in InBuf(r) : \E p \in InBuf(buf) : q = Shift(p, v, a)

\* ... and so do the highest time stamps.
Rebased(buf, audio_ts, video_ts, ats, vts) ==
    /\ ats = audio_ts - FirstPacket(buf, 1).dts_usec
    /\ vts = video_ts - FirstPacket(buf, Video).dts_usec

\* initialize_interleaved_packets: the streams begin in stride.
LEMMA StartInStride ==
  ASSUME beginning \in Beginnings, NEW n \in Counts, InStep(n),
         NEW buf \in Seq(Packets), Sorted(buf), Untouched(buf, n),
         Complete(buf), Whole(buf), NEW v, NEW a, NEW gap, Begins(buf, v, a, gap),
         NEW audio_ts \in Int, NEW video_ts \in Int,
         HighestSoFar(n, audio_ts, video_ts),
         NEW r, MovedFrom(r, buf, v, a),
         NEW ats, NEW vts, Rebased(buf, audio_ts, video_ts, ats, vts)
  PROVE  /\ BegunAt(a, gap)
         /\ beginning.reorder = 0 /\ Close(gap) =>
                Level(r, n, v, a, ats, vts)
  <1>1. \A s \in Sources : /\ FirstPacket(buf, s).source = s
                           /\ FirstPacket(buf, s) \in InBuf(buf)
    <2>1. \A s \in Sources : /\ FirstPacket(buf, s).source = s
                             /\ FirstIn(buf, FirstPacket(buf, s))
        BY FirstIsFirst DEF Complete, FirstPacket
    <2>2. QED
        BY <2>1 DEF FirstIn
  <1>2. /\ InBuf(buf) \subseteq Packets
        /\ \A p \in InBuf(buf) : /\ p.source \in Sources /\ p.dts_usec \in Int
                                 /\ p.pts \in Nat /\ p.dts \in Int
                                 /\ Unmoved(p, n)
      BY InBufTyped DEF Untouched, Unmoved
  <1>3. /\ Video \in Sources /\ 1 \in Tracks /\ Tracks \subseteq Sources
        /\ \A t \in Tracks : t # Video
        /\ AudioDuration \in Nat \ {0}
      BY InterleaveConstants
  <1>4. ASSUME NEW t \in Tracks
        PROVE  /\ a[t] = FirstPacket(buf, t).pts /\ a[t] \in Nat
               /\ a[t] + AudioDuration =< Made(n, t)
               /\ FirstPacket(buf, t).dts_usec = Clock(t) + a[t]
               /\ Clock(t) \in Nat /\ Made(n, t) \in Nat
               /\ \E k \in Nat : a[t] = k * AudioDuration
    <2>1. PICK p \in InBuf(buf) : p = FirstPacket(buf, t)
        BY <1>1, <1>3
    <2>2. p.source = t /\ t \in Sources /\ t # Video
        BY <1>1, <1>3, <2>1
    <2>3. Clock(t) \in Nat /\ Made(n, t) \in Nat
        BY <2>2, SourceNumbers
    <2>4. /\ p.pts \in Nat /\ p.pts + AudioDuration =< Made(n, t)
          /\ p.dts_usec = Clock(t) + p.pts /\ p.dts = p.pts - 0
        BY <1>2, <2>2 DEF Unmoved, Period, Lag
    <2>5. a[t] = p.dts
        BY <2>1 DEF Begins
    <2>6. \E k \in Nat : p.pts = k * AudioDuration
        BY <2>2 DEF Whole
    <2>7. a[t] = p.pts
        BY <2>4, <2>5
    <2>8. QED
        BY <2>1, <2>3, <2>4, <2>6, <2>7
  <1>5. a \in [Tracks -> Int]
    <2>1. \A t \in Tracks : a[t] \in Int
        BY <1>4
    <2>2. QED
        BY <2>1 DEF Begins
  <1>6. PICK z \in InBuf(buf) : z = FirstPacket(buf, Video)
      BY <1>1, <1>3
  <1>7. /\ z.source = Video /\ z.dts_usec \in Int /\ v = z.pts /\ z.pts \in Nat
        /\ z.dts_usec = Clock(Video) + v
        /\ Clock(Video) \in Nat /\ Made(n, Video) \in Nat
    <2>1. z.source = Video /\ v = z.pts
        BY <1>1, <1>3, <1>6 DEF Begins
    <2>2. z.dts_usec = Clock(Video) + v
        BY <1>2, <2>1 DEF Unmoved
    <2>3. QED
        BY <1>2, <1>3, <2>1, <2>2, SourceNumbers
  <1>8. \A t \in Tracks : gap[t] = (Clock(t) + a[t]) - z.dts_usec
      BY <1>4, <1>6 DEF Begins
  <1>9. gap \in [Tracks -> Int]
    <2>1. ASSUME NEW t \in Tracks
          PROVE  FirstPacket(buf, t).dts_usec - z.dts_usec \in Int
      <3>1. PICK x \in Int : x = FirstPacket(buf, t).dts_usec
          BY <1>1, <1>2, <1>3
      <3>2. QED
          BY <1>7, <3>1
    <2>2. QED
        BY <1>6, <2>1 DEF Begins
  <1>10. BegunAt(a, gap)
    <2>1. ASSUME NEW t \in Tracks, NEW u \in Tracks
          PROVE  gap[t] - gap[u] = (Clock(t) + a[t]) - (Clock(u) + a[u])
      <3>1. PICK x \in Int : x = Clock(t) + a[t]
          BY <1>4
      <3>2. PICK y \in Int : y = Clock(u) + a[u]
          BY <1>4
      <3>3. PICK w \in Int : w = z.dts_usec
          BY <1>7
      <3>4. gap[t] = x - w /\ gap[u] = y - w
          BY <1>8, <3>1, <3>2, <3>3
      <3>5. gap[t] - gap[u] = x - y
          BY <3>4
      <3>6. QED
          BY <3>1, <3>2, <3>5
    <2>2. QED
        BY <1>4, <2>1 DEF BegunAt
  <1>11. ASSUME beginning.reorder = 0, Close(gap)
         PROVE  Level(r, n, v, a, ats, vts)
    <2>1. vts =< Limit(n, v, a, Video)
      <3>1. Limit(n, v, a, Video) = Made(n, Video) - v
        <4>1. Lag(Video) = 0
            BY <1>11, InterleaveConstants DEF Lag
        <4>2. QED
            BY <1>7, <4>1 DEF Limit
      <3>2. video_ts =< Clock(Video) + Made(n, Video)
          BY DEF HighestSoFar
      <3>3. QED
          BY <1>6, <1>7, <3>1, <3>2 DEF Rebased
    <2>2. ASSUME NEW u \in Tracks
          PROVE  ats =< Limit(n, v, a, u)
      <3>1. FirstPacket(buf, 1).dts_usec = Clock(1) + a[1]
          BY <1>3, <1>4
      <3>2. ASSUME NEW t \in Tracks PROVE a[t] =< Made(n, t)
        <4>1. PICK m \in Nat : m = Made(n, t)
            BY <1>4
        <4>2. a[t] \in Nat /\ a[t] + AudioDuration =< m
            BY <1>4, <4>1
        <4>3. QED
            BY <1>3, <4>1, <4>2
      <3>3. \/ audio_ts = 0
            \/ \E t \in Tracks :
                   n[t] > 0 /\ audio_ts + AudioDuration = Clock(t) + Made(n, t)
          BY DEF HighestSoFar
      <3>4. QED
          BY <1>5, <1>9, <1>10, <1>11, <3>1, <3>2, <3>3, HighestNotAfter
             DEF Rebased
    <2>3. ASSUME NEW u \in Tracks, NEW q \in InBuf(r), q.source # Video
          PROVE  q.dts_usec =< Limit(n, v, a, u)
      <3>1. PICK p \in InBuf(buf) : q = Shift(p, v, a)
          BY DEF MovedFrom
      <3>2. PICK t \in Tracks : /\ t = p.source
                                /\ q.dts_usec = p.dts - a[t]
        <4>1. p \in Packets /\ v \in Int
            BY <1>2, <1>7, <3>1
        <4>2. /\ q.source = p.source
              /\ q.dts_usec = p.dts - (IF p.source = Video THEN v
                                       ELSE a[p.source])
            BY <1>5, <3>1, <4>1, ShiftIs
        <4>3. QED
            BY <1>2, <2>3, <4>2, InterleaveConstants
      <3>3. /\ q.dts_usec = p.pts - a[t]
            /\ p.pts + AudioDuration =< Made(n, t) /\ p.pts \in Nat
        <4>1. /\ p.pts + AudioDuration =< Made(n, t)
              /\ p.dts = p.pts - 0
            BY <1>2, <1>3, <3>2 DEF Unmoved, Period, Lag
        <4>2. p.pts \in Nat
            BY <1>2
        <4>3. QED
            BY <3>2, <4>1, <4>2
      <3>4. /\ Limit(n, v, a, t) = Made(n, t) - a[t] /\ n[t] > 0
            /\ Limit(n, v, a, u) \in Int
        <4>1. /\ Made(n, t) = n[t] * AudioDuration /\ n[t] \in Nat
              /\ Limit(n, v, a, t) = Made(n, t) - a[t]
            BY <1>5, <3>2, LimitIs
        <4>2. n[t] # 0
          <5>1. 0 * AudioDuration = 0
              BY <1>3
          <5>2. Made(n, t) # 0
              BY <1>3, <3>3
          <5>3. QED
              BY <4>1, <5>1, <5>2
        <4>3. Limit(n, v, a, u) \in Int
          <5>1. Limit(n, v, a, u) = Made(n, u) - a[u]
              BY <1>5, LimitIs
          <5>2. QED
              BY <1>4, <5>1
        <4>4. QED
            BY <4>1, <4>2, <4>3
      <3>5. Limit(n, v, a, t) =< Limit(n, v, a, u) + AudioDuration
        <4>1. gap[u] - gap[t] < AudioDuration
            BY <1>11, <3>2 DEF Close
        <4>2. QED
            BY <1>5, <1>9, <1>10, <3>2, <3>4, <4>1, LastNotAfter
      <3>6. a[t] \in Nat /\ Made(n, t) \in Nat
          BY <1>4, <3>2
      <3>7. QED
          BY <1>3, <3>3, <3>4, <3>5, <3>6
    <2>4. QED
        BY <2>1, <2>2, <2>3 DEF Level
  <1>12. QED
      BY <1>10, <1>11

\* What a step leaves when the encoders have made n packets by then.
Orders(n) ==
    IF received_audio' /\ received_video'
    THEN InStride(interleaved_packets', n, video_offset', audio_offsets',
                  start_gap', highest_audio_ts', highest_video_ts', out')
    ELSE /\ Whole(interleaved_packets')
         /\ HighestSoFar(n, highest_audio_ts', highest_video_ts')

\* And what it sends.
SendsNext == beginning.reorder = 0 /\ Close(start_gap') => InOrder

\* The capture goes on waiting.
LEMMA HoldOrders ==
  ASSUME NEW n, NEW buf, NEW audio_ts, NEW video_ts,
         Whole(buf), HighestSoFar(n, audio_ts, video_ts),
         Hold(buf, audio_ts, video_ts), NEW audio, NEW video,
         SetReceived(audio, video), ~(audio /\ video)
  PROVE  Orders(n)
  <1>1. /\ interleaved_packets' = buf
        /\ received_audio' = audio /\ received_video' = video
        /\ highest_audio_ts' = audio_ts /\ highest_video_ts' = video_ts
      BY DEF Hold, SetReceived, SetHighest
  <1>2. ~(received_audio' /\ received_video')
      BY <1>1
  <1>3. QED
      BY <1>1, <1>2, Zenon DEF Orders

\* A source is missing.
LEMMA WaitOrders ==
  ASSUME NEW n, NEW buf, NEW audio_ts, NEW video_ts,
         Whole(buf), HighestSoFar(n, audio_ts, video_ts),
         Hold(buf, audio_ts, video_ts), Missing(buf) # {},
         SetReceived(Missing(buf) \cap Tracks = {}, Video \notin Missing(buf))
  PROVE  Orders(n)
  <1>1. ~((Missing(buf) \cap Tracks = {}) /\ (Video \notin Missing(buf)))
      BY InterleaveConstants DEF Missing
  <1>2. QED
      BY <1>1, HoldOrders, Zenon

\* What is left of the buffer.
LEMMA DiscardWhole ==
  ASSUME NEW buf \in Seq(Packets), Sorted(buf), NEW k \in 0 .. Len(buf),
         Whole(buf)
  PROVE  Whole(Discard(buf, k))
  BY DiscardIs DEF Whole

\* initialize_interleaved_packets: the streams begin.
LEMMA StartOrders ==
  ASSUME InterleaveTypeOK, NothingSent, NEW n \in Counts, InStep(n),
         NEW buf \in Seq(Packets), Sorted(buf), Untouched(buf, n),
         Complete(buf), Whole(buf),
         NEW audio_ts \in Int, NEW video_ts \in Int,
         HighestSoFar(n, audio_ts, video_ts), Start(buf, audio_ts, video_ts)
  PROVE  Orders(n)
  <1> DEFINE first(s) == FirstPacket(buf, s)
  <1>1. PICK v : v = first(Video).pts
      OBVIOUS
  <1>2. PICK a : a = [t \in Tracks |-> first(t).dts]
      OBVIOUS
  <1>3. PICK gap : gap = [t \in Tracks |->
                             first(t).dts_usec - first(Video).dts_usec]
      OBVIOUS
  <1>4. PICK ats : ats = audio_ts - first(1).dts_usec
      OBVIOUS
  <1>5. PICK vts : vts = video_ts - first(Video).dts_usec
      OBVIOUS
  <1>6. PICK r : r = FoldLeft(Insert, <<>>,
                              [i \in DOMAIN buf |-> Shift(buf[i], v, a)])
      OBVIOUS
  <1>7. /\ SetReceived(TRUE, TRUE) /\ SetHighest(ats, vts)
        /\ video_offset' = v /\ audio_offsets' = a /\ start_gap' = gap
        /\ Send(r, ats, vts)
      BY <1>1, <1>2, <1>3, <1>4, <1>5, <1>6, Zenon DEF Start, FirstPacket
  <1>8. PICK sent : sent = first_out
      OBVIOUS
  <1>9. /\ beginning \in Beginnings /\ out = NoPacket
        /\ \A s \in Sources : sent[s] = NoPacket
      BY <1>8 DEF InterleaveTypeOK, NothingSent
  <1>10. /\ v \in Int /\ a \in [Tracks -> Int]
         /\ r \in Seq(Packets) /\ Sorted(r) /\ r # <<>>
         /\ InBuf(r) = {Shift(p, v, a) : p \in InBuf(buf)}
         /\ Moved(r, n, v, a)
    <2>1. /\ v \in Int /\ a \in [Tracks -> Int]
          /\ r \in Seq(Packets) /\ Sorted(r) /\ r # <<>>
          /\ Moved(r, n, v, a)
        BY <1>1, <1>2, <1>6, <1>9, StartIs
    <2>2. InBuf(r) = {Shift(p, v, a) : p \in InBuf(buf)}
        BY <1>1, <1>2, <1>6, <1>9, StartIs
    <2>3. QED
        BY <2>1, <2>2, Zenon
  <1>11. /\ BegunAt(a, gap)
         /\ beginning.reorder = 0 /\ Close(gap) => Level(r, n, v, a, ats, vts)
    <2>1. MovedFrom(r, buf, v, a)
        BY <1>10 DEF MovedFrom
    <2>2. Begins(buf, v, a, gap)
        BY <1>1, <1>2, <1>3, Zenon DEF Begins
    <2>3. Rebased(buf, audio_ts, video_ts, ats, vts)
        BY <1>4, <1>5, Zenon DEF Rebased
    <2>4. QED
        BY <1>9, <2>1, <2>2, <2>3, StartInStride
  <1>12. ats \in Int /\ vts \in Int
    <2>1. \A s \in Sources : first(s).dts_usec \in Int
      <3>1. \A s \in Sources : FirstIn(buf, first(s))
          BY FirstIsFirst DEF Complete, FirstPacket
      <3> HIDE DEF first
      <3>2. QED
          BY <3>1, InBufTyped DEF FirstIn
    <2> HIDE DEF first
    <2>2. QED
        BY <1>4, <1>5, <2>1, InterleaveConstants
  <1> HIDE DEF first
  <1>13. ASSUME beginning.reorder = 0, Close(gap)
         PROVE  /\ Level(interleaved_packets', n, v, a, ats, vts)
                /\ Past(out', interleaved_packets', n, v, a)
    <2>1. Level(r, n, v, a, ats, vts)
        BY <1>11, <1>13
    <2>2. Past(out, r, n, v, a) /\ out \in Packets \cup {NoPacket}
        BY <1>9 DEF Past
    <2>3. QED
        BY <1>7, <1>9, <1>10, <1>12, <2>1, <2>2, SendInOrder
  <1>14. InStride(interleaved_packets', n, v, a, gap, ats, vts, out')
      BY <1>11, <1>13, Zenon DEF InStride
  <1>15. received_audio' /\ received_video'
      BY <1>7 DEF SetReceived
  <1>16. QED
      BY <1>7, <1>14, <1>15, Zenon DEF Orders, SetHighest

\* initialize_interleaved_packets, on what the pruning left.
LEMMA InitializeOrders ==
  ASSUME InterleaveTypeOK, NothingSent, NEW n \in Counts, InStep(n),
         NEW buf \in Seq(Packets), Sorted(buf), Untouched(buf, n), Whole(buf),
         NEW audio_ts \in Int, NEW video_ts \in Int,
         HighestSoFar(n, audio_ts, video_ts),
         Initialize(buf, audio_ts, video_ts)
  PROVE  Orders(n)
  <1>1. beginning \in Beginnings
      BY DEF InterleaveTypeOK
  <1>2. PICK begun : begun = Discard(buf, BeforeStart(buf))
      OBVIOUS
  <1>3. CASE Missing(buf) # {}
    <2>1. /\ Hold(buf, audio_ts, video_ts)
          /\ SetReceived(Missing(buf) \cap Tracks = {}, Video \notin Missing(buf))
        BY <1>3, Zenon DEF Initialize
    <2>2. QED
        BY <1>3, <2>1, WaitOrders
  <1>4. CASE Missing(buf) = {}
    <2>1. BeforeStart(buf) \in 0 .. Len(buf)
        BY <1>4, NothingMissing, BeforeStartIs
    <2>2. /\ begun \in Seq(Packets) /\ Sorted(begun) /\ Untouched(begun, n)
          /\ Whole(begun)
        BY <1>1, <1>2, <2>1, DiscardIs, DiscardWaits, DiscardWhole
    <2>3. CASE ~AudioPastVideo(buf)
      <3>1. Hold(buf, audio_ts, video_ts) /\ SetReceived(FALSE, TRUE)
          BY <1>4, <2>3, Zenon DEF Initialize
      <3>2. QED
          BY <3>1, HoldOrders
    <2>4. CASE AudioPastVideo(buf) /\ Missing(begun) # {}
      <3>1. /\ Hold(begun, audio_ts, video_ts)
            /\ SetReceived(Missing(begun) \cap Tracks = {},
                           Video \notin Missing(begun))
          BY <1>2, <1>4, <2>4, Zenon DEF Initialize
      <3>2. QED
          BY <2>2, <2>4, <3>1, WaitOrders
    <2>5. CASE AudioPastVideo(buf) /\ Missing(begun) = {}
      <3>1. Start(begun, audio_ts, video_ts)
          BY <1>2, <1>4, <2>5, Zenon DEF Initialize
      <3>2. Complete(begun)
          BY <2>2, <2>5, NothingMissing
      <3>3. QED
          BY <2>2, <3>1, <3>2, StartOrders
    <2>6. QED
        BY <2>3, <2>4, <2>5
  <1>5. QED
      BY <1>3, <1>4

\* interleave_packets, when both kinds of packets were received.
LEMMA TryStartOrders ==
  ASSUME InterleaveTypeOK, NothingSent, NEW n \in Counts, InStep(n),
         NEW buf \in Seq(Packets), Sorted(buf), Untouched(buf, n), Whole(buf),
         NEW audio_ts \in Int, NEW video_ts \in Int,
         HighestSoFar(n, audio_ts, video_ts),
         TryStart(buf, audio_ts, video_ts)
  PROVE  Orders(n)
  <1>1. beginning \in Beginnings
      BY DEF InterleaveTypeOK
  <1>2. CASE Missing(buf) # {}
    <2>1. /\ Hold(buf, audio_ts, video_ts)
          /\ SetReceived(Video \in Missing(buf), Video \notin Missing(buf))
        BY <1>2, Zenon DEF TryStart
    <2>2. PICK audio \in BOOLEAN : audio = (Video \in Missing(buf))
      <3>1. (Video \in Missing(buf)) \in BOOLEAN
          OBVIOUS
      <3>2. QED
          BY <3>1, Zenon
    <2>3. PICK video \in BOOLEAN : video = (Video \notin Missing(buf))
        OBVIOUS
    <2>4. SetReceived(audio, video) /\ ~(audio /\ video)
        BY <2>1, <2>2, <2>3
    <2>5. QED
        BY <2>1, <2>4, HoldOrders
  <1>3. CASE Missing(buf) = {}
    <2>1. PICK k : k = IF Premature(buf) # 0 THEN Premature(buf)
                       ELSE BeforeStart(buf)
        OBVIOUS
    <2>2. PICK b : b = Discard(buf, k)
        OBVIOUS
    <2>3. Initialize(b, audio_ts, video_ts)
        BY <1>3, <2>1, <2>2, Zenon DEF TryStart, Pruned
    <2>4. Complete(buf)
        BY <1>3, NothingMissing
    <2>5. k \in 0 .. Len(buf)
        BY <2>1, <2>4, PrematureIs, BeforeStartIs
    <2>6. b \in Seq(Packets) /\ Sorted(b) /\ Untouched(b, n) /\ Whole(b)
        BY <1>1, <2>2, <2>5, DiscardIs, DiscardWaits, DiscardWhole
    <2>7. QED
        BY <2>3, <2>6, InitializeOrders
  <1>4. QED
      BY <1>2, <1>3

\* The packet a track makes next belongs to the whole packets of the buffer.
LEMMA AddsWhole ==
  ASSUME beginning \in Beginnings, NEW n \in Counts, NEW p \in Packets,
         NextOf(p, n), NEW old \in Seq(Packets), Whole(old),
         NEW buf, Adds(buf, old, p)
  PROVE  Whole(buf)
  <1>1. p.source # Video => \E k \in Nat : p.pts = k * AudioDuration
    <2>1. ASSUME p.source # Video
          PROVE  p.pts = n[p.source] * AudioDuration /\ n[p.source] \in Nat
      <3>1. p.source \in Sources
          BY DEF Packets
      <3>2. QED
          BY <2>1, <3>1 DEF NextOf, Made, Period, Counts
    <2>2. QED
        BY <2>1
  <1>2. QED
      BY <1>1 DEF Adds, Whole

\* The highest time stamps after a packet.
Highest(p, old_audio, old_video, audio_ts, video_ts) ==
    /\ audio_ts = IF p.source = Video THEN old_audio
                  ELSE Max({old_audio, p.dts_usec})
    /\ video_ts = IF p.source = Video THEN Max({old_video, p.dts_usec})
                  ELSE old_video

\* They go on before the start.
LEMMA HighestGoesOn ==
  ASSUME beginning \in Beginnings, NEW c \in Counts, NEW n \in Counts,
         InStep(c), NEW p \in Packets, NextOf(p, c), OneMore(c, n, p.source),
         NEW old_audio \in Int, NEW old_video \in Int,
         HighestSoFar(c, old_audio, old_video),
         NEW audio_ts, NEW video_ts,
         Highest(p, old_audio, old_video, audio_ts, video_ts)
  PROVE  HighestSoFar(n, audio_ts, video_ts)
  <1>1. /\ p.source \in Sources /\ p.dts_usec \in Int /\ p.pts \in Int
        /\ p.dts_usec = Clock(p.source) + Made(c, p.source)
      BY DEF Packets, NextOf
  <1>2. /\ Made(n, p.source) = Made(c, p.source) + Period(p.source)
        /\ n[p.source] > 0
        /\ \A u \in Sources : u # p.source => Made(n, u) = Made(c, u)
                                              /\ n[u] = c[u]
      BY <1>1, MadeOneMore
  <1>3. \A u \in Sources : /\ Clock(u) \in Nat /\ Made(c, u) \in Nat
                           /\ Made(n, u) \in Nat /\ Period(u) \in Nat \ {0}
      BY SourceNumbers
  <1>4. /\ Tracks \subseteq Sources /\ Video \in Sources
        /\ \A t \in Tracks : t # Video /\ Period(t) = AudioDuration
        /\ \A s \in Sources : s # Video => s \in Tracks
      BY InterleaveConstants DEF Period
  <1>5. CASE p.source = Video
    <2>1. audio_ts = old_audio /\ video_ts = Max({old_video, p.dts_usec})
        BY <1>5 DEF Highest
    <2>2. \/ audio_ts = 0
          \/ \E t \in Tracks :
                 n[t] > 0 /\ audio_ts + AudioDuration = Clock(t) + Made(n, t)
      <3>1. \A t \in Tracks : n[t] = c[t] /\ Made(n, t) = Made(c, t)
          BY <1>2, <1>4, <1>5
      <3>2. QED
          BY <2>1, <3>1 DEF HighestSoFar
    <2>3. video_ts =< Clock(Video) + Made(n, Video)
      <3>1. PICK l \in Nat : l = Clock(Video) + Made(c, Video)
          BY <1>3, <1>4
      <3>2. PICK h \in Nat : h = Clock(Video) + Made(n, Video)
          BY <1>3, <1>4
      <3>3. PICK f \in Nat : f = Period(Video)
          BY <1>3, <1>4
      <3>4. h = l + f
          BY <1>2, <1>3, <1>4, <1>5, <3>1, <3>2, <3>3
      <3>5. old_video =< l /\ p.dts_usec = l
          BY <1>1, <1>5, <3>1 DEF HighestSoFar
      <3>6. video_ts \in {old_video, p.dts_usec}
          BY <1>1, <2>1, MaxOfTwo
      <3>7. QED
          BY <3>1, <3>2, <3>3, <3>4, <3>5, <3>6
    <2>4. QED
        BY <2>2, <2>3 DEF HighestSoFar
  <1>6. CASE p.source # Video
    <2>1. audio_ts = Max({old_audio, p.dts_usec}) /\ video_ts = old_video
        BY <1>6 DEF Highest
    <2>2. PICK s \in Tracks : s = p.source
        BY <1>1, <1>4, <1>6
    <2>3. PICK x \in Nat : x = p.dts_usec /\ x = Clock(s) + Made(c, s)
        BY <1>1, <1>3, <2>2
    <2>4. old_audio =< x
      <3>1. ASSUME NEW t \in Tracks, c[t] > 0,
                   old_audio + AudioDuration = Clock(t) + Made(c, t)
            PROVE  old_audio =< x
        <4>1. Clock(t) + Made(c, t) =< Clock(s) + Made(c, s) + AudioDuration
            BY <2>2, <3>1 DEF InStep
        <4>2. old_audio + AudioDuration =< x + AudioDuration
            BY <2>3, <3>1, <4>1
        <4>3. QED
            BY <2>3, <4>2, InterleaveConstants
      <3>2. QED
          BY <2>3, <3>1 DEF HighestSoFar
    <2>5. audio_ts = x
      <3>1. PICK y \in Int : /\ y = audio_ts /\ y \in {old_audio, x}
                             /\ old_audio =< y /\ x =< y
        <4>1. x \in Int
            BY <2>3
        <4>2. PICK y : y = Max({old_audio, x})
            OBVIOUS
        <4>3. y \in Int /\ y \in {old_audio, x} /\ old_audio =< y /\ x =< y
            BY <4>1, <4>2, MaxOfTwo, Zenon
        <4>4. y = audio_ts
            BY <2>1, <2>3, <4>2
        <4>5. QED
            BY <4>3, <4>4
      <3>2. CASE y = x
          BY <3>1, <3>2
      <3>3. CASE y = old_audio
        <4>1. x =< old_audio /\ old_audio =< x
            BY <2>4, <3>1, <3>3
        <4>2. old_audio = x
            BY <2>3, <4>1
        <4>3. QED
            BY <3>1, <3>3, <4>2
      <3>4. QED
          BY <3>1, <3>2, <3>3
    <2>6. n[s] > 0 /\ audio_ts + AudioDuration = Clock(s) + Made(n, s)
      <3>1. Made(n, s) = Made(c, s) + AudioDuration /\ n[s] > 0
          BY <1>2, <1>4, <2>2
      <3>2. Clock(s) \in Nat /\ Made(c, s) \in Nat /\ AudioDuration \in Nat
          BY <1>3, <1>4, <2>2, InterleaveConstants
      <3>3. QED
          BY <2>3, <2>5, <3>1, <3>2
    <2>7. video_ts =< Clock(Video) + Made(n, Video)
      <3>1. Made(n, Video) = Made(c, Video)
          BY <1>2, <1>4, <1>6
      <3>2. QED
          BY <2>1, <3>1 DEF HighestSoFar
    <2>8. QED
        BY <2>2, <2>6, <2>7 DEF HighestSoFar
  <1>7. QED
      BY <1>5, <1>6

\* A packet that comes after the start: it is not due before any audio, and not
\* before the packet that was sent.
LEMMA StaysLevel ==
  ASSUME beginning \in Beginnings, NEW c \in Counts, NEW n \in Counts,
         NEW p \in Packets, NextOf(p, c), OneMore(c, n, p.source),
         p.source # Video => IsNext(p, c),
         NEW v \in Int, NEW a \in [Tracks -> Int],
         NEW gap \in [Tracks -> Int], BegunAt(a, gap), Close(gap),
         NEW old \in Seq(Packets), Sorted(old), Moved(old, c, v, a),
         NEW packet, packet = Shift(p, v, a), NEW buf, buf = Insert(old, packet),
         NEW old_audio \in Int, NEW old_video \in Int,
         Level(old, c, v, a, old_audio, old_video),
         NEW audio_ts, NEW video_ts,
         Highest(packet, old_audio, old_video, audio_ts, video_ts),
         NEW sent \in Packets \cup {NoPacket}, Past(sent, old, c, v, a)
  PROVE  /\ Level(buf, n, v, a, audio_ts, video_ts)
         /\ Past(sent, buf, n, v, a)
  <1>1. /\ packet.dts_usec = Limit(c, v, a, p.source)
        /\ \A u \in Sources : /\ Limit(c, v, a, u) \in Int
                              /\ Limit(n, v, a, u) \in Int
                              /\ Limit(c, v, a, u) =< Limit(n, v, a, u)
        /\ Adds(buf, old, packet)
      BY MovedComesLast
  <1>2. /\ p.source \in Sources /\ packet.source = p.source
        /\ packet \in Packets /\ Video \in Sources /\ Tracks \subseteq Sources
        /\ \A s \in Sources : s # Video => s \in Tracks
      BY ShiftIs, InterleaveConstants DEF Packets
  <1>3. PICK x \in Int : x = packet.dts_usec
      BY <1>2 DEF Packets
  <1>4. /\ InBuf(buf) = InBuf(old) \cup {packet}
        /\ \A q \in InBuf(old) : q.dts_usec \in Int
      BY <1>1, InBufTyped DEF Adds
  <1>5. ASSUME NEW y \in Int, NEW u \in Sources, y =< Limit(c, v, a, u)
        PROVE  y =< Limit(n, v, a, u)
    <2>1. PICK l \in Int : l = Limit(c, v, a, u)
        BY <1>1
    <2>2. PICK m \in Int : m = Limit(n, v, a, u) /\ l =< m
        BY <1>1, <2>1
    <2>3. QED
        BY <1>5, <2>1, <2>2
  <1>6. /\ old_video =< Limit(c, v, a, Video)
        /\ \A u \in Tracks : old_audio =< Limit(c, v, a, u)
      BY DEF Level
  <1>7. ASSUME p.source # Video, NEW u \in Tracks
        PROVE  x =< Limit(c, v, a, u)
    <2>1. PICK t \in Tracks : t = p.source
        BY <1>2, <1>7
    <2>2. PICK d \in Nat \ {0} : d = AudioDuration
        BY InterleaveConstants
    <2>3. PICK k \in Nat : a[t] = k * d
        BY <2>1, <2>2 DEF BegunAt
    <2>4. /\ Clock(t) \in Nat /\ c[t] \in Nat /\ Made(c, t) = c[t] * d
          /\ Limit(c, v, a, t) = Made(c, t) - a[t] /\ Made(c, t) \in Nat
      <3>1. /\ Clock(t) \in Nat /\ c[t] \in Nat
            /\ Made(c, t) = c[t] * AudioDuration
            /\ Limit(c, v, a, t) = Made(c, t) - a[t] /\ Made(c, t) \in Nat
          BY LimitIs
      <3>2. QED
          BY <2>2, <3>1
    <2>5. PICK m \in Nat : m = c[t]
        BY <2>4
    <2>6. PICK z \in Int : z = m - k
        OBVIOUS
    <2>7. z * d = m * d - k * d
        BY <2>6
    <2>8. m * d \in Int /\ k * d \in Int /\ z * d \in Int
        OBVIOUS
    <2>9. x = z * d
      <3>1. x = Made(c, t) - a[t]
          BY <1>1, <1>3, <2>1, <2>4
      <3>2. Made(c, t) = m * d
          BY <2>4, <2>5
      <3>3. QED
          BY <2>3, <2>7, <3>1, <3>2
    <2>10. Clock(t) + a[t] + z * AudioDuration =< Clock(u) + Made(c, u)
      <3>1. Clock(t) + Made(c, t) =< Clock(u) + Made(c, u)
          BY <1>7, <2>1 DEF IsNext
      <3>2. PICK e \in Int : e = k * d
          BY <2>8
      <3>3. PICK f \in Int : f = m * d
          BY <2>8
      <3>4. Made(c, t) = f /\ a[t] = e /\ z * d = f - e
          BY <2>3, <2>4, <2>5, <2>7, <3>2, <3>3
      <3>5. Clock(t) + a[t] + z * d = Clock(t) + Made(c, t)
        <4>1. PICK g \in Int : g = z * d
            BY <2>8
        <4>2. PICK b \in Nat : b = Clock(t)
            BY <2>4
        <4>3. g = f - e
            BY <3>4, <4>1
        <4>4. b + e + g = b + f
            BY <4>3
        <4>5. QED
            BY <3>4, <4>1, <4>2, <4>4, Zenon
      <3>6. QED
          BY <2>2, <3>1, <3>5
    <2>11. gap[u] - gap[t] < AudioDuration
        BY DEF Close
    <2>12. z * AudioDuration =< Limit(c, v, a, u)
        BY <2>10, <2>11, NotAfter
    <2>13. QED
        BY <2>2, <2>9, <2>12
  <1>8. Level(buf, n, v, a, audio_ts, video_ts)
    <2>1. video_ts \in Int /\ video_ts =< Limit(c, v, a, Video)
      <3>1. CASE p.source = Video
        <4>1. video_ts = Max({old_video, x})
            BY <1>2, <1>3, <3>1 DEF Highest
        <4>2. video_ts \in {old_video, x}
            BY <1>3, <4>1, MaxOfTwo
        <4>3. x = Limit(c, v, a, Video)
            BY <1>1, <1>3, <3>1
        <4>4. CASE video_ts = x
            BY <1>3, <4>3, <4>4
        <4>5. CASE video_ts = old_video
            BY <1>6, <4>5
        <4>6. QED
            BY <4>2, <4>4, <4>5
      <3>2. CASE p.source # Video
          BY <1>2, <1>6, <3>2 DEF Highest
      <3>3. QED
          BY <3>1, <3>2
    <2>2. /\ audio_ts \in Int
          /\ \A u \in Tracks : audio_ts =< Limit(c, v, a, u)
      <3>1. CASE p.source = Video
          BY <1>2, <1>6, <3>1 DEF Highest
      <3>2. CASE p.source # Video
        <4>1. audio_ts = Max({old_audio, x})
            BY <1>2, <1>3, <3>2 DEF Highest
        <4>2. audio_ts \in {old_audio, x}
            BY <1>3, <4>1, MaxOfTwo
        <4>3. \A u \in Tracks : x =< Limit(c, v, a, u)
            BY <1>7, <3>2
        <4>4. CASE audio_ts = x
            BY <1>3, <4>3, <4>4
        <4>5. CASE audio_ts = old_audio
            BY <1>6, <4>5
        <4>6. QED
            BY <4>2, <4>4, <4>5
      <3>3. QED
          BY <3>1, <3>2
    <2>3. ASSUME NEW u \in Tracks, NEW q \in InBuf(buf), q.source # Video
          PROVE  q.dts_usec =< Limit(n, v, a, u)
      <3>1. u \in Sources
          BY <1>2
      <3>2. CASE q = packet
        <4>1. x =< Limit(c, v, a, u)
            BY <1>2, <1>7, <2>3, <3>2
        <4>2. x =< Limit(n, v, a, u)
            BY <1>3, <1>5, <3>1, <4>1
        <4>3. QED
            BY <1>3, <3>2, <4>2
      <3>3. CASE q \in InBuf(old)
        <4>1. q.dts_usec \in Int /\ q.dts_usec =< Limit(c, v, a, u)
            BY <1>4, <2>3, <3>3 DEF Level
        <4>2. QED
            BY <1>5, <3>1, <4>1
      <3>4. QED
          BY <1>4, <3>2, <3>3
    <2>4. video_ts =< Limit(n, v, a, Video)
        BY <1>2, <1>5, <2>1
    <2>5. \A u \in Tracks : audio_ts =< Limit(n, v, a, u)
        BY <1>2, <1>5, <2>2
    <2>6. QED
        BY <2>3, <2>4, <2>5 DEF Level
  <1>9. Past(sent, buf, n, v, a)
    <2>1. SUFFICES ASSUME sent # NoPacket
                   PROVE  /\ \A q \in InBuf(buf) : sent.dts_usec =< q.dts_usec
                          /\ \A s \in Sources :
                                 sent.dts_usec =< Limit(n, v, a, s)
        BY DEF Past
    <2>2. /\ \A q \in InBuf(old) : sent.dts_usec =< q.dts_usec
          /\ \A s \in Sources : sent.dts_usec =< Limit(c, v, a, s)
        BY <2>1 DEF Past
    <2>3. sent.dts_usec \in Int
        BY <2>1 DEF Packets
    <2>4. \A s \in Sources : sent.dts_usec =< Limit(n, v, a, s)
        BY <1>5, <2>2, <2>3
    <2>5. sent.dts_usec =< packet.dts_usec
        BY <1>1, <1>2, <2>2
    <2>6. QED
        BY <1>4, <2>2, <2>4, <2>5
  <1>10. QED
      BY <1>8, <1>9

\* interleave_packets, from the keyframe check on, in every state of a capture.
LEMMA ReceiveOrders ==
  ASSUME InterleaveInv, OrderInv, NEW n \in Counts, InStep(n), NEW p \in Packets,
         NextOf(p, count), OneMore(count, n, p.source),
         p.source # Video => IsNext(p, count), Receive(p)
  PROVE  Orders(n) /\ SendsNext
  <1>1. /\ InterleaveTypeOK /\ count \in Counts /\ beginning \in Beginnings
        /\ p.source \in Sources
      BY DEF InterleaveInv, InterleaveTypeOK, Counts, Packets
  <1>2. PICK c \in Counts : c = count
      BY <1>1
  <1>3. /\ NextOf(p, c) /\ OneMore(c, n, p.source) /\ InStep(c)
        /\ p.source # Video => IsNext(p, c)
      BY <1>2 DEF InterleaveInv
  <1>4. PICK old : old = interleaved_packets
      OBVIOUS
  <1>5. old \in Seq(Packets) /\ Sorted(old)
    <2>1. Sorted(interleaved_packets)
        BY Zenon DEF InterleaveInv
    <2>2. QED
        BY <1>1, <1>4, <2>1 DEF InterleaveTypeOK
  <1>6. PICK packet : packet = IF Started
                               THEN Shift(p, video_offset, audio_offsets) ELSE p
      OBVIOUS
  <1>7. PICK buf : buf = Insert(old, packet)
      OBVIOUS
  <1>8. PICK old_audio \in Int : old_audio = highest_audio_ts
      BY <1>1 DEF InterleaveTypeOK
  <1>9. PICK old_video \in Int : old_video = highest_video_ts
      BY <1>1 DEF InterleaveTypeOK
  <1> DEFINE isVideo == p.source = Video
  <1>10. PICK audio_ts : audio_ts = IF isVideo THEN old_audio
                                    ELSE Max({old_audio, packet.dts_usec})
      OBVIOUS
  <1>11. PICK video_ts : video_ts = IF isVideo
                                    THEN Max({old_video, packet.dts_usec})
                                    ELSE old_video
      OBVIOUS
  <1>12. \/ /\ Started
            /\ Send(buf, audio_ts, video_ts)
            /\ SetHighest(audio_ts, video_ts)
            /\ UNCHANGED <<received_audio, received_video, video_offset,
                           audio_offsets, start_gap>>
         \/ /\ ~Started /\ (received_audio \/ ~isVideo)
            /\ received_video \/ isVideo
            /\ TryStart(buf, audio_ts, video_ts)
         \/ /\ ~((received_audio \/ ~isVideo) /\ (received_video \/ isVideo))
            /\ Hold(buf, audio_ts, video_ts)
            /\ SetReceived(received_audio \/ ~isVideo, received_video \/ isVideo)
      BY <1>4, <1>6, <1>7, <1>8, <1>9, <1>10, <1>11, Zenon DEF Receive, Started
  <1>13. packet \in Packets /\ packet.source = p.source /\ packet.dts_usec \in Int
      BY <1>1, <1>6, ShiftIs DEF InterleaveTypeOK, Packets
  <1>14. audio_ts \in Int /\ video_ts \in Int
    <2>1. /\ Max({old_audio, packet.dts_usec}) \in Int
          /\ Max({old_video, packet.dts_usec}) \in Int
        BY <1>13, MaxOfTwo
    <2>2. QED
        BY <1>10, <1>11, <2>1
  <1>15. Highest(packet, old_audio, old_video, audio_ts, video_ts)
      BY <1>10, <1>11, <1>13 DEF Highest
  <1>16. CASE Started
    <2>1. /\ Send(buf, audio_ts, video_ts) /\ SetHighest(audio_ts, video_ts)
          /\ received_audio' /\ received_video'
          /\ video_offset' = video_offset /\ audio_offsets' = audio_offsets
          /\ start_gap' = start_gap
      <3>1. \/ /\ Send(buf, audio_ts, video_ts)
               /\ SetHighest(audio_ts, video_ts)
               /\ UNCHANGED <<received_audio, received_video, video_offset,
                              audio_offsets, start_gap>>
            \/ ~((received_audio \/ ~isVideo) /\ (received_video \/ isVideo))
          BY <1>12, <1>16, Zenon
      <3>2. received_audio /\ received_video
          BY <1>16 DEF Started
      <3>3. QED
          BY <3>1, <3>2
    <2>2. PICK v \in Int : v = video_offset
        BY <1>1 DEF InterleaveTypeOK
    <2>3. PICK a \in [Tracks -> Int] : a = audio_offsets
        BY <1>1 DEF InterleaveTypeOK
    <2>4. PICK gap \in [Tracks -> Int] : gap = start_gap
        BY <1>1 DEF InterleaveTypeOK
    <2>5. PICK sent \in Packets \cup {NoPacket} : sent = out
        BY <1>1 DEF InterleaveTypeOK
    <2>6. Moved(old, c, v, a)
        BY <1>2, <1>4, <1>16, <2>2, <2>3, Zenon DEF InterleaveInv
    <2>7. InStride(old, c, v, a, gap, old_audio, old_video, sent)
        BY <1>2, <1>4, <1>8, <1>9, <1>16, <2>2, <2>3, <2>4, <2>5, Zenon
           DEF OrderInv
    <2>8. packet = Shift(p, v, a)
        BY <1>6, <1>16, <2>2, <2>3
    <2>9. Adds(buf, old, packet) /\ Moved(buf, n, v, a)
        BY <1>1, <1>3, <1>5, <1>7, <2>6, <2>8, MovedComesLast
    <2>10. ASSUME beginning.reorder = 0, Close(gap)
           PROVE  /\ InOrder
                  /\ Level(interleaved_packets', n, v, a, audio_ts, video_ts)
                  /\ Past(out', interleaved_packets', n, v, a)
      <3>1. /\ BegunAt(a, gap) /\ Level(old, c, v, a, old_audio, old_video)
            /\ Past(sent, old, c, v, a)
          BY <2>7, <2>10 DEF InStride
      <3>2. /\ Level(buf, n, v, a, audio_ts, video_ts)
            /\ Past(sent, buf, n, v, a)
          BY <1>1, <1>3, <1>5, <1>7, <1>15, <2>6, <2>8, <2>10, <3>1, StaysLevel
      <3>3. buf \in Seq(Packets) /\ Sorted(buf) /\ buf # <<>>
          BY <2>9 DEF Adds
      <3>4. Past(out, buf, n, v, a) /\ out \in Packets \cup {NoPacket}
          BY <2>5, <3>2
      <3>5. Send(buf, audio_ts, video_ts)
          BY <2>1
      <3>6. QED
          BY <1>1, <1>14, <2>9, <3>2, <3>3, <3>4, <3>5, SendInOrder
    <2>11. InStride(interleaved_packets', n, v, a, gap, audio_ts, video_ts, out')
        BY <2>7, <2>10, Zenon DEF InStride
    <2>12. Orders(n)
        BY <2>1, <2>2, <2>3, <2>4, <2>11, Zenon DEF Orders, SetHighest
    <2>13. SendsNext
        BY <2>1, <2>4, <2>10, Zenon DEF SendsNext
    <2>14. QED
        BY <2>12, <2>13
  <1>17. CASE ~Started
    <2>1. packet = p
        BY <1>6, <1>17
    <2>2. /\ Untouched(old, c) /\ NothingSent
      <3>1. Waiting(old, c, received_audio, received_video) /\ NothingSent
          BY <1>2, <1>4, <1>17, Zenon DEF InterleaveInv
      <3>2. QED
          BY <3>1 DEF Waiting
    <2>3. Whole(old) /\ HighestSoFar(c, old_audio, old_video)
        BY <1>2, <1>4, <1>8, <1>9, <1>17, Zenon DEF OrderInv
    <2>4. Adds(buf, old, p) /\ Untouched(buf, n)
        BY <1>1, <1>3, <1>5, <1>7, <2>1, <2>2, InsertWaits DEF NextOf
    <2>5. buf \in Seq(Packets) /\ Sorted(buf)
        BY <2>4 DEF Adds
    <2>6. Whole(buf)
        BY <1>1, <1>3, <1>5, <2>3, <2>4, AddsWhole
    <2>7. HighestSoFar(n, audio_ts, video_ts)
        BY <1>1, <1>3, <1>15, <2>1, <2>3, HighestGoesOn
    <2>8. SendsNext
        BY <2>2 DEF SendsNext, InOrder, NothingSent
    <2>9. CASE /\ received_audio \/ ~isVideo
               /\ received_video \/ isVideo
      <3>1. TryStart(buf, audio_ts, video_ts)
          BY <1>12, <1>17, <2>9
      <3>2. Orders(n)
          BY <1>1, <1>14, <2>2, <2>4, <2>5, <2>6, <2>7, <3>1, TryStartOrders
      <3>3. QED
          BY <2>8, <3>2
    <2>10. CASE ~((received_audio \/ ~isVideo) /\ (received_video \/ isVideo))
      <3>1. /\ Hold(buf, audio_ts, video_ts)
            /\ SetReceived(received_audio \/ ~isVideo, received_video \/ isVideo)
          BY <1>12, <1>17, <2>10, Zenon
      <3>2. PICK audio : audio = (received_audio \/ ~isVideo)
          OBVIOUS
      <3>3. PICK video : video = (received_video \/ isVideo)
          OBVIOUS
      <3>4. SetReceived(audio, video) /\ ~(audio /\ video)
          BY <2>10, <3>1, <3>2, <3>3, Zenon
      <3>5. Orders(n)
          BY <2>6, <2>7, <3>1, <3>4, HoldOrders
      <3>6. QED
          BY <2>8, <3>5
    <2>11. QED
        BY <2>9, <2>10
  <1>18. QED
      BY <1>16, <1>17

\* DropVideo: what was received still waits.
LEMMA DropOrders ==
  ASSUME InterleaveInv, OrderInv, ~received_video, NEW n \in Counts,
         NEW m \in Counts, n = count, OneMore(n, m, Video),
         NEW p \in Packets, DropVideo(p)
  PROVE  Orders(m) /\ SendsNext
  <1>1. InterleaveTypeOK /\ beginning \in Beginnings /\ NothingSent
      BY DEF InterleaveInv, InterleaveTypeOK, Started
  <1>2. PICK old : old = interleaved_packets
      OBVIOUS
  <1>3. PICK audio_ts \in Int : audio_ts = highest_audio_ts
      BY <1>1 DEF InterleaveTypeOK
  <1>4. PICK video_ts \in Int : video_ts = highest_video_ts
      BY <1>1 DEF InterleaveTypeOK
  <1>5. Whole(old) /\ HighestSoFar(n, audio_ts, video_ts)
    <2>1. ~Started
        BY DEF Started
    <2>2. QED
        BY <1>2, <1>3, <1>4, <2>1, Zenon DEF OrderInv
  <1>6. /\ InBuf(interleaved_packets') \subseteq InBuf(old)
        /\ received_video' = received_video
        /\ highest_audio_ts' = audio_ts /\ highest_video_ts' = video_ts
        /\ out' = out
    <2>1. old \in Seq(Packets)
        BY <1>1, <1>2 DEF InterleaveTypeOK
    <2>2. Sorted(old)
      <3>1. Sorted(interleaved_packets)
          BY Zenon DEF InterleaveInv
      <3>2. QED
          BY <1>2, <3>1
    <2>3. PICK k \in 0 .. Len(old) :
              /\ interleaved_packets' = Discard(old, k)
              /\ received_audio' = received_audio
              /\ received_video' = received_video
              /\ video_offset' = video_offset
              /\ audio_offsets' = audio_offsets
              /\ highest_audio_ts' = highest_audio_ts
              /\ highest_video_ts' = highest_video_ts
              /\ out' = out /\ first_out' = first_out /\ start_gap' = start_gap
        BY <1>2, <2>1, DropIs
    <2>4. InBuf(Discard(old, k)) \subseteq InBuf(old)
        BY <2>1, <2>2, DiscardIs
    <2>5. QED
        BY <1>3, <1>4, <2>3, <2>4
  <1>7. Whole(interleaved_packets')
      BY <1>5, <1>6 DEF Whole
  <1>8. /\ Made(m, Video) = Made(n, Video) + Period(Video)
        /\ \A t \in Tracks : Made(m, t) = Made(n, t) /\ m[t] = n[t]
    <2>1. Video \in Sources /\ \A t \in Tracks : t \in Sources /\ t # Video
        BY InterleaveConstants
    <2>2. QED
        BY <1>1, <2>1, MadeOneMore
  <1>9. HighestSoFar(m, audio_ts, video_ts)
    <2>1. video_ts =< Clock(Video) + Made(m, Video)
      <3>1. PICK e \in Nat : e = Made(n, Video)
          BY <1>1, SourceNumbers, InterleaveConstants
      <3>2. PICK f \in Nat : f = Period(Video)
          BY <1>1, SourceNumbers, InterleaveConstants
      <3>3. PICK g \in Nat : g = Clock(Video)
          BY <1>1, SourceNumbers, InterleaveConstants
      <3>4. video_ts =< g + e /\ Made(m, Video) = e + f
          BY <1>5, <1>8, <3>1, <3>2, <3>3 DEF HighestSoFar
      <3>5. QED
          BY <3>3, <3>4
    <2>2. \/ audio_ts = 0
          \/ \E t \in Tracks :
                 m[t] > 0 /\ audio_ts + AudioDuration = Clock(t) + Made(m, t)
        BY <1>5, <1>8 DEF HighestSoFar
    <2>3. QED
        BY <2>1, <2>2 DEF HighestSoFar
  <1>10. ~(received_audio' /\ received_video')
      BY <1>6
  <1>11. Orders(m)
      BY <1>6, <1>7, <1>9, <1>10, Zenon DEF Orders
  <1>12. SendsNext
      BY <1>1 DEF SendsNext, InOrder, NothingSent
  <1>13. QED
      BY <1>11, <1>12

\* What a step leaves is the invariant after it.
LEMMA OrdersIsInv ==
  ASSUME NEW n \in Counts, count' = n, beginning \in Beginnings,
         beginning' = beginning, Orders(n)
  PROVE  OrderInv'
  <1>1. /\ \A s \in Sources : Clock(s)' = Clock(s) /\ Lag(s)' = Lag(s)
        /\ Tracks \subseteq Sources /\ Video \in Sources
        /\ \A s \in Sources : Made(count, s)' = Made(n, s)
      BY InterleaveConstants DEF Clock, Lag, Made, Period
  <1>2. CASE Started'
    <2>1. InStride(interleaved_packets', n, video_offset', audio_offsets',
                   start_gap', highest_audio_ts', highest_video_ts', out')
        BY <1>2, Zenon DEF Orders, Started
    <2>2. BegunAt(audio_offsets, start_gap)'
      <3>1. BegunAt(audio_offsets', start_gap')
          BY <2>1 DEF InStride
      <3>2. \A t \in Tracks : Clock(t)' = Clock(t)
          BY <1>1
      <3>3. QED
          BY <3>1, <3>2, Zenon DEF BegunAt
    <2>3. ASSUME beginning.reorder = 0, Close(start_gap')
          PROVE  /\ Level(interleaved_packets, count, video_offset,
                          audio_offsets, highest_audio_ts, highest_video_ts)'
                 /\ Past(out, interleaved_packets, count, video_offset,
                         audio_offsets)'
      <3>1. /\ Level(interleaved_packets', n, video_offset', audio_offsets',
                     highest_audio_ts', highest_video_ts')
            /\ Past(out', interleaved_packets', n, video_offset',
                    audio_offsets')
          BY <2>1, <2>3 DEF InStride
      <3>2. \A s \in Sources :
                Limit(count, video_offset, audio_offsets, s)'
                    = Limit(n, video_offset', audio_offsets', s)
          BY <1>1, Zenon DEF Limit
      <3>3. InBuf(interleaved_packets)' = InBuf(interleaved_packets')
          BY Zenon DEF InBuf
      <3>4. \A t \in Tracks :
                Limit(count, video_offset, audio_offsets, t)'
                    = Limit(n, video_offset', audio_offsets', t)
          BY <1>1, <3>2, Zenon
      <3>5. Level(interleaved_packets, count, video_offset,
                  audio_offsets, highest_audio_ts, highest_video_ts)'
          BY <1>1, <3>1, <3>2, <3>3, <3>4, Zenon DEF Level
      <3>6. Past(out, interleaved_packets, count, video_offset,
                 audio_offsets)'
          BY <3>1, <3>2, <3>3, Zenon DEF Past
      <3>7. QED
          BY <3>5, <3>6
    <2>4. beginning'.reorder = beginning.reorder
        OBVIOUS
    <2>5. Close(start_gap)' <=> Close(start_gap')
        BY Zenon DEF Close
    <2>6. InStride(interleaved_packets, count, video_offset, audio_offsets,
                   start_gap, highest_audio_ts, highest_video_ts, out)'
        BY <2>2, <2>3, <2>4, <2>5, Zenon DEF InStride
    <2>7. QED
        BY <1>2, <2>6, Zenon DEF OrderInv
  <1>3. CASE ~Started'
    <2>1. /\ Whole(interleaved_packets')
          /\ HighestSoFar(n, highest_audio_ts', highest_video_ts')
        BY <1>3, Zenon DEF Orders, Started
    <2>2. Whole(interleaved_packets)'
        BY <2>1, Zenon DEF Whole, InBuf
    <2>3. HighestSoFar(count, highest_audio_ts, highest_video_ts)'
      <3>1. \A t \in Tracks : /\ Clock(t)' = Clock(t)
                              /\ Made(count, t)' = Made(n, t)
          BY <1>1
      <3>2. QED
          BY <1>1, <2>1, <3>1, Zenon DEF HighestSoFar
    <2>4. QED
        BY <1>3, <2>2, <2>3, Zenon DEF OrderInv
  <1>4. QED
      BY <1>2, <1>3

\* An empty buffer and no time stamps: the beginning of a capture.
LEMMA NothingIsLate ==
  ASSUME beginning \in Beginnings, NEW n \in Counts
  PROVE  Whole(<<>>) /\ HighestSoFar(n, 0, 0)
  <1>1. InBuf(<<>>) = {}
    <2>1. DOMAIN <<>> = {}
        OBVIOUS
    <2>2. QED
        BY <2>1, Zenon DEF InBuf
  <1>2. Clock(Video) \in Nat /\ Made(n, Video) \in Nat
      BY SourceNumbers, InterleaveConstants
  <1>3. 0 =< Clock(Video) + Made(n, Video)
      BY <1>2
  <1>4. QED
      BY <1>1, <1>3 DEF Whole, HighestSoFar

\* The invariant holds at the start.
LEMMA OrderInvInit == InterleaveInit => OrderInv
  <1> SUFFICES ASSUME InterleaveInit PROVE OrderInv
      OBVIOUS
  <1>1. beginning \in Beginnings /\ count \in Counts
    <2>1. beginning \in Beginnings
        BY Zenon DEF InterleaveInit
    <2>2. count \in Counts
        BY DEF InterleaveInit, Counts
    <2>3. QED
        BY <2>1, <2>2
  <1>2. /\ ~Started /\ interleaved_packets = <<>>
        /\ highest_audio_ts = 0 /\ highest_video_ts = 0
      BY DEF InterleaveInit, Started
  <1>3. Whole(<<>>) /\ HighestSoFar(count, 0, 0)
      BY <1>1, NothingIsLate
  <1>4. QED
      BY <1>2, <1>3, Zenon DEF OrderInv

\* Every step keeps it, and sends what it sends in order.
LEMMA OrderInvNext ==
  ASSUME InterleaveInv, OrderInv, [InterleaveNext]_interleaveVars
  PROVE  OrderInv' /\ (beginning.reorder = 0 /\ CloseTogether' => InOrder)
  <1>1. /\ InterleaveTypeOK /\ count \in Counts /\ beginning \in Beginnings
        /\ InStep(count)
      BY DEF InterleaveInv, InterleaveTypeOK, Counts
  <1>2. PICK c \in Counts : c = count
      BY <1>1
  <1>3. CloseTogether' => Close(start_gap')
      BY Zenon DEF CloseTogether, Close
  <1>4. ASSUME NEW n \in Counts, count' = n, beginning' = beginning, Orders(n),
               SendsNext
        PROVE  OrderInv' /\ (beginning.reorder = 0 /\ CloseTogether' => InOrder)
    <2>1. OrderInv'
        BY <1>1, <1>4, OrdersIsInv
    <2>2. beginning.reorder = 0 /\ CloseTogether' => InOrder
        BY <1>3, <1>4, Zenon DEF SendsNext
    <2>3. QED
        BY <2>1, <2>2
  <1>5. CASE VideoPacket \/ \E t \in Tracks : AudioPacket(t)
    <2>1. PICK n \in Counts, p \in Packets :
              /\ count' = n /\ beginning' = beginning /\ captures' = captures
              /\ sent_first' \in BOOLEAN /\ InStep(n)
              /\ NextOf(p, count) /\ OneMore(count, n, p.source)
              /\ \/ Receive(p) /\ (p.source # Video => IsNext(p, count))
                 \/ DropVideo(p) /\ ~received_video /\ p.source = Video
        BY <1>1, <1>5, EncodersStep
    <2>2. Orders(n) /\ SendsNext
      <3>1. CASE Receive(p) /\ (p.source # Video => IsNext(p, count))
          BY <2>1, <3>1, ReceiveOrders
      <3>2. CASE DropVideo(p) /\ ~received_video /\ p.source = Video
        <4>1. OneMore(c, n, Video)
            BY <1>2, <2>1, <3>2
        <4>2. QED
            BY <1>2, <3>2, <4>1, DropOrders
      <3>3. QED
          BY <2>1, <3>1, <3>2, Zenon
    <2>3. QED
        BY <1>4, <2>1, <2>2
  <1>6. CASE BeginCapture
    <2>1. /\ count' = c /\ beginning' = beginning /\ out' = NoPacket
          /\ interleaved_packets' = <<>> /\ received_audio' = FALSE
          /\ highest_audio_ts' = 0 /\ highest_video_ts' = 0
        BY <1>2, <1>6 DEF BeginCapture, SetReceived, SetHighest
    <2>2. Orders(c)
      <3>1. Whole(<<>>) /\ HighestSoFar(c, 0, 0)
          BY <1>1, NothingIsLate
      <3>2. QED
          BY <2>1, <3>1, Zenon DEF Orders
    <2>3. SendsNext
        BY <2>1 DEF SendsNext, InOrder
    <2>4. QED
        BY <1>4, <2>1, <2>2, <2>3
  <1>7. CASE UNCHANGED interleaveVars
    <2>1. /\ interleaved_packets' = interleaved_packets
          /\ received_audio' = received_audio
          /\ received_video' = received_video
          /\ video_offset' = video_offset /\ audio_offsets' = audio_offsets
          /\ highest_audio_ts' = highest_audio_ts
          /\ highest_video_ts' = highest_video_ts
          /\ out' = out /\ start_gap' = start_gap
          /\ beginning' = beginning /\ count' = c
        BY <1>2, <1>7 DEF interleaveVars, outputVars, historyVars
    <2>2. Orders(c)
        BY <1>2, <2>1, Zenon DEF Orders, OrderInv, Started
    <2>3. SendsNext
      <3>1. out # NoPacket => out.dts_usec \in Int
          BY <1>1 DEF InterleaveTypeOK, Packets
      <3>2. QED
          BY <2>1, <3>1 DEF SendsNext, InOrder
    <2>4. QED
        BY <1>4, <2>1, <2>2, <2>3
  <1>8. QED
      BY <1>5, <1>6, <1>7 DEF InterleaveNext

-----------------------------------------------------------------------------
(* The theorems                                                             *)

\* The invariant of the interleaver: a capture that waits for its streams has
\* their packets in order and unbroken, and lacks what its flags say; one that has
\* begun has sent the first packet of each stream or still has it.
THEOREM InterleaveInvHolds == InterleaveSpec => []InterleaveInv
  <1>1. QED
      BY InterleaveInvInit, InterleaveInvNext, PTL DEF InterleaveSpec

\* The buffer, the flags, the offsets and the counters of the interleaver keep
\* their types.
THEOREM InterleaveTyped == InterleaveSpec => []InterleaveTypeOK
  <1>1. InterleaveInv => InterleaveTypeOK
      BY DEF InterleaveInv
  <1>2. QED
      BY <1>1, InterleaveInvHolds, PTL

\* Wherever the streams begin and whatever interleave_packets prunes, every
\* stream of a capture begins at time 0, the last track soon after the video, and
\* once packets are sent no stream is forgotten.
THEOREM StreamsStartAlways == InterleaveSpec => []StreamsStart
  <1>1. InterleaveInv => StreamsStart
    <2> SUFFICES ASSUME InterleaveInv PROVE StreamsStart
        OBVIOUS
    <2>1. /\ InterleaveTypeOK
          /\ start_gap[NumTracks] =< Max({VideoDuration, AudioDuration - 1})
        BY DEF InterleaveInv, GapBound
    <2>2. CASE Started
      <3>1. FirstsAtZero(interleaved_packets, first_out)
          BY <2>2, Zenon DEF InterleaveInv
      <3>2. ASSUME NEW s \in Sources, first_out[s] # NoPacket
            PROVE  IF s = Video THEN first_out[s].pts = 0
                   ELSE first_out[s].dts = 0
          BY <3>1, <3>2 DEF FirstsAtZero, Zero
      <3>3. ASSUME NEW s \in Sources, first_out[s] = NoPacket
            PROVE  FirstOf(interleaved_packets, s) # 0
        <4>1. ~None(interleaved_packets, s)
            BY <3>1, <3>3 DEF FirstsAtZero, None
        <4>2. QED
            BY <2>1, <4>1, FirstOfIs DEF InterleaveTypeOK
      <3>4. QED
          BY <2>1, <3>2, <3>3 DEF StreamsStart, StreamsStartAtZero
    <2>3. CASE ~Started
      <3>1. NothingSent
          BY <2>3, Zenon DEF InterleaveInv
      <3>2. QED
          BY <2>1, <3>1 DEF StreamsStart, StreamsStartAtZero, NothingSent
    <2>4. QED
        BY <2>2, <2>3
  <1>2. QED
      BY <1>1, InterleaveInvHolds, PTL

\* Every capture has begun with whole packets of its tracks; nothing that waits
\* or is still to come is before the packet that was sent.
THEOREM OrderInvHolds == InterleaveSpec => []OrderInv
  <1>1. InterleaveInv /\ OrderInv /\ [InterleaveNext]_interleaveVars => OrderInv'
      BY OrderInvNext
  <1>2. QED
      BY <1>1, OrderInvInit, InterleaveInvHolds, PTL DEF InterleaveSpec

\* send_interleaved passes the packets on in the order of their time stamps, if
\* frames are not reordered and the tracks begin close together.
THEOREM PacketsLeaveInOrder == InterleaveSpec => MonotonicInOrder
  <1>1. InterleaveInv /\ OrderInv /\ [InterleaveNext]_interleaveVars
            => [beginning.reorder = 0 /\ CloseTogether' => InOrder]_interleaveVars
      BY OrderInvNext
  <1>2. QED
      BY <1>1, InterleaveInvHolds, OrderInvHolds, PTL
         DEF InterleaveSpec, MonotonicInOrder

=============================================================================
