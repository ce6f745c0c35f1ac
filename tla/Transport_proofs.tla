--------------------------- MODULE Transport_proofs ---------------------------
(***************************************************************************)
(* What holds packets back on their way to the server.  The send queue of   *)
(* the RTMP output is proved for any sequence of frames an encoder may      *)
(* repeat, any thresholds, and any number of packets and connections: what  *)
(* is sent can be decoded, the send thread does not sleep over a packet,    *)
(* and the time that waits is bounded if the thresholds are not too short.  *)
(* The delay of a stream is proved for any encoders, retries, losses, runs   *)
(* and length of the queue: the starts that are counted are those to come,  *)
(* as long as nothing coincides that DelayRaces lists.                      *)
(***************************************************************************)
EXTENDS RtmpQueue, DelayedOutput, WellFoundedInduction, SequenceTheorems,
        FiniteSetTheorems, TLAPS

-----------------------------------------------------------------------------
(* The send queue: the inductive invariant                                  *)

PacketsIn(queue) == {queue[i] : i \in DOMAIN queue}
Sorted(queue) ==
    \A i, j \in DOMAIN queue : i < j => queue[i].dts < queue[j].dts
Line == PacketsIn(packets)

\* The send thread takes packets and sends them over this connection.
Sending == sender.at \in {"wait", "awake", "taken"}

\* A frame that was sent or is about to be.
Gone(r) == r \in sent \/ (sender.at = "taken" /\ r = sender.packet.dts)

\* A frame that was sent, or will be unless frames of its priority are dropped.
Has(r, priority) ==
    Gone(r) \/ \E q \in Line : q.dts = r /\ q.kind >= priority

QueueTyped ==
    /\ packets \in Seq(PacketType)
    /\ send_sem \in Nat /\ last_dts \in Nat /\ stop_ts \in Nat
    /\ made \in Nat /\ connections \in Nat
    /\ min_priority \in {0, HIGH, HIGHEST}
    /\ disconnected \in BOOLEAN /\ rtmp_active \in BOOLEAN
    /\ rtmp_stop_event \in BOOLEAN /\ capture \in BOOLEAN
    /\ data \in [at : {"idle", "lock", "post"}, packet : PacketType]
    /\ sender \in [at : {"none", "wait", "awake", "taken", "ending", "free",
                         "close"}, packet : PacketType]
    /\ encoder \in [next : 1 .. Len(Group), anchor : Nat, low : Nat]
    /\ sent \in SUBSET Nat

\* The packets wait in the order they were made in.
InOrder ==
    /\ Sorted(packets)
    /\ \A q \in Line : q.dts <= made /\ (data.at = "lock" => q.dts < made)
    /\ data.at = "lock" => data.packet.dts = made
    /\ encoder.anchor <= made /\ encoder.low <= made
    /\ encoder.anchor = 0 => encoder.next = 1
    /\ ~capture => data.at = "idle"

\* A frame refers to frames before it; a keyframe and audio to none.
Earlier(p) == /\ \A r \in p.refs : r < p.dts
              /\ p.kind >= HIGHEST => p.refs = {}

\* What a packet that waits refers to was sent or waits, too, in front of it;
\* and what a frame of HIGH refers to is not dropped before that frame is.
LineDecodable ==
    /\ \A p \in Line : Earlier(p)
    /\ Sending => \A p \in Line : \A r \in p.refs :
                      Has(r, IF p.kind >= HIGH THEN HIGH ELSE 0)
    /\ sender.at = "taken" => sender.packet.refs \subseteq sent

\* The same for the packet rtmp_stream_data was given, if it is not going to
\* be dropped.
NextDecodable ==
    data.at = "lock" =>
        LET p == data.packet
        IN  /\ Earlier(p)
            /\ Sending /\ p.kind = HIGH /\ min_priority <= HIGH =>
                   \A r \in p.refs : Has(r, HIGH)
            /\ Sending /\ p.kind < HIGH /\ min_priority = 0 =>
                   \A r \in p.refs : Has(r, 0)

\* And for the frames the encoder may still refer to: unless it drops all but
\* keyframes the queue has the last frame of HIGH, unless it drops anything
\* it has the last one of LOW.  The packet that is on its way counts.
EncoderDecodable ==
    Sending =>
        /\ min_priority <= HIGH /\ encoder.anchor # 0 =>
               \/ Has(encoder.anchor, HIGH)
               \/ /\ data.at = "lock" /\ data.packet.kind >= HIGH
                  /\ encoder.anchor = data.packet.dts
        /\ min_priority = 0 /\ encoder.low # 0 =>
               \/ Has(encoder.low, 0)
               \/ data.at = "lock" /\ encoder.low = data.packet.dts
        /\ data.at = "lock" /\ data.packet.kind \in {HIGH, HIGHEST} =>
               encoder.anchor = data.packet.dts /\ encoder.low = 0

\* A connection over which packets are sent stands.
Connected == Sending => rtmp_active /\ ~disconnected

QueueInv ==
    /\ QueueTyped /\ InOrder /\ LineDecodable /\ NextDecodable
    /\ EncoderDecodable /\ Connected /\ PacketsHaveWakeups

-----------------------------------------------------------------------------
(* Recursion                                                                *)

\* Induction up to L: a set that has 0 and, with every number, the next one.
LEMMA UpTo ==
  ASSUME NEW L \in Nat, NEW T, 0 \in T,
         \A n \in 0 .. L : n + 1 \in 0 .. L /\ n \in T => n + 1 \in T
  PROVE  0 .. L \subseteq T
  <1> DEFINE U == (0 .. L) \ T
             R == {ss \in Nat \X Nat : ss[1] < ss[2]}
  <1>1. SUFFICES ASSUME U # {} PROVE FALSE
      OBVIOUS
  <1>2. U \in SUBSET Nat
      OBVIOUS
  <1>3. PICK n \in U : \A m \in U : ~(<<m, n>> \in OpToRel(<, Nat))
      BY <1>1, <1>2, NatLessThanWellFounded, WFMin
  <1>4. OpToRel(<, Nat) = R
      BY Zenon DEF OpToRel
  <1>5. \A m \in U : ~(<<m, n>> \in R)
      BY <1>3, <1>4, Zenon
  <1>6. n \in 0 .. L /\ n \notin T /\ n # 0
      BY <1>3
  <1>7. n - 1 \in 0 .. L /\ <<n - 1, n>> \in R
      BY <1>6
  <1>8. n - 1 \in T
      BY <1>5, <1>7
  <1>9. (n - 1) + 1 = n
      BY <1>6
  <1>10. QED
      BY <1>6, <1>7, <1>8, <1>9

\* One round of the loop of drop_frames.
Round(queue, priority, kept, i) ==
    IF i = 0 THEN <<>>
    ELSE IF queue[i].kind >= priority
         THEN Append(kept[i - 1], queue[i])
         ELSE kept[i - 1]

\* The loop has a result after each round, by induction on the rounds: what
\* the recursive function of drop_frames says of itself is so.
LEMMA KeptUnfolds ==
  ASSUME NEW S, NEW queue \in Seq(S), NEW priority
  PROVE  KeptUpTo(queue, priority) =
             [i \in 0 .. Len(queue) |->
                 Round(queue, priority, KeptUpTo(queue, priority), i)]
  <1> DEFINE Runs(g, n) ==
                 g = [i \in 0 .. n |-> Round(queue, priority, g, i)]
             T == {n \in 0 .. Len(queue) : \E g : Runs(g, n)}
  <1>1. 0 \in T
    <2> DEFINE g == [i \in {0} |-> <<>>]
    <2>1. Runs(g, 0)
        BY DEF Round
    <2>2. QED
        BY <2>1
  <1>2. ASSUME NEW n \in 0 .. Len(queue), n + 1 \in 0 .. Len(queue), n \in T
        PROVE  n + 1 \in T
    <2>1. PICK g : Runs(g, n)
        BY <1>2
    <2> DEFINE h == [i \in 0 .. n + 1 |->
                        IF i = n + 1 THEN Round(queue, priority, g, n + 1)
                        ELSE g[i]]
    <2>2. ASSUME NEW i \in 0 .. n + 1
          PROVE  h[i] = Round(queue, priority, h, i)
      <3>1. CASE i = n + 1
        <4>1. h[i] = Round(queue, priority, g, n + 1) /\ h[n] = g[n]
            BY <3>1
        <4>2. Round(queue, priority, g, n + 1)
                  = Round(queue, priority, h, n + 1)
            BY <4>1 DEF Round
        <4>3. QED
            BY <3>1, <4>1, <4>2
      <3>2. CASE i \in 0 .. n
        <4>1. h[i] = g[i] /\ g[i] = Round(queue, priority, g, i)
            BY <2>1, <3>2
        <4>2. i # 0 => h[i - 1] = g[i - 1]
            BY <3>2
        <4>3. Round(queue, priority, g, i) = Round(queue, priority, h, i)
            BY <4>2 DEF Round
        <4>4. QED
            BY <4>1, <4>3
      <3>3. QED
          BY <3>1, <3>2
    <2>3. Runs(h, n + 1)
        BY <2>2
    <2>4. QED
        BY <1>2, <2>3
  <1> HIDE DEF T
  <1>3. Len(queue) \in T
    <2>1. Len(queue) \in Nat
        OBVIOUS
    <2>2. 0 .. Len(queue) \subseteq T
        BY <1>1, <1>2, <2>1, UpTo
    <2>3. QED
        BY <2>1, <2>2
  <1>4. \E g : Runs(g, Len(queue))
      BY <1>3 DEF T
  <1>5. KeptUpTo(queue, priority) = CHOOSE g : Runs(g, Len(queue))
      BY DEF KeptUpTo, Round
  <1>6. QED
      BY <1>4, <1>5

-----------------------------------------------------------------------------
(* Queues of packets                                                        *)

\* A packet is put behind the others.
LEMMA PacketAppended ==
  ASSUME NEW s \in Seq(PacketType), NEW p \in PacketType
  PROVE  /\ Append(s, p) \in Seq(PacketType)
         /\ PacketsIn(Append(s, p)) = PacketsIn(s) \cup {p}
         /\ Sorted(s) /\ (\A q \in PacketsIn(s) : q.dts < p.dts)
                => Sorted(Append(s, p))
         /\ Len(Append(s, p)) = Len(s) + 1
  <1>1. /\ Append(s, p) \in Seq(PacketType) /\ Len(Append(s, p)) = Len(s) + 1
        /\ \A i \in 1 .. Len(s) : Append(s, p)[i] = s[i]
        /\ Append(s, p)[Len(s) + 1] = p
      OBVIOUS
  <1>2. DOMAIN Append(s, p) = 1 .. Len(s) + 1 /\ DOMAIN s = 1 .. Len(s)
      BY <1>1
  <1> DEFINE t == Append(s, p)
  <1>3. Len(s) \in Nat
      OBVIOUS
  <1> HIDE DEF t
  <1>4. /\ DOMAIN t = 1 .. Len(s) + 1 /\ t[Len(s) + 1] = p
        /\ \A i \in 1 .. Len(s) : t[i] = s[i]
      BY <1>1, <1>2 DEF t
  <1>5. PacketsIn(t) = PacketsIn(s) \cup {p}
    <2>1. ASSUME NEW x \in PacketsIn(t) PROVE x \in PacketsIn(s) \cup {p}
      <3>1. PICK i \in 1 .. Len(s) + 1 : x = t[i]
          BY <1>4 DEF PacketsIn
      <3>2. QED
          BY <1>2, <1>3, <1>4, <3>1 DEF PacketsIn
    <2>2. ASSUME NEW x \in PacketsIn(s) PROVE x \in PacketsIn(t)
      <3>1. PICK i \in 1 .. Len(s) : x = s[i]
          BY <1>2 DEF PacketsIn
      <3>2. x = t[i] /\ i \in DOMAIN t
          BY <1>3, <1>4, <3>1
      <3>3. QED
          BY <3>2 DEF PacketsIn
    <2>3. p \in PacketsIn(t)
        BY <1>3, <1>4 DEF PacketsIn
    <2>4. QED
        BY <2>1, <2>2, <2>3
  <1>6. ASSUME Sorted(s), \A q \in PacketsIn(s) : q.dts < p.dts
        PROVE  Sorted(t)
    <2>1. SUFFICES ASSUME NEW i \in 1 .. Len(s) + 1,
                          NEW j \in 1 .. Len(s) + 1, i < j
                   PROVE  t[i].dts < t[j].dts
        BY <1>4 DEF Sorted
    <2>2. i \in 1 .. Len(s) /\ t[i] = s[i] /\ s[i] \in PacketsIn(s)
        BY <1>2, <1>3, <1>4, <2>1 DEF PacketsIn
    <2>3. CASE j = Len(s) + 1
        BY <1>4, <1>6, <2>2, <2>3
    <2>4. CASE j \in 1 .. Len(s)
        BY <1>2, <1>4, <1>6, <2>1, <2>2, <2>4 DEF Sorted
    <2>5. QED
        BY <1>3, <2>3, <2>4
  <1>7. QED
      BY <1>1, <1>5, <1>6 DEF t

\* The first packet is taken: it is the oldest.
LEMMA PacketTaken ==
  ASSUME NEW s \in Seq(PacketType), s # <<>>, Sorted(s)
  PROVE  /\ Head(s) \in PacketsIn(s) /\ Head(s) \in PacketType
         /\ Tail(s) \in Seq(PacketType) /\ Len(Tail(s)) = Len(s) - 1
         /\ Sorted(Tail(s))
         /\ PacketsIn(s) = PacketsIn(Tail(s)) \cup {Head(s)}
         /\ \A q \in PacketsIn(Tail(s)) : Head(s).dts < q.dts
  <1> DEFINE t == Tail(s)
  <1>1. /\ t \in Seq(PacketType) /\ Head(s) = s[1] /\ Len(s) \in Nat \ {0}
        /\ DOMAIN s = 1 .. Len(s) /\ s[1] \in PacketType
      OBVIOUS
  <1>2. Len(t) = Len(s) - 1 /\ \A i \in 1 .. Len(t) : t[i] = s[i + 1]
      BY HeadTailProperties
  <1>3. DOMAIN t = 1 .. Len(s) - 1
      BY <1>1, <1>2
  <1> HIDE DEF t
  <1>4. \A i \in DOMAIN t : i + 1 \in DOMAIN s /\ t[i] = s[i + 1]
      BY <1>1, <1>2, <1>3
  <1>5. Sorted(t)
      BY <1>1, <1>3, <1>4 DEF Sorted
  <1>6. \A q \in PacketsIn(t) : q \in PacketsIn(s) /\ s[1].dts < q.dts
      BY <1>1, <1>3, <1>4 DEF Sorted, PacketsIn
  <1>7. ASSUME NEW x \in PacketsIn(s) PROVE x \in PacketsIn(t) \cup {s[1]}
    <2>1. PICK i \in 1 .. Len(s) : x = s[i]
        BY <1>1 DEF PacketsIn
    <2>2. CASE i = 1
        BY <2>1, <2>2
    <2>3. CASE i # 1
      <3>1. i - 1 \in DOMAIN t /\ t[i - 1] = x
          BY <1>1, <1>3, <1>4, <2>1, <2>3
      <3>2. QED
          BY <3>1 DEF PacketsIn
    <2>4. QED
        BY <2>2, <2>3
  <1>8. s[1] \in PacketsIn(s)
      BY <1>1 DEF PacketsIn
  <1>9. QED
      BY <1>1, <1>2, <1>5, <1>6, <1>7, <1>8 DEF t

\* drop_frames: the packets of the priority and above are left, in their order.
LEMMA KeptKeeps ==
  ASSUME NEW queue \in Seq(PacketType), Sorted(queue), NEW priority \in Nat
  PROVE  /\ Kept(queue, priority) \in Seq(PacketType)
         /\ Sorted(Kept(queue, priority))
         /\ Len(Kept(queue, priority)) <= Len(queue)
         /\ PacketsIn(Kept(queue, priority)) =
                {p \in PacketsIn(queue) : p.kind >= priority}
  <1> DEFINE kept == KeptUpTo(queue, priority)
             First(n) == {queue[j] : j \in 1 .. n}
             Good(n) == /\ kept[n] \in Seq(PacketType) /\ Sorted(kept[n])
                        /\ Len(kept[n]) <= n
                        /\ PacketsIn(kept[n]) =
                               {p \in First(n) : p.kind >= priority}
             T == {n \in 0 .. Len(queue) : Good(n)}
  <1>1. Len(queue) \in Nat /\ DOMAIN queue = 1 .. Len(queue)
      OBVIOUS
  <1>2. \A i \in 0 .. Len(queue) : kept[i] = Round(queue, priority, kept, i)
    <2>1. kept = [i \in 0 .. Len(queue) |-> Round(queue, priority, kept, i)]
        BY KeptUnfolds
    <2>2. QED
        BY <2>1, Zenon
  <1> HIDE DEF kept
  <1>3. 0 \in T
    <2>1. kept[0] = <<>>
        BY <1>1, <1>2 DEF Round
    <2>2. PacketsIn(<<>>) = {} /\ Sorted(<<>>) /\ First(0) = {}
        BY DEF Sorted, PacketsIn
    <2>3. <<>> \in Seq(PacketType) /\ Len(<<>>) = 0
        OBVIOUS
    <2> HIDE DEF First
    <2>4. Good(0)
        BY <2>1, <2>2, <2>3
    <2>5. QED
        BY <1>1, <2>4
  <1>4. ASSUME NEW n \in 0 .. Len(queue), n + 1 \in 0 .. Len(queue), n \in T
        PROVE  n + 1 \in T
    <2> DEFINE p == queue[n + 1]
    <2>1. p \in PacketType /\ n + 1 \in DOMAIN queue
        BY <1>1, <1>4
    <2>2. First(n + 1) = First(n) \cup {p}
        BY <1>1, <1>4
    <2>3. \A q \in First(n) : q.dts < p.dts
        BY <1>1, <1>4, <2>1 DEF Sorted
    <2>4. /\ kept[n] \in Seq(PacketType) /\ Sorted(kept[n])
          /\ Len(kept[n]) <= n
          /\ PacketsIn(kept[n]) = {q \in First(n) : q.kind >= priority}
        BY <1>4
    <2> HIDE DEF First
    <2>5. kept[n + 1] = IF p.kind >= priority THEN Append(kept[n], p)
                        ELSE kept[n]
      <3>1. n + 1 # 0 /\ (n + 1) - 1 = n
          BY <1>1, <1>4
      <3>2. QED
          BY <1>2, <1>4, <3>1 DEF Round
    <2>6. CASE p.kind >= priority
      <3>1. kept[n + 1] = Append(kept[n], p)
          BY <2>6, <2>5
      <3>2. \A q \in PacketsIn(kept[n]) : q.dts < p.dts
          BY <2>3, <2>4
      <3> HIDE DEF p
      <3>3. /\ kept[n + 1] \in Seq(PacketType) /\ Sorted(kept[n + 1])
            /\ PacketsIn(kept[n + 1]) = PacketsIn(kept[n]) \cup {p}
            /\ Len(kept[n + 1]) = Len(kept[n]) + 1
          BY <2>1, <2>4, <3>1, <3>2, PacketAppended
      <3>4. Len(kept[n]) \in Nat
          BY <2>4
      <3>5. QED
          BY <1>4, <2>2, <2>4, <2>6, <3>3, <3>4
    <2>7. CASE ~(p.kind >= priority)
      <3>1. kept[n + 1] = kept[n]
          BY <2>7, <2>5
      <3>2. Len(kept[n]) \in Nat
          BY <2>4
      <3> HIDE DEF p
      <3>3. QED
          BY <1>4, <2>2, <2>4, <2>7, <3>1, <3>2
    <2>8. QED
        BY <2>6, <2>7
  <1> HIDE DEF T
  <1>5. 0 .. Len(queue) \subseteq T
      BY <1>1, <1>3, <1>4, UpTo
  <1>6. Len(queue) \in T
      BY <1>1, <1>5
  <1>7. Good(Len(queue))
      BY <1>6 DEF T
  <1>8. First(Len(queue)) = PacketsIn(queue)
      BY <1>1 DEF PacketsIn
  <1>9. QED
      BY <1>7, <1>8 DEF Kept, kept

\* What drop_frames does to the queue and to min_priority, for a priority; 0
\* when nothing is dropped.
Dropped(before, after, priority) ==
    /\ after.packets \in Seq(PacketType) /\ Sorted(after.packets)
    /\ Len(after.packets) <= Len(before.packets)
    /\ PacketsIn(after.packets) =
           {p \in PacketsIn(before.packets) : p.kind >= priority}
    /\ after.min_priority = IF before.min_priority < priority THEN priority
                            ELSE before.min_priority

\* check_to_drop_frames drops the frames below its priority, or none.
LEMMA CheckedOnce ==
  ASSUME NEW queue \in [packets : Seq(PacketType),
                        min_priority : {0, HIGH, HIGHEST}],
         Sorted(queue.packets), NEW pframes \in BOOLEAN
  PROVE  \E priority \in {0, IF pframes THEN HIGHEST ELSE HIGH} :
            /\ Dropped(queue, CheckToDropFrames(queue, pframes), priority)
            /\ CheckToDropFrames(queue, pframes)
                   \in [packets : Seq(PacketType),
                        min_priority : {0, HIGH, HIGHEST}]
  <1> DEFINE to == IF pframes THEN HIGHEST ELSE HIGH
             Queues == [packets : Seq(PacketType),
                        min_priority : {0, HIGH, HIGHEST}]
  <1>1. to \in {HIGH, HIGHEST} /\ to \in Nat
      BY DEF HIGH, HIGHEST
  <1>2. \/ CheckToDropFrames(queue, pframes) = queue
        \/ CheckToDropFrames(queue, pframes) = DropFrames(queue, to)
      BY DEF CheckToDropFrames
  <1>3. /\ queue.packets \in Seq(PacketType) /\ Len(queue.packets) \in Nat
        /\ queue.min_priority \in {0, HIGH, HIGHEST}
      OBVIOUS
  <1> HIDE DEF to
  <1>4. Dropped(queue, queue, 0)
    <2>1. \A p \in PacketsIn(queue.packets) : p \in PacketType
        BY <1>3 DEF PacketsIn
    <2>2. \A p \in PacketsIn(queue.packets) : p.kind >= 0
        BY <2>1 DEF PacketType, Audio
    <2>3. PacketsIn(queue.packets) =
              {p \in PacketsIn(queue.packets) : p.kind >= 0}
        BY <2>2
    <2>4. queue.min_priority \in Nat
        BY <1>3 DEF HIGH, HIGHEST
    <2>5. QED
        BY <1>3, <2>3, <2>4 DEF Dropped
  <1>5. /\ Dropped(queue, DropFrames(queue, to), to)
        /\ DropFrames(queue, to) \in Queues
    <2> DEFINE after == DropFrames(queue, to)
    <2>1. /\ after = [packets |-> Kept(queue.packets, to),
                      min_priority |-> IF queue.min_priority < to THEN to
                                       ELSE queue.min_priority]
        BY DEF DropFrames
    <2> HIDE DEF after
    <2>2. /\ Kept(queue.packets, to) \in Seq(PacketType)
          /\ Sorted(Kept(queue.packets, to))
          /\ Len(Kept(queue.packets, to)) <= Len(queue.packets)
          /\ PacketsIn(Kept(queue.packets, to)) =
                 {p \in PacketsIn(queue.packets) : p.kind >= to}
        BY <1>1, <1>3, KeptKeeps
    <2>3. Dropped(queue, after, to)
        BY <2>1, <2>2 DEF Dropped
    <2>4. after \in Queues
        BY <1>1, <1>3, <2>1, <2>2
    <2>5. QED
        BY <2>3, <2>4 DEF after
  <1>6. QED
      BY <1>2, <1>4, <1>5 DEF to

\* What the queue is after all that add_video_packet drops: one priority tells.
LEMMA QueueChecked ==
  ASSUME NEW queue \in [packets : Seq(PacketType),
                        min_priority : {0, HIGH, HIGHEST}],
         Sorted(queue.packets)
  PROVE  \E priority \in {0, HIGH, HIGHEST} :
            Dropped(queue,
                    CheckToDropFrames(CheckToDropFrames(queue, FALSE), TRUE),
                    priority)
  <1> DEFINE first == CheckToDropFrames(queue, FALSE)
             second == CheckToDropFrames(first, TRUE)
             Queues == [packets : Seq(PacketType),
                        min_priority : {0, HIGH, HIGHEST}]
  <1>1. PICK one \in {0, HIGH} : Dropped(queue, first, one) /\ first \in Queues
      BY CheckedOnce
  <1> HIDE DEF first
  <1>2. PICK two \in {0, HIGHEST} : Dropped(first, second, two)
      BY <1>1, CheckedOnce DEF Dropped
  <1> HIDE DEF second
  <1>3. PICK priority \in {0, HIGH, HIGHEST} :
           priority = IF one < two THEN two ELSE one
      BY DEF HIGH, HIGHEST
  <1>4. /\ one \in Nat /\ two \in Nat
        /\ queue.min_priority \in Nat /\ first.min_priority \in Nat
      BY <1>1 DEF HIGH, HIGHEST
  <1>5. \A p \in PacketsIn(queue.packets) : p.kind \in Nat
    <2>1. \A p \in PacketsIn(queue.packets) : p \in PacketType
        BY DEF PacketsIn
    <2>2. QED
        BY <2>1 DEF PacketType, Audio
  <1>6. PacketsIn(second.packets) =
            {p \in PacketsIn(queue.packets) : p.kind >= priority}
      BY <1>1, <1>2, <1>3, <1>4, <1>5 DEF Dropped
  <1>7. second.min_priority = IF queue.min_priority < priority THEN priority
                              ELSE queue.min_priority
      BY <1>1, <1>2, <1>3, <1>4 DEF Dropped
  <1>8. Len(second.packets) <= Len(queue.packets)
    <2>1. /\ Len(queue.packets) \in Nat /\ Len(first.packets) \in Nat
          /\ Len(second.packets) \in Nat
        BY <1>1, <1>2 DEF Dropped
    <2>2. QED
        BY <1>1, <1>2, <2>1 DEF Dropped
  <1>9. Dropped(queue, second, priority)
      BY <1>2, <1>6, <1>7, <1>8 DEF Dropped
  <1>10. QED
      BY <1>9 DEF first, second

-----------------------------------------------------------------------------
(* The send queue: steps that leave the queue alone                         *)

\* A thread without a packet has none in its hand.
LEMMA NothingInHand ==
  /\ Nothing \in PacketType
  /\ \A place : At(place) = [at |-> place, packet |-> Nothing]
  BY DEF Nothing, PacketType, Audio, At

\* The packets that wait are packets.
LEMMA LineTyped ==
  ASSUME QueueInv
  PROVE  \A q \in Line : q \in PacketType /\ q.dts \in Nat /\ q.kind \in 0 .. 4
  <1>1. packets \in Seq(PacketType)
      BY DEF QueueInv, QueueTyped
  <1>2. \A q \in Line : q \in PacketType
      BY <1>1 DEF Line, PacketsIn
  <1>3. QED
      BY <1>2 DEF PacketType, Audio

\* What the invariant says of the queue holds after a step that neither adds
\* a packet nor takes one, nor makes one.
LEMMA QueueLeftAlone ==
  ASSUME QueueInv, QueueTyped', Connected', PacketsHaveWakeups',
         UNCHANGED <<packets, min_priority, encoder, made>>,
         data'.at = "lock" \/ data.at = "lock" => data' = data,
         ~capture' => data'.at = "idle",
         Sending' => Sending /\ \A r : Gone(r) => Gone(r)',
         sender'.at = "taken" => sender'.packet.refs \subseteq sent'
  PROVE  QueueInv'
  <1>1. Line' = Line
      BY DEF Line
  <1>2. Sending' => \A r, k : Has(r, k) => Has(r, k)'
      BY <1>1 DEF Has
  <1>3. InOrder'
      BY <1>1 DEF QueueInv, InOrder
  <1>4. LineDecodable'
      BY <1>1, <1>2 DEF QueueInv, LineDecodable
  <1>5. NextDecodable'
      BY <1>2 DEF QueueInv, NextDecodable
  <1>6. EncoderDecodable'
      BY <1>2 DEF QueueInv, EncoderDecodable
  <1>7. QED
      BY <1>3, <1>4, <1>5, <1>6 DEF QueueInv

\* os_sem_post, after the mutex: the wake-up that was owed.
LEMMA PostKept ==
  ASSUME QueueInv, Post
  PROVE  QueueInv'
  <1>1. QueueTyped'
      BY DEF QueueInv, QueueTyped, Post, queueVars, stopVars, encoderVars, At,
             Nothing, PacketType, Audio
  <1>2. PacketsHaveWakeups'
      BY DEF QueueInv, QueueTyped, PacketsHaveWakeups, Post, queueVars, At
  <1>3. Connected'
      BY DEF QueueInv, Connected, Sending, Post
  <1>4. \A r : Gone(r) => Gone(r)'
      BY DEF Gone, Post
  <1>5. QED
      BY <1>1, <1>2, <1>3, <1>4, QueueLeftAlone
      DEF QueueInv, LineDecodable, Sending, Post, queueVars, encoderVars, At

\* The send thread takes a wake-up: it goes on, or it is told to end at once.
LEMMA WakeKept ==
  ASSUME QueueInv, Wake
  PROVE  QueueInv'
  <1>1. QueueTyped'
      BY DEF QueueInv, QueueTyped, Wake, queueVars, stopVars, encoderVars, At,
             Nothing, PacketType, Audio
  <1>2. PacketsHaveWakeups'
      BY DEF QueueInv, QueueTyped, PacketsHaveWakeups, Wake, queueVars, At
  <1>3. Connected'
      BY DEF QueueInv, Connected, Sending, Wake, At
  <1>4. \A r : Gone(r) => Gone(r)'
      BY DEF Gone, Wake, At
  <1>5. QED
      BY <1>1, <1>2, <1>3, <1>4, QueueLeftAlone
      DEF QueueInv, InOrder, Sending, Wake, queueVars, encoderVars, At

\* The packet is sent: what refers to it may be, too.  Or it cannot be sent,
\* and nothing is sent after it.
LEMMA SendPacketKept ==
  ASSUME QueueInv, SendPacket
  PROVE  QueueInv'
  <1>1. QueueTyped'
    <2>1. sender.packet \in PacketType
        BY DEF QueueInv, QueueTyped
    <2>2. sent' \in SUBSET Nat
        BY <2>1 DEF QueueInv, QueueTyped, SendPacket, PacketType
    <2>3. sender' \in [at : {"wait", "ending"}, packet : PacketType]
        BY NothingInHand DEF SendPacket
    <2>4. QED
        BY <2>2, <2>3
        DEF QueueInv, QueueTyped, SendPacket, queueVars, stopVars, encoderVars
  <1>2. PacketsHaveWakeups'
      BY DEF QueueInv, QueueTyped, PacketsHaveWakeups, SendPacket, queueVars, At
  <1>3. Connected'
      BY DEF QueueInv, Connected, Sending, SendPacket, At
  <1>4. Sending' => \A r : Gone(r) => Gone(r)'
      BY DEF Gone, SendPacket, At, Sending
  <1>5. QED
      BY <1>1, <1>2, <1>3, <1>4, QueueLeftAlone
      DEF QueueInv, InOrder, Sending, SendPacket, queueVars, encoderVars, At

\* The other steps to the end of the send thread.
LEMMA EndKept ==
  ASSUME QueueInv, Shutdown \/ ReportEnd \/ EndSending
  PROVE  QueueInv'
  <1>1. QueueTyped'
    <2>1. sender' \in [at : {"ending", "free", "none"}, packet : PacketType]
        BY NothingInHand DEF Shutdown, ReportEnd, EndSending
    <2>2. QED
        BY <2>1
        DEF QueueInv, QueueTyped, Shutdown, ReportEnd, EndSending, queueVars,
            stopVars, encoderVars
  <1>2. ~Sending' /\ PacketsHaveWakeups' /\ Connected'
      BY DEF PacketsHaveWakeups, Connected, Sending, Shutdown, ReportEnd,
             EndSending, At
  <1>3. QED
      BY <1>1, <1>2, QueueLeftAlone
      DEF QueueInv, InOrder, Sending, Shutdown, ReportEnd, EndSending,
          queueVars, encoderVars, At

\* The packets that are left are freed, when nothing is sent any more.
LEMMA FreePacketsKept ==
  ASSUME QueueInv, FreePackets
  PROVE  QueueInv'
  <1>1. QueueTyped'
      BY DEF QueueInv, QueueTyped, FreePackets, stopVars, encoderVars, At,
             Nothing, PacketType, Audio
  <1>2. ~Sending' /\ PacketsHaveWakeups' /\ Connected' /\ sender'.at = "close"
      BY DEF PacketsHaveWakeups, Connected, Sending, FreePackets, At
  <1>3. Line' = {} /\ Sorted(packets')
      BY DEF FreePackets, Line, PacketsIn, Sorted
  <1>4. InOrder'
      BY <1>3 DEF QueueInv, InOrder, FreePackets, encoderVars
  <1>5. LineDecodable' /\ EncoderDecodable'
      BY <1>2, <1>3 DEF LineDecodable, EncoderDecodable
  <1>6. NextDecodable'
      BY <1>2 DEF QueueInv, NextDecodable, FreePackets
  <1>7. QED
      BY <1>1, <1>2, <1>4, <1>5, <1>6 DEF QueueInv

\* A new connection begins with an empty queue and a keyframe.
LEMMA ConnectKept ==
  ASSUME QueueInv, Connect
  PROVE  QueueInv'
  <1>1. QueueTyped'
    <2>1. sender' \in [at : {"none", "wait", "awake", "taken", "ending",
                             "free", "close"}, packet : PacketType]
        BY NothingInHand DEF Connect
    <2>2. encoder' \in [next : 1 .. Len(Group), anchor : Nat, low : Nat]
      <3>1. Len(Group) \in Nat \ {0}
          BY RtmpQueueAssumption
      <3>2. QED
          BY <3>1 DEF Connect, NoFrames
    <2>3. packets' \in Seq(PacketType) /\ sent' \in SUBSET Nat
        BY DEF Connect
    <2>4. /\ last_dts' = last_dts /\ made' = made /\ data' = data
          /\ UNCHANGED <<rtmp_stop_event, stop_ts>>
          /\ send_sem' = 0 /\ min_priority' = 0 /\ capture' = TRUE
          /\ disconnected' = FALSE /\ rtmp_active' = TRUE
          /\ connections' = connections + 1
        BY DEF Connect, stopVars
    <2>5. /\ data' \in [at : {"idle", "lock", "post"}, packet : PacketType]
          /\ last_dts' \in Nat /\ made' \in Nat /\ connections' \in Nat
          /\ rtmp_stop_event' \in BOOLEAN /\ stop_ts' \in Nat
        BY <2>4 DEF QueueInv, QueueTyped
    <2>6. QED
        BY <2>1, <2>2, <2>3, <2>4, <2>5 DEF QueueTyped
  <1>2. PacketsHaveWakeups' /\ Connected'
      BY DEF PacketsHaveWakeups, Connected, Connect, At
  <1>3. Line' = {} /\ Sorted(packets')
      BY DEF Connect, Line, PacketsIn, Sorted
  <1>4. data' = data /\ data.at = "idle"
      BY DEF Connect, QueueInv, InOrder
  <1>5. InOrder'
      BY <1>3, <1>4
      DEF QueueInv, QueueTyped, InOrder, Connect, NoFrames, queueVars
  <1>6. LineDecodable' /\ NextDecodable' /\ EncoderDecodable'
      BY <1>3, <1>4
      DEF LineDecodable, NextDecodable, EncoderDecodable, Connect, NoFrames, At
  <1>7. QED
      BY <1>1, <1>2, <1>5, <1>6 DEF QueueInv

\* The callbacks are taken off, or the user stops the stream.
LEMMA OutputKept ==
  ASSUME QueueInv, CaptureEnds \/ RtmpStops
  PROVE  QueueInv'
  <1>1. /\ UNCHANGED <<packets, min_priority, last_dts, disconnected,
                       rtmp_active, data, sender, encoder, made, connections,
                       sent>>
        /\ send_sem' \in {send_sem, send_sem + 1}
        /\ \/ UNCHANGED capture
           \/ data.at = "idle" /\ capture' = FALSE
        /\ rtmp_stop_event' \in BOOLEAN /\ stop_ts' \in Nat
    <2>1. CASE CaptureEnds
        BY <2>1
        DEF CaptureEnds, queueVars, stopVars, encoderVars, QueueInv, QueueTyped
    <2>2. ASSUME NEW ts \in Nat, RtmpStop(ts)
          PROVE  /\ UNCHANGED <<packets, min_priority, last_dts, disconnected,
                                rtmp_active, data, sender, encoder, made,
                                connections, sent, capture>>
                 /\ send_sem' \in {send_sem, send_sem + 1}
                 /\ rtmp_stop_event' = TRUE /\ stop_ts' = ts
        BY <2>2 DEF RtmpStop, queueVars, encoderVars
    <2>3. CASE RtmpStops
      <3>1. made + 1 \in Nat /\ 0 \in Nat
          BY DEF QueueInv, QueueTyped
      <3>2. PICK ts \in Nat : RtmpStop(ts)
          BY <2>3, <3>1, Zenon DEF RtmpStops
      <3>3. QED
          BY <2>2, <3>2
    <2>4. QED
        BY <2>1, <2>3
  <1>2. QueueTyped'
    <2>1. send_sem' \in Nat
        BY <1>1 DEF QueueInv, QueueTyped
    <2>2. capture' \in BOOLEAN
        BY <1>1, Zenon DEF QueueInv, QueueTyped
    <2>3. QED
        BY <1>1, <2>1, <2>2 DEF QueueInv, QueueTyped
  <1>3. PacketsHaveWakeups' /\ Connected'
      BY <1>1
      DEF QueueInv, QueueTyped, PacketsHaveWakeups, Connected, Sending
  <1>4. \A r : Gone(r) => Gone(r)'
      BY <1>1 DEF Gone
  <1>5. QED
      BY <1>1, <1>2, <1>3, <1>4, QueueLeftAlone
      DEF QueueInv, InOrder, LineDecodable, Sending

-----------------------------------------------------------------------------
(* The send queue: a packet is made, added and taken                        *)

\* What a frame refers to is older than it is, and while the encoder's frames
\* are sent it was sent or waits.
LEMMA StreamDataKept ==
  ASSUME QueueInv, StreamData
  PROVE  QueueInv'
  <1> DEFINE kind == Group[encoder.next]
             p == [kind |-> kind, dts |-> made + 1, refs |-> References(kind)]
  <1>1. /\ data.at = "idle" /\ capture /\ made' = made + 1
        /\ encoder' = NextFrames(kind, made + 1)
        /\ data' = IF disconnected \/ ~rtmp_active THEN data
                   ELSE With("lock", p)
        /\ UNCHANGED <<packets, min_priority, last_dts, send_sem, disconnected,
                       rtmp_active, rtmp_stop_event, stop_ts, sender, capture,
                       connections, sent>>
      BY DEF StreamData, queueVars, stopVars
  <1>2. /\ made \in Nat /\ encoder.anchor \in Nat /\ encoder.low \in Nat
        /\ encoder.anchor <= made /\ encoder.low <= made
        /\ encoder.next \in 1 .. Len(Group) /\ Len(Group) \in Nat
        /\ encoder \in [next : 1 .. Len(Group), anchor : Nat, low : Nat]
      BY RtmpQueueAssumption DEF QueueInv, QueueTyped, InOrder
  <1>3. kind \in 0 .. 4 /\ (encoder.anchor = 0 => kind = HIGHEST)
      BY <1>2, RtmpQueueAssumption
      DEF QueueInv, InOrder, DISPOSABLE, Audio, HIGHEST
  <1>4. PICK refs : refs = References(kind)
      OBVIOUS
  <1>5. /\ kind \in {HIGHEST, Audio} => refs = {}
        /\ kind \in {HIGH, LOW} => refs = {encoder.anchor}
        /\ kind = DISPOSABLE => refs = {encoder.anchor, encoder.low} \ {0}
      BY <1>4
      DEF References, HIGHEST, HIGH, LOW, DISPOSABLE, Audio
  <1>6. refs \in SUBSET Nat /\ \A r \in refs : r < made + 1
      BY <1>2, <1>3, <1>5 DEF HIGHEST, HIGH, LOW, DISPOSABLE, Audio
  <1>7. /\ encoder'.next \in 1 .. Len(Group)
        /\ encoder'.anchor = IF kind \in {HIGH, HIGHEST} THEN made + 1
                             ELSE encoder.anchor
        /\ kind \in {HIGH, HIGHEST} => encoder'.low = 0
        /\ encoder'.low \in {0, made + 1, encoder.low}
        /\ encoder'.low = made + 1 => kind = LOW
        /\ encoder'.next = 1 => encoder.next = Len(Group) \/ encoder.next = 1
        /\ encoder' = [next |-> encoder'.next, anchor |-> encoder'.anchor,
                       low |-> encoder'.low]
      BY <1>1, <1>2, <1>3
      DEF NextFrames, HIGHEST, HIGH, LOW
  <1> HIDE DEF kind
  <1>8. p \in PacketType
      BY <1>2, <1>3, <1>4, <1>6 DEF PacketType, Audio
  <1>9. p.kind = kind /\ p.dts = made + 1 /\ p.refs = refs
      BY <1>4
  <1> HIDE DEF p
  <1>10. data'.at = "lock" => data'.packet = p
      BY <1>1 DEF With
  <1>11. Sending => data' = [at |-> "lock", packet |-> p]
      BY <1>1 DEF QueueInv, Connected, With
  <1>12. /\ Line' = Line /\ Sending' = Sending
         /\ \A r, k : Has(r, k) => Has(r, k)'
      BY <1>1 DEF Line, Sending, Has, Gone
  <1>13. QueueTyped'
    <2>1. encoder' \in [next : 1 .. Len(Group), anchor : Nat, low : Nat]
        BY <1>2, <1>7
    <2>2. data' \in [at : {"idle", "lock", "post"}, packet : PacketType]
        BY <1>1, <1>8 DEF QueueInv, QueueTyped, With
    <2>3. QED
        BY <1>1, <1>2, <2>1, <2>2 DEF QueueInv, QueueTyped
  <1>14. InOrder'
    <2>1. Sorted(packets)' /\ \A q \in Line : q.dts <= made
        BY <1>1 DEF QueueInv, InOrder
    <2>2. \A q \in Line : q.dts \in Nat
        BY LineTyped
    <2>3. \A q \in Line : q.dts < made + 1
        BY <1>2, <2>1, <2>2
    <2>4. encoder'.anchor <= made + 1 /\ encoder'.low <= made + 1
        BY <1>2, <1>7
    <2>5. encoder'.anchor # 0
        BY <1>2, <1>3, <1>7
    <2>6. \A q \in Line : q.dts <= made + 1
        BY <1>2, <2>2, <2>3
    <2>7. QED
        BY <1>1, <1>9, <1>10, <1>12, <2>1, <2>3, <2>4, <2>5, <2>6 DEF InOrder
  <1>15. LineDecodable'
      BY <1>1, <1>12 DEF QueueInv, LineDecodable
  <1>16. Sending /\ min_priority <= HIGH /\ encoder.anchor # 0 =>
             Has(encoder.anchor, HIGH) /\ Has(encoder.anchor, 0)
    <2>1. \A q \in Line : q.kind >= HIGH => q.kind >= 0
        BY LineTyped DEF HIGH
    <2>2. QED
        BY <1>1, <2>1 DEF QueueInv, EncoderDecodable, Has
  <1>17. Sending /\ min_priority = 0 /\ encoder.low # 0 => Has(encoder.low, 0)
      BY <1>1 DEF QueueInv, EncoderDecodable
  <1>18. NextDecodable'
    <2>1. Earlier(p)
      <3>1. \A r \in p.refs : r < p.dts
          BY <1>6, <1>9
      <3>2. kind >= HIGHEST => kind \in {HIGHEST, Audio}
          BY <1>3 DEF HIGHEST, Audio
      <3>3. QED
          BY <1>5, <1>9, <3>1, <3>2 DEF Earlier
    <2>2. Sending /\ kind = HIGH /\ min_priority <= HIGH =>
              \A r \in refs : Has(r, HIGH)
        BY <1>3, <1>5, <1>16 DEF HIGH, HIGHEST
    <2>3. Sending /\ kind < HIGH /\ min_priority = 0 =>
              \A r \in refs : Has(r, 0)
        BY <1>3, <1>5, <1>16, <1>17 DEF HIGH, HIGHEST, LOW, DISPOSABLE
    <2>4. QED
        BY <1>1, <1>9, <1>10, <1>12, <2>1, <2>2, <2>3 DEF NextDecodable
  <1>19. EncoderDecodable'
    <2>1. Sending /\ min_priority <= HIGH /\ encoder'.anchor # 0 =>
              \/ Has(encoder'.anchor, HIGH)
              \/ kind >= HIGH /\ encoder'.anchor = made + 1
        BY <1>7, <1>16 DEF HIGH, HIGHEST
    <2>2. Sending /\ min_priority = 0 /\ encoder'.low # 0 =>
              Has(encoder'.low, 0) \/ encoder'.low = made + 1
        BY <1>7, <1>17
    <2>3. \A r, k : Sending => (Has(r, k) => Has(r, k)')
        BY <1>12
    <2>4. QED
        BY <1>1, <1>7, <1>9, <1>11, <1>12, <2>1, <2>2, <2>3
        DEF EncoderDecodable
  <1>20. PacketsHaveWakeups' /\ Connected'
      BY <1>1, <1>12 DEF QueueInv, PacketsHaveWakeups, Connected, With
  <1>21. QED
      BY <1>13, <1>14, <1>15, <1>18, <1>19, <1>20 DEF QueueInv

\* get_next_packet: nothing in front of the packet waits any more.
LEMMA GetNextPacketKept ==
  ASSUME QueueInv, GetNextPacket
  PROVE  QueueInv'
  <1>1. /\ sender.at = "awake" /\ Sending
        /\ UNCHANGED <<min_priority, last_dts, send_sem, disconnected,
                       rtmp_active, rtmp_stop_event, stop_ts, data, capture,
                       encoder, made, connections, sent>>
      BY DEF GetNextPacket, stopVars, encoderVars, Sending
  <1>2. CASE packets = <<>>
    <2>1. packets' = packets /\ sender' = At("wait")
        BY <1>2 DEF GetNextPacket
    <2>2. QueueTyped'
        BY <1>1, <2>1, NothingInHand DEF QueueInv, QueueTyped
    <2>3. PacketsHaveWakeups'
      <3>1. Len(packets) = 0 /\ send_sem \in Nat
          BY <1>2 DEF QueueInv, QueueTyped
      <3>2. QED
          BY <1>1, <2>1, <3>1 DEF PacketsHaveWakeups, At
    <2>4. Connected' /\ \A r : Gone(r) => Gone(r)'
        BY <1>1, <2>1 DEF QueueInv, Connected, Gone
    <2>5. QED
        BY <1>1, <2>1, <2>2, <2>3, <2>4, QueueLeftAlone
        DEF QueueInv, InOrder, At
  <1>3. CASE packets # <<>>
    <2> DEFINE p == Head(packets)
    <2>1. packets' = Tail(packets) /\ sender' = [at |-> "taken", packet |-> p]
        BY <1>3 DEF GetNextPacket, With
    <2>2. packets \in Seq(PacketType) /\ Sorted(packets)
        BY DEF QueueInv, QueueTyped, InOrder
    <2>3. /\ p \in Line /\ p \in PacketType
          /\ Sorted(packets') /\ Line = Line' \cup {p}
          /\ \A q \in Line' : p.dts < q.dts
          /\ packets' \in Seq(PacketType) /\ Len(packets') = Len(packets) - 1
        BY <1>3, <2>1, <2>2, PacketTaken DEF Line
    <2> HIDE DEF p
    <2>4. \A q \in Line : q.dts \in Nat /\ q.kind \in Nat
        BY LineTyped
    <2>5. \A r, k : Has(r, k) => Has(r, k)'
        BY <1>1, <2>1, <2>3 DEF Has, Gone
    <2>6. p.refs \subseteq sent
      <3>1. SUFFICES ASSUME NEW r \in p.refs PROVE r \in sent
          OBVIOUS
      <3>2. r < p.dts
          BY <2>3 DEF QueueInv, LineDecodable, Earlier
      <3>3. \A q \in Line : q.dts # r
          BY <2>3, <2>4, <3>2
      <3>4. Gone(r)
          BY <1>1, <2>3, <3>3 DEF QueueInv, LineDecodable, Has
      <3>5. QED
          BY <1>1, <3>4 DEF Gone
    <2>7. QueueTyped'
        BY <1>1, <2>1, <2>3 DEF QueueInv, QueueTyped
    <2>8. InOrder'
        BY <1>1, <2>3 DEF QueueInv, InOrder
    <2>9. LineDecodable'
        BY <1>1, <2>1, <2>3, <2>5, <2>6 DEF QueueInv, LineDecodable
    <2>10. NextDecodable'
        BY <1>1, <2>5 DEF QueueInv, NextDecodable
    <2>11. EncoderDecodable'
        BY <1>1, <2>5 DEF QueueInv, EncoderDecodable
    <2>12. Connected'
        BY <1>1 DEF QueueInv, Connected
    <2>13. PacketsHaveWakeups'
      <3>1. Len(packets) \in Nat /\ send_sem \in Nat
          BY DEF QueueInv, QueueTyped
      <3>2. QED
          BY <1>1, <2>1, <2>3, <3>1 DEF QueueInv, PacketsHaveWakeups
    <2>14. QED
        BY <2>7, <2>8, <2>9, <2>10, <2>11, <2>12, <2>13 DEF QueueInv
  <1>4. QED
      BY <1>2, <1>3

\* A packet is added, after frames were dropped or not: `priority' is the one
\* below which they were.
LEMMA PacketAdded ==
  ASSUME QueueInv, data.at = "lock", ~disconnected,
         NEW p, p = data.packet, NEW priority \in {0, HIGH, HIGHEST},
         NEW queue \in Seq(PacketType), Sorted(queue),
         Len(queue) <= Len(packets),
         PacketsIn(queue) = {q \in Line : q.kind >= priority},
         packets' = Append(queue, p), data' = At("post"),
         \/ p.kind = Audio /\ priority = 0 /\ min_priority' = min_priority
         \/ /\ p.kind # Audio /\ min_priority' = 0
            /\ p.kind >= priority /\ p.kind >= min_priority,
         last_dts' \in Nat,
         UNCHANGED <<send_sem, disconnected, rtmp_active, rtmp_stop_event,
                     stop_ts, sender, capture, encoder, made, connections,
                     sent>>
  PROVE  QueueInv'
  <1>1. /\ p \in PacketType /\ p.dts = made /\ \A q \in Line : q.dts < made
      BY DEF QueueInv, QueueTyped, InOrder
  <1>2. /\ packets' \in Seq(PacketType) /\ Sorted(packets')
        /\ Line' = PacketsIn(queue) \cup {p}
        /\ Len(packets') = Len(queue) + 1
      BY <1>1, PacketAppended DEF Line
  <1>3. /\ p.kind \in 0 .. 4 /\ min_priority \in {0, HIGH, HIGHEST}
        /\ \A q \in Line : q.kind \in 0 .. 4
        /\ made \in Nat /\ p.dts \in Nat
    <2>1. min_priority \in {0, HIGH, HIGHEST} /\ made \in Nat
        BY DEF QueueInv, QueueTyped
    <2>2. QED
        BY <1>1, <2>1, LineTyped DEF PacketType, Audio
  <1>4. Sending' = Sending /\ \A r : Gone(r)' = Gone(r)
      BY DEF Sending, Gone
  <1>5. \A r, k :
           (\E q \in Line : q.dts = r /\ q.kind >= k /\ q.kind >= priority)
               => Has(r, k)'
      BY <1>2 DEF Has
  <1>6. ASSUME NEW r, NEW k \in {0, HIGH}, Has(r, k), priority <= k
        PROVE  Has(r, k)'
    <2>1. k \in Nat /\ priority \in Nat
        BY DEF HIGH, HIGHEST
    <2>2. CASE Gone(r)
        BY <1>4, <2>2 DEF Has
    <2>3. ASSUME NEW q \in Line, q.dts = r, q.kind >= k PROVE Has(r, k)'
        BY <1>3, <1>5, <1>6, <2>1, <2>3
    <2>4. QED
        BY <1>6, <2>2, <2>3 DEF Has
  <1>7. ASSUME NEW r, NEW k \in {0, HIGH}, p.dts = r, p.kind >= k
        PROVE  Has(r, k)'
      BY <1>2, <1>7 DEF Has
  <1>8. QueueTyped'
    <2>1. min_priority' \in {0, HIGH, HIGHEST}
        BY <1>3
    <2>2. QED
        BY <1>2, <2>1, NothingInHand DEF QueueInv, QueueTyped
  <1>9. InOrder'
    <2>1. \A q \in Line' : q.dts <= made
        BY <1>1, <1>2, <1>3 DEF QueueInv, InOrder
    <2>2. QED
        BY <1>2, <2>1 DEF QueueInv, InOrder, At
  <1>10. LineDecodable'
    <2>1. \A q \in Line' : Earlier(q)
        BY <1>2 DEF QueueInv, LineDecodable, NextDecodable
    <2>2. ASSUME Sending, NEW q \in Line', NEW r \in q.refs
          PROVE  Has(r, IF q.kind >= HIGH THEN HIGH ELSE 0)'
      <3>1. CASE q \in Line /\ q.kind >= priority
        <4>1. Has(r, IF q.kind >= HIGH THEN HIGH ELSE 0)
            BY <2>2, <3>1 DEF QueueInv, LineDecodable
        <4>2. CASE q.kind >= HIGHEST
            BY <2>1, <2>2, <4>2 DEF Earlier
        <4>3. CASE ~(q.kind >= HIGHEST) /\ q.kind >= HIGH
          <5>1. priority <= HIGH
              BY <1>3, <3>1, <4>3 DEF HIGH, HIGHEST
          <5>2. QED
              BY <1>6, <4>1, <4>3, <5>1
        <4>4. CASE ~(q.kind >= HIGH)
          <5>1. priority <= 0
              BY <1>3, <3>1, <4>4 DEF HIGH, HIGHEST
          <5>2. QED
              BY <1>6, <4>1, <4>4, <5>1
        <4>5. QED
            BY <4>2, <4>3, <4>4
      <3>2. CASE q = p
        <4>1. CASE p.kind >= HIGHEST
            BY <2>1, <2>2, <3>2, <4>1 DEF Earlier
        <4>2. CASE p.kind = HIGH
          <5>1. min_priority <= HIGH /\ priority <= HIGH
              BY <1>3, <4>2 DEF HIGH, HIGHEST, Audio
          <5>2. Has(r, HIGH)
              BY <2>2, <3>2, <4>2, <5>1 DEF QueueInv, NextDecodable
          <5>3. Has(r, HIGH)'
              BY <1>6, <5>1, <5>2
          <5>4. QED
              BY <3>2, <4>2, <5>3 DEF HIGH
        <4>3. CASE p.kind < HIGH
          <5>1. min_priority = 0 /\ priority <= 0
              BY <1>3, <4>3 DEF HIGH, HIGHEST, Audio
          <5>2. Has(r, 0)
              BY <2>2, <3>2, <4>3, <5>1 DEF QueueInv, NextDecodable
          <5>3. Has(r, 0)'
              BY <1>6, <5>1, <5>2
          <5>4. QED
              BY <1>3, <3>2, <4>3, <5>3 DEF HIGH
        <4>4. QED
            BY <1>3, <4>1, <4>2, <4>3 DEF HIGH, HIGHEST
      <3>3. QED
          BY <1>2, <3>1, <3>2
    <2>3. QED
        BY <1>4, <2>1, <2>2 DEF QueueInv, LineDecodable
  <1>11. NextDecodable'
      BY DEF NextDecodable, At
  <1>12. EncoderDecodable'
    <2>1. ASSUME Sending, min_priority' <= HIGH, encoder.anchor # 0
          PROVE  Has(encoder.anchor, HIGH)'
      <3>1. CASE p.kind >= HIGH /\ encoder.anchor = p.dts
          BY <1>7, <3>1
      <3>2. CASE ~(p.kind >= HIGH /\ encoder.anchor = p.dts)
        <4>1. min_priority <= HIGH /\ priority <= HIGH
            BY <1>3, <2>1, <3>2
            DEF QueueInv, EncoderDecodable, HIGH, HIGHEST, Audio
        <4>2. Has(encoder.anchor, HIGH)
            BY <2>1, <3>2, <4>1 DEF QueueInv, EncoderDecodable
        <4>3. QED
            BY <1>6, <4>1, <4>2
      <3>3. QED
          BY <3>1, <3>2
    <2>2. ASSUME Sending, min_priority' = 0, encoder.low # 0
          PROVE  Has(encoder.low, 0)'
      <3>1. min_priority = 0 /\ priority <= 0
          BY <1>3, <2>2 DEF QueueInv, EncoderDecodable, HIGH, HIGHEST, Audio
      <3>2. Has(encoder.low, 0) \/ encoder.low = p.dts
          BY <2>2, <3>1 DEF QueueInv, EncoderDecodable
      <3>3. p.kind >= 0
          BY <1>3
      <3>4. QED
          BY <1>6, <1>7, <3>1, <3>2, <3>3
    <2>3. QED
        BY <1>4, <2>1, <2>2 DEF EncoderDecodable, At
  <1>13. PacketsHaveWakeups'
    <2>1. /\ Len(packets) \in Nat /\ send_sem \in Nat /\ Len(queue) \in Nat
        BY DEF QueueInv, QueueTyped
    <2>2. QED
        BY <1>2, <2>1 DEF QueueInv, PacketsHaveWakeups, At
  <1>14. Connected'
      BY <1>4 DEF QueueInv, Connected
  <1>15. QED
      BY <1>8, <1>9, <1>10, <1>11, <1>12, <1>13, <1>14 DEF QueueInv

\* What rtmp_stream_data does under the mutex.
LEMMA AddPacketKept ==
  ASSUME QueueInv, AddPacket
  PROVE  QueueInv'
  <1> DEFINE p == data.packet
  <1>1. /\ data.at = "lock" /\ p \in PacketType
        /\ packets \in Seq(PacketType) /\ Sorted(packets)
        /\ min_priority \in {0, HIGH, HIGHEST} /\ last_dts \in Nat
        /\ p.dts \in Nat /\ p.kind \in 0 .. 4 /\ Len(packets) \in Nat
        /\ UNCHANGED <<send_sem, disconnected, rtmp_active, rtmp_stop_event,
                       stop_ts, sender, capture, encoder, made, connections,
                       sent>>
      BY DEF QueueInv, QueueTyped, InOrder, AddPacket, stopVars, encoderVars,
             PacketType, Audio
  <1>2. CASE /\ disconnected /\ data' = At("idle")
             /\ UNCHANGED <<packets, min_priority, last_dts>>
    <2>1. ~Sending /\ ~Sending'
        BY <1>1, <1>2 DEF QueueInv, Connected, Sending
    <2>2. QueueTyped'
        BY <1>1, <1>2, NothingInHand DEF QueueInv, QueueTyped
    <2>3. Line' = Line
        BY <1>2 DEF Line
    <2>4. InOrder' /\ LineDecodable'
        BY <1>1, <1>2, <2>1, <2>3
        DEF QueueInv, InOrder, LineDecodable, Sending, At
    <2>5. /\ NextDecodable' /\ EncoderDecodable' /\ PacketsHaveWakeups'
          /\ Connected'
        BY <1>2, <2>1
        DEF NextDecodable, EncoderDecodable, PacketsHaveWakeups, Connected,
            Sending, At
    <2>6. QED
        BY <2>2, <2>4, <2>5 DEF QueueInv
  <1>3. CASE ~disconnected /\ p.kind = Audio /\ AddAudioPacket(p)
    <2>1. /\ packets' = Append(packets, p) /\ data' = At("post")
          /\ min_priority' = min_priority /\ last_dts' = last_dts
        BY <1>3 DEF AddAudioPacket
    <2>2. PacketsIn(packets) = {q \in Line : q.kind >= 0}
      <3>1. \A q \in Line : q.kind >= 0
          BY LineTyped
      <3>2. QED
          BY <3>1 DEF Line
    <2>3. Len(packets) <= Len(packets)
        BY <1>1
    <2> HIDE DEF p
    <2>4. QED
        BY <1>1, <1>3, <2>1, <2>2, <2>3, PacketAdded DEF p
  <1>4. CASE ~disconnected /\ p.kind # Audio /\ AddVideoPacket(p)
    <2> DEFINE before == [packets |-> packets, min_priority |-> min_priority]
               queue ==
                   CheckToDropFrames(CheckToDropFrames(before, FALSE), TRUE)
    <2>1. /\ before \in [packets : Seq(PacketType),
                         min_priority : {0, HIGH, HIGHEST}]
          /\ before.packets = packets /\ before.min_priority = min_priority
        BY <1>1
    <2>2. \/ /\ p.kind < queue.min_priority
             /\ packets' = queue.packets
             /\ min_priority' = queue.min_priority
             /\ data' = At("idle") /\ last_dts' = last_dts
          \/ /\ ~(p.kind < queue.min_priority)
             /\ packets' = Append(queue.packets, p)
             /\ min_priority' = 0
             /\ data' = At("post") /\ last_dts' = p.dts
        BY <1>4 DEF AddVideoPacket
    <2> HIDE DEF before
    <2>3. PICK priority \in {0, HIGH, HIGHEST} :
                   Dropped(before, queue, priority)
        BY <1>1, <2>1, QueueChecked
    <2> HIDE DEF queue
    <2>4. /\ queue.packets \in Seq(PacketType) /\ Sorted(queue.packets)
          /\ Len(queue.packets) <= Len(packets)
          /\ PacketsIn(queue.packets) = {q \in Line : q.kind >= priority}
          /\ queue.min_priority = IF min_priority < priority THEN priority
                                  ELSE min_priority
        BY <2>1, <2>3 DEF Dropped, Line
    <2>5. priority \in Nat /\ min_priority \in Nat /\ p.kind \in Nat
        BY <1>1 DEF HIGH, HIGHEST
    <2>6. CASE /\ ~(p.kind < queue.min_priority)
               /\ packets' = Append(queue.packets, p)
               /\ min_priority' = 0
               /\ data' = At("post") /\ last_dts' = p.dts
      <3>1. p.kind >= priority /\ p.kind >= min_priority
          BY <2>4, <2>5, <2>6
      <3> HIDE DEF p
      <3>2. QED
          BY <1>1, <1>4, <2>4, <2>6, <3>1, PacketAdded DEF p
    <2>7. CASE /\ p.kind < queue.min_priority
               /\ packets' = queue.packets
               /\ min_priority' = queue.min_priority
               /\ data' = At("idle") /\ last_dts' = last_dts
      <3>1. Line' = {q \in Line : q.kind >= priority}
          BY <2>4, <2>7 DEF Line
      <3>2. Sending' = Sending /\ \A r : Gone(r)' = Gone(r)
          BY <1>1 DEF Sending, Gone
      <3>3. ASSUME NEW r, Has(r, HIGH), priority <= HIGH PROVE Has(r, HIGH)'
        <4>1. \A q \in Line : q.kind >= HIGH => q.kind >= priority
            BY <2>5, <3>3, LineTyped DEF HIGH
        <4>2. QED
            BY <3>1, <3>2, <3>3, <4>1 DEF Has
      <3>4. QueueTyped'
        <4>1. min_priority' \in {0, HIGH, HIGHEST}
            BY <1>1, <2>4, <2>7
        <4>2. packets' \in Seq(PacketType) /\ last_dts' \in Nat
            BY <1>1, <2>4, <2>7
        <4>3. QED
            BY <1>1, <2>7, <4>1, <4>2, NothingInHand DEF QueueInv, QueueTyped
      <3>5. InOrder'
          BY <1>1, <2>4, <2>7, <3>1 DEF QueueInv, InOrder, At
      <3>6. LineDecodable'
        <4>1. \A q \in Line' : Earlier(q)
            BY <3>1 DEF QueueInv, LineDecodable
        <4>2. ASSUME Sending, NEW q \in Line', NEW r \in q.refs
              PROVE  Has(r, IF q.kind >= HIGH THEN HIGH ELSE 0)'
          <5>1. /\ q \in Line /\ q.kind >= priority /\ q.kind \in Nat
                /\ Has(r, IF q.kind >= HIGH THEN HIGH ELSE 0)
              BY <3>1, <4>2, LineTyped DEF QueueInv, LineDecodable
          <5>2. CASE priority = HIGHEST
              BY <4>1, <4>2, <5>1, <5>2 DEF Earlier
          <5>3. CASE priority = HIGH
            <6>1. q.kind >= HIGH /\ priority <= HIGH
                BY <5>1, <5>3 DEF HIGH
            <6>2. Has(r, HIGH)'
                BY <3>3, <5>1, <6>1
            <6>3. QED
                BY <6>1, <6>2
          <5>4. CASE priority = 0
            <6>1. Line' = Line
                BY <3>1, <5>4, LineTyped
            <6>2. \A k : Has(r, k)' = Has(r, k)
                BY <3>2, <6>1 DEF Has
            <6>3. QED
                BY <5>1, <6>2
          <5>5. QED
              BY <5>2, <5>3, <5>4
        <4>3. QED
            BY <1>1, <3>2, <4>1, <4>2 DEF QueueInv, LineDecodable
      <3>7. NextDecodable'
          BY <2>7 DEF NextDecodable, At
      <3>8. queue.min_priority \in {HIGH, HIGHEST}
          BY <1>1, <2>4, <2>5, <2>7
      <3>9. EncoderDecodable'
        <4>1. ASSUME Sending, min_priority' <= HIGH, encoder.anchor # 0
              PROVE  Has(encoder.anchor, HIGH)'
          <5>1. queue.min_priority = HIGH /\ p.kind < HIGH
              BY <2>7, <3>8, <4>1 DEF HIGH, HIGHEST
          <5>2. min_priority <= HIGH /\ priority <= HIGH /\ ~(p.kind >= HIGH)
              BY <1>1, <2>4, <2>5, <5>1 DEF HIGH, HIGHEST
          <5>3. PICK a : a = encoder.anchor
              OBVIOUS
          <5>4. encoder' = encoder
              BY <1>1
          <5>5. Has(a, HIGH)
            <6>1. Sending /\ min_priority <= HIGH /\ encoder.anchor # 0
                BY <4>1, <5>2
            <6>2. ~(data.packet.kind >= HIGH)
                BY <5>2 DEF p
            <6>3. Has(encoder.anchor, HIGH)
                BY <6>1, <6>2 DEF QueueInv, EncoderDecodable
            <6>4. QED
                BY <5>3, <6>3
          <5>6. Has(a, HIGH)'
              BY <3>3, <5>2, <5>5
          <5>7. QED
              BY <5>3, <5>4, <5>6 DEF Has
        <4>2. min_priority' # 0
            BY <2>7, <3>8 DEF HIGH, HIGHEST
        <4>3. QED
            BY <1>1, <2>7, <3>2, <4>1, <4>2 DEF EncoderDecodable, At
      <3>10. PacketsHaveWakeups'
        <4>1. /\ Len(packets) \in Nat /\ send_sem \in Nat
              /\ Len(queue.packets) \in Nat
            BY <2>4 DEF QueueInv, QueueTyped
        <4>2. QED
            BY <1>1, <2>4, <2>7, <4>1 DEF QueueInv, PacketsHaveWakeups, At
      <3>11. Connected'
          BY <1>1, <3>2 DEF QueueInv, Connected
      <3>12. QED
          BY <3>4, <3>5, <3>6, <3>7, <3>9, <3>10, <3>11 DEF QueueInv
    <2>8. QED
        BY <2>2, <2>6, <2>7
  <1>5. QED
      BY <1>2, <1>3, <1>4 DEF AddPacket, queueVars

-----------------------------------------------------------------------------
(* The send queue: the theorems                                             *)

\* A stream that was never started has nothing queued.
LEMMA InitQueueInv ==
  ASSUME RtmpInit
  PROVE  QueueInv
  <1>1. Len(Group) \in Nat \ {0}
      BY RtmpQueueAssumption
  <1>2. QueueTyped
    <2>1. packets \in Seq(PacketType) /\ sent \in SUBSET Nat
        BY DEF RtmpInit
    <2>2. encoder \in [next : 1 .. Len(Group), anchor : Nat, low : Nat]
        BY <1>1 DEF RtmpInit, NoFrames
    <2>3. /\ data \in [at : {"idle", "lock", "post"}, packet : PacketType]
          /\ sender \in [at : {"none", "wait", "awake", "taken", "ending",
                               "free", "close"}, packet : PacketType]
        BY NothingInHand DEF RtmpInit
    <2>4. QED
        BY <2>1, <2>2, <2>3 DEF RtmpInit, QueueTyped
  <1>3. Line = {} /\ Sorted(packets)
      BY DEF RtmpInit, Line, PacketsIn, Sorted
  <1>4. InOrder
      BY <1>3 DEF RtmpInit, InOrder, NoFrames, At
  <1>5. ~Sending /\ data.at = "idle"
      BY DEF RtmpInit, Sending, At
  <1>6. QED
      BY <1>2, <1>3, <1>4, <1>5
      DEF QueueInv, LineDecodable, NextDecodable, EncoderDecodable, Connected,
          PacketsHaveWakeups, Sending

\* Every step keeps the invariant.
LEMMA NextQueueInv ==
  ASSUME QueueInv, [RtmpNext]_rtmpVars
  PROVE  QueueInv'
  <1>1. CASE RtmpData
      BY <1>1, StreamDataKept, AddPacketKept, PostKept DEF RtmpData
  <1>2. CASE RtmpSend
      BY <1>2, WakeKept, GetNextPacketKept, SendPacketKept, EndKept,
         FreePacketsKept
      DEF RtmpSend
  <1>3. CASE CaptureEnds \/ RtmpStops
      BY <1>3, OutputKept
  <1>4. CASE Connect
      BY <1>4, ConnectKept
  <1>5. CASE UNCHANGED rtmpVars
    <2>1. UNCHANGED <<packets, min_priority, last_dts, send_sem, disconnected,
                      rtmp_active, rtmp_stop_event, stop_ts, data, sender,
                      capture, encoder, made, connections, sent>>
        BY <1>5 DEF rtmpVars, queueVars, stopVars, encoderVars
    <2>2. QueueTyped'
        BY <2>1 DEF QueueInv, QueueTyped
    <2>3. PacketsHaveWakeups' /\ Connected' /\ \A r : Gone(r)' = Gone(r)
        BY <2>1 DEF QueueInv, PacketsHaveWakeups, Connected, Sending, Gone
    <2>4. QED
        BY <2>1, <2>2, <2>3, QueueLeftAlone
        DEF QueueInv, InOrder, LineDecodable, Sending
  <1>6. QED
      BY <1>1, <1>2, <1>3, <1>4, <1>5 DEF RtmpNext

\* The queue, the two threads and the encoder are always as QueueInv says.
THEOREM QueueInvHolds ==
  RtmpSpec => []QueueInv
  <1>1. RtmpInit => QueueInv
      BY InitQueueInv
  <1>2. QueueInv /\ [RtmpNext]_rtmpVars => QueueInv'
      BY NextQueueInv
  <1>3. QED
      BY <1>1, <1>2, PTL DEF RtmpSpec

\* However long the network is stuck, whatever is dropped meanwhile, and
\* whatever frames the encoder repeats: a frame that is taken to be sent refers
\* to frames that were sent.
THEOREM SentDecodable ==
  RtmpSpec => []SentIsDecodable
  <1>1. QueueInv => SentIsDecodable
      BY DEF QueueInv, LineDecodable, SentIsDecodable
  <1>2. QED
      BY <1>1, QueueInvHolds, PTL

\* The send thread never waits while a packet does that nobody will wake it
\* for.
THEOREM WakeupsSuffice ==
  RtmpSpec => []PacketsHaveWakeups
  <1>1. QueueInv => PacketsHaveWakeups
      BY DEF QueueInv
  <1>2. QED
      BY <1>1, QueueInvHolds, PTL

\* The queue holds packets, the threads are where their code can be.
THEOREM QueueTypedHolds ==
  RtmpSpec => []RtmpTypeOK
  <1>1. QueueInv => RtmpTypeOK
    <2> SUFFICES ASSUME QueueInv PROVE RtmpTypeOK
        OBVIOUS
    <2>1. QueueTyped
        BY DEF QueueInv
    <2>2. /\ data.at \in {"idle", "lock", "post"} /\ data.packet \in PacketType
          /\ sender.at \in {"none", "wait", "awake", "taken", "ending", "free",
                            "close"}
          /\ sender.packet \in PacketType
        BY <2>1 DEF QueueTyped
    <2>3. /\ {send_sem, last_dts, stop_ts, made, connections} \subseteq Nat
          /\ {disconnected, rtmp_active, rtmp_stop_event, capture}
                 \subseteq BOOLEAN
        BY <2>1 DEF QueueTyped
    <2>4. QED
        BY <2>1, <2>2, <2>3 DEF QueueTyped, RtmpTypeOK
  <1>2. QED
      BY <1>1, QueueInvHolds, PTL

-----------------------------------------------------------------------------
(* The send queue: how long it is, in time                                  *)

\* The frames that other frames are predicted from.
Referred == {HIGH, HIGHEST}

DroppableIn(line) == {p \in line : p.kind < HIGHEST}

\* The frames from the first one on that may be dropped.
Counted(line) ==
    {p \in line : /\ p.kind # Audio
                  /\ \E q \in DroppableIn(line) : q.dts <= p.dts}

\* What the encoders make comes into the queue unless drop_frames decides.
Accepting == ~disconnected /\ (rtmp_active \/ data.at = "lock")

\* rtmp_stream_data has a frame that others are predicted from.
InHand == data.at = "lock" /\ data.packet.kind \in Referred

\* The last such frame that was made is at position `a' of the group, and `d'
\* packets were made after it.
Since(a, d) ==
    /\ d = made - encoder.anchor
    /\ Group[a] \in Referred /\ a + d <= Len(Group)
    /\ \A b \in a + 1 .. a + d : Group[b] \notin Referred
    /\ encoder.next = IF a + d = Len(Group) THEN 1 ELSE a + d + 1

InGroup ==
    /\ data.at = "lock" => encoder.anchor # 0
    /\ encoder.anchor # 0 =>
           \E a \in 1 .. Len(Group), d \in Nat : Since(a, d)

\* After this time no such frame was made, except for the one in hand, which
\* then comes soon enough.
QuietSince(t) ==
    Accepting => IF InHand THEN made <= t + Gap ELSE encoder.anchor \in 1 .. t

\* After each frame that counts comes one that drop_frames leaves while that
\* frame counts, within a gap; or it is still to come.
Spaced(line) ==
    \A p \in Counted(line) :
        \/ \E q \in line : /\ q.kind \in Referred
                           /\ p.dts < q.dts /\ q.dts <= p.dts + Gap
        \/ last_dts < p.dts + Gap /\ QuietSince(p.dts)

Longest(line, time) == \A p \in DroppableIn(line) : last_dts <= p.dts + time

BacklogInv ==
    /\ InGroup /\ Spaced(Line)
    /\ Len(packets) >= 5 => Longest(Line, PframeDropThreshold + Gap)
    /\ DroppableIn(Line) # {} => min_priority <= HIGH /\ QuietSince(last_dts)

\* The least of some numbers.
LEMMA LeastIs ==
  ASSUME NEW S \in SUBSET Nat, S # {}
  PROVE  Min(S) \in S /\ \A x \in S : Min(S) <= x
  <1> DEFINE R == {ss \in Nat \X Nat : ss[1] < ss[2]}
  <1>1. PICK n \in S : \A m \in S : ~(<<m, n>> \in OpToRel(<, Nat))
      BY NatLessThanWellFounded, WFMin
  <1>2. OpToRel(<, Nat) = R
      BY Zenon DEF OpToRel
  <1>3. \A m \in S : ~(<<m, n>> \in R)
      BY <1>1, <1>2, Zenon
  <1>4. \A m \in S : n <= m
    <2>1. ASSUME NEW m \in S, m < n PROVE FALSE
      <3>1. <<m, n>> \in R
          BY <2>1
      <3>2. QED
          BY <1>3, <3>1
    <2>2. QED
        BY <2>1
  <1>5. QED
      BY <1>4 DEF Min

\* The greatest of some numbers that do not exceed one.
LEMMA GreatestIs ==
  ASSUME NEW N \in Nat, NEW S \in SUBSET (0 .. N), S # {}
  PROVE  Max(S) \in S /\ \A x \in S : x <= Max(S)
  <1> DEFINE U == {n \in Nat : \A x \in S : x <= n}
  <1>1. U \in SUBSET Nat /\ N \in U
      OBVIOUS
  <1>2. PICK m : m = Min(U)
      OBVIOUS
  <1>3. m \in U /\ \A n \in U : m <= n
    <2> HIDE DEF U
    <2>1. QED
        BY <1>1, <1>2, LeastIs
  <1>4. m \in S
    <2>1. SUFFICES ASSUME m \notin S PROVE FALSE
        OBVIOUS
    <2>2. PICK x : x \in S
        OBVIOUS
    <2>3. m # 0 /\ m - 1 \in Nat
        BY <1>3, <2>1, <2>2
    <2>4. m - 1 \in U
        BY <1>3, <2>1, <2>3
    <2>5. QED
        BY <1>3, <2>4
  <1>5. \A x \in S : m >= x
      BY <1>3
  <1>6. QED
      BY <1>3, <1>4, <1>5 DEF Max

\* From a frame that others are predicted from the next one is a gap away at
\* most: what follows it in the group is shorter than that.
LEMMA GapIs ==
  /\ Gap \in Nat \ {0}
  /\ \A a \in 1 .. Len(Group), d \in Nat :
         /\ Group[a] \in Referred /\ a + d <= Len(Group)
         /\ \A b \in a + 1 .. a + d : Group[b] \notin Referred
         => d + 1 <= Gap
  <1> DEFINE L == Len(Group)
             G == Group \o Group
             frames == {i \in 1 .. 2 * L : G[i] \in Referred}
             To(i) == Min({j \in frames : j > i})
             gaps == {To(i) - i : i \in frames \ {Max(frames)}}
  <1>1. /\ L \in Nat \ {0} /\ Group \in Seq(DISPOSABLE .. Audio)
        /\ Group[1] = HIGHEST
      BY RtmpQueueAssumption
  <1>0. PICK N \in Nat : N = 2 * L /\ N = L + L
      BY <1>1
  <1>2. \A i \in 1 .. L : G[i] = Group[i] /\ G[L + i] = Group[i]
      BY <1>1
  <1>3. Gap = Max(gaps)
      BY DEF Gap, Referred
  <1> HIDE DEF G
  <1>4. /\ frames \in SUBSET (0 .. N) /\ 1 \in frames /\ L + 1 \in frames
        /\ frames = {i \in 1 .. N : G[i] \in Referred}
      BY <1>0, <1>1, <1>2 DEF Referred
  <1>5. PICK last : last = Max(frames)
      OBVIOUS
  <1>6. last \in frames /\ \A i \in frames : i <= last
    <2> HIDE DEF frames
    <2>1. QED
        BY <1>4, <1>5, GreatestIs
  <1>7. ASSUME NEW i \in frames, i # last
        PROVE  /\ To(i) \in frames /\ To(i) > i
               /\ \A j \in frames : j > i => To(i) <= j
    <2> HIDE DEF frames
    <2> DEFINE J == {j \in frames : j > i}
    <2>1. J \in SUBSET Nat /\ last \in J
        BY <1>4, <1>6, <1>7
    <2>2. PICK k : k = Min(J)
        OBVIOUS
    <2>3. k \in J /\ \A j \in J : k <= j
      <3> HIDE DEF J
      <3>1. QED
          BY <2>1, <2>2, LeastIs
    <2>4. To(i) = k
        BY <2>2
    <2>5. QED
        BY <2>3, <2>4
  <1> HIDE DEF To
  <1>8. gaps \in SUBSET (0 .. N)
    <2>1. ASSUME NEW i \in frames, i # last PROVE To(i) - i \in 0 .. N
      <3>1. To(i) \in frames /\ To(i) > i
          BY <1>7, <2>1
      <3> HIDE DEF frames
      <3>2. QED
          BY <1>4, <3>1
    <2>2. QED
        BY <1>5, <2>1
  <1>9. 1 # last
      BY <1>1, <1>4, <1>6
  <1>10. To(1) - 1 \in gaps
      BY <1>4, <1>5, <1>9
  <1>11. PICK gap : gap = Gap
      OBVIOUS
  <1>12. gap \in gaps /\ \A g \in gaps : g <= gap
    <2> HIDE DEF gaps
    <2>1. QED
        BY <1>3, <1>8, <1>10, <1>11, GreatestIs
  <1>13. gap \in Nat \ {0}
    <2>1. PICK i \in frames : i # last /\ gap = To(i) - i
        BY <1>5, <1>12
    <2>2. To(i) \in frames /\ To(i) > i
        BY <1>7, <2>1
    <2> HIDE DEF frames
    <2>3. QED
        BY <1>4, <2>1, <2>2
  <1>14. ASSUME NEW a \in 1 .. L, NEW d \in Nat,
                Group[a] \in Referred, a + d <= L,
                \A b \in a + 1 .. a + d : Group[b] \notin Referred
         PROVE  d + 1 <= gap
    <2>1. a \in frames /\ a # last
        BY <1>1, <1>2, <1>4, <1>6, <1>14
    <2>2. To(a) \in frames /\ To(a) > a
        BY <1>7, <2>1
    <2>3. PICK n : n = To(a)
        OBVIOUS
    <2>4. n \in 1 .. N /\ G[n] \in Referred /\ n > a
        BY <1>4, <2>2, <2>3
    <2>5. ASSUME n <= a + d PROVE FALSE
      <3>1. n \in a + 1 .. a + d /\ n \in 1 .. L
          BY <1>1, <1>14, <2>4, <2>5
      <3>2. QED
          BY <1>2, <1>14, <2>4, <3>1
    <2>6. n - a \in gaps
        BY <1>5, <2>1, <2>3
    <2>7. n - a <= gap
        BY <1>12, <2>6
    <2>8. QED
        BY <1>1, <1>13, <2>4, <2>5, <2>7
  <1>15. QED
      BY <1>11, <1>13, <1>14

\* The packets of a queue are packets.
LEMMA PacketsTyped ==
  ASSUME NEW s \in Seq(PacketType)
  PROVE  /\ DOMAIN s = 1 .. Len(s) /\ Len(s) \in Nat
         /\ \A i \in 1 .. Len(s) : /\ s[i].dts \in Nat
                                   /\ s[i].kind \in 0 .. 4
         /\ \A p \in PacketsIn(s) : p.dts \in Nat /\ p.kind \in 0 .. 4
  <1>1. DOMAIN s = 1 .. Len(s) /\ Len(s) \in Nat
      OBVIOUS
  <1>2. \A i \in 1 .. Len(s) : s[i] \in PacketType
      OBVIOUS
  <1>3. \A i \in 1 .. Len(s) : s[i].dts \in Nat /\ s[i].kind \in 0 .. 4
      BY <1>2 DEF PacketType, Audio
  <1>4. QED
      BY <1>1, <1>3 DEF PacketsIn

\* Four packets hold no more than four gaps, up to a time that is at most a
\* gap after the last one that counts.
LEMMA FourGaps ==
  ASSUME NEW s \in Seq(PacketType), Sorted(s), Len(s) <= 4,
         NEW gap \in Nat, NEW end \in Nat,
         \A p \in Counted(PacketsIn(s)) :
             \/ \E q \in PacketsIn(s) : /\ q.kind \in Referred
                                        /\ p.dts < q.dts /\ q.dts <= p.dts + gap
             \/ end <= p.dts + gap
  PROVE  \A p \in DroppableIn(PacketsIn(s)) : end <= p.dts + 4 * gap
  <1> DEFINE Counts(i) == s[i] \in Counted(PacketsIn(s))
             time(i) == s[i].dts
             Ends(i, k) == end <= time(i) + k * gap
  <1>1. /\ Len(s) \in 0 .. 4 /\ DOMAIN s = 1 .. Len(s)
        /\ \A i \in 1 .. Len(s) : time(i) \in Nat /\ s[i].kind \in 0 .. 4
        /\ \A q \in PacketsIn(s) : q.dts \in Nat
    <2>1. /\ DOMAIN s = 1 .. Len(s) /\ Len(s) \in Nat
          /\ \A i \in 1 .. Len(s) : /\ s[i].dts \in Nat
                                    /\ s[i].kind \in 0 .. 4
          /\ \A q \in PacketsIn(s) : q.dts \in Nat /\ q.kind \in 0 .. 4
        BY Zenon, PacketsTyped
    <2>2. QED
        BY <2>1
  <1>2. ASSUME NEW i \in 1 .. Len(s), Counts(i)
        PROVE  \/ end <= time(i) + gap
               \/ \E j \in 1 .. Len(s) : /\ j > i /\ Counts(j)
                                         /\ time(j) <= time(i) + gap
    <2>1. CASE end <= s[i].dts + gap
        BY <2>1
    <2>2. CASE \E q \in PacketsIn(s) :
                   /\ q.kind \in Referred
                   /\ s[i].dts < q.dts /\ q.dts <= s[i].dts + gap
      <3>1. PICK j \in 1 .. Len(s) : /\ s[j].kind \in Referred
                                     /\ time(i) < time(j)
                                     /\ time(j) <= time(i) + gap
          BY <1>1, <2>2 DEF PacketsIn
      <3>2. j > i
        <4>1. ASSUME j < i PROVE FALSE
          <5>1. time(j) < time(i)
              BY <1>1, <4>1 DEF Sorted
          <5>2. QED
              BY <1>1, <3>1, <5>1
        <4>2. j # i
            BY <1>1, <3>1
        <4>3. QED
            BY <4>1, <4>2
      <3>3. Counts(j)
        <4>1. PICK q \in DroppableIn(PacketsIn(s)) : q.dts <= s[i].dts
            BY <1>2 DEF Counted
        <4>2. q.dts \in Nat
            BY <1>1, <4>1 DEF DroppableIn
        <4>3. q.dts <= s[j].dts
            BY <1>1, <3>1, <4>1, <4>2
        <4>4. s[j].kind # Audio /\ s[j] \in PacketsIn(s)
            BY <1>1, <3>1 DEF Referred, HIGH, HIGHEST, Audio, PacketsIn
        <4>5. QED
            BY <4>1, <4>3, <4>4 DEF Counted
      <3>4. QED
          BY <3>1, <3>2, <3>3
    <2>3. QED
        BY <1>2, <2>1, <2>2
  <1> HIDE DEF Counts, time
  <1>3. \A i \in 1 .. Len(s) : Counts(i) /\ i >= 4 => end <= time(i) + gap
      BY <1>1, <1>2
  <1>4. ASSUME NEW i \in 1 .. Len(s), Counts(i), i >= 3
        PROVE  end <= time(i) + gap + gap
    <2>1. CASE end <= time(i) + gap
        BY <1>1, <2>1
    <2>2. ASSUME NEW j \in 1 .. Len(s), j > i, Counts(j),
                 time(j) <= time(i) + gap
          PROVE  end <= time(i) + gap + gap
      <3>1. end <= time(j) + gap
          BY <1>3, <1>4, <2>2
      <3>2. time(i) \in Nat /\ time(j) \in Nat
          BY <1>1
      <3>3. QED
          BY <2>2, <3>1, <3>2
    <2>3. QED
        BY <1>2, <1>4, <2>1, <2>2
  <1>5. ASSUME NEW i \in 1 .. Len(s), Counts(i), i >= 2
        PROVE  end <= time(i) + gap + gap + gap
    <2>1. CASE end <= time(i) + gap
        BY <1>1, <2>1
    <2>2. ASSUME NEW j \in 1 .. Len(s), j > i, Counts(j),
                 time(j) <= time(i) + gap
          PROVE  end <= time(i) + gap + gap + gap
      <3>1. end <= time(j) + gap + gap
          BY <1>4, <1>5, <2>2
      <3>2. time(i) \in Nat /\ time(j) \in Nat
          BY <1>1
      <3>3. QED
          BY <2>2, <3>1, <3>2
    <2>3. QED
        BY <1>2, <1>5, <2>1, <2>2
  <1>6. ASSUME NEW i \in 1 .. Len(s), Counts(i)
        PROVE  end <= time(i) + gap + gap + gap + gap
    <2>1. CASE end <= time(i) + gap
        BY <1>1, <2>1
    <2>2. ASSUME NEW j \in 1 .. Len(s), j > i, Counts(j),
                 time(j) <= time(i) + gap
          PROVE  end <= time(i) + gap + gap + gap + gap
      <3>1. end <= time(j) + gap + gap + gap
          BY <1>5, <1>6, <2>2
      <3>2. time(i) \in Nat /\ time(j) \in Nat
          BY <1>1
      <3>3. QED
          BY <2>2, <3>1, <3>2
    <2>3. QED
        BY <1>2, <1>6, <2>1, <2>2
  <1>7. ASSUME NEW p \in DroppableIn(PacketsIn(s))
        PROVE  end <= p.dts + 4 * gap
    <2>1. PICK i \in 1 .. Len(s) : p = s[i] /\ p \in PacketsIn(s)
        BY <1>1 DEF DroppableIn, PacketsIn
    <2>2. p.dts \in Nat /\ p.kind \in 0 .. 4 /\ p.kind < HIGHEST
        BY <1>1, <1>7, <2>1 DEF DroppableIn
    <2>3. Counts(i) /\ time(i) = p.dts
        BY <1>7, <2>1, <2>2 DEF Counts, Counted, time, Audio, HIGHEST
    <2>4. end <= p.dts + gap + gap + gap + gap
        BY <1>6, <2>3
    <2>5. QED
        BY <2>2, <2>4
  <1>8. QED
      BY <1>7

\* A queue of five that check_to_drop_frames has left with frames that may be
\* dropped does not exceed the threshold.
LEMMA CheckedLast ==
  ASSUME NEW queue \in [packets : Seq(PacketType),
                        min_priority : {0, HIGH, HIGHEST}],
         Sorted(queue.packets), last_dts \in Nat,
         NEW after, after = CheckToDropFrames(queue, TRUE),
         Len(after.packets) >= 5
  PROVE  Longest(PacketsIn(after.packets), PframeDropThreshold)
  <1> DEFINE s == queue.packets
  <1>1. /\ s \in Seq(PacketType) /\ DOMAIN s = 1 .. Len(s) /\ Len(s) \in Nat
        /\ Sorted(s)
        /\ \A i \in 1 .. Len(s) : s[i].dts \in Nat /\ s[i].kind \in 0 .. 4
    <2>1. s \in Seq(PacketType)
        OBVIOUS
    <2>2. Sorted(s)
        OBVIOUS
    <2>3. QED
        BY <2>1, <2>2, PacketsTyped
  <1>2. PframeDropThreshold \in Nat
      BY RtmpQueueAssumption
  <1>3. CASE after = DropFrames(queue, HIGHEST)
    <2>1. PICK kept : kept = Kept(s, HIGHEST)
        OBVIOUS
    <2>2. after.packets = kept
      <3>1. PICK min : min = IF queue.min_priority < HIGHEST THEN HIGHEST
                             ELSE queue.min_priority
          OBVIOUS
      <3>2. after = [packets |-> kept, min_priority |-> min]
          BY Zenon, <1>3, <2>1, <3>1 DEF DropFrames
      <3>3. QED
          BY ONLY <3>2
    <2>3. HIGHEST \in Nat
        BY DEF HIGHEST
    <2> HIDE DEF s
    <2>4. PacketsIn(kept) = {p \in PacketsIn(s) : p.kind >= HIGHEST}
        BY <1>1, <2>1, <2>3, KeptKeeps
    <2>5. \A p \in PacketsIn(s) : p.kind \in Nat
        BY <1>1 DEF PacketsIn
    <2>6. \A p \in PacketsIn(kept) : ~(p.kind < HIGHEST)
        BY <2>3, <2>4, <2>5
    <2>7. QED
        BY <2>2, <2>6 DEF Longest, DroppableIn
  <1>4. CASE /\ after = queue
             /\ ~(/\ Len(s) >= 5 /\ Droppable(s) # {}
                  /\ BufferDuration(s) > PframeDropThreshold)
    <2>1. Droppable(s) \in SUBSET Nat
        BY <1>1 DEF Droppable
    <2>2. PICK first : first = Min(Droppable(s))
        OBVIOUS
    <2>3. ASSUME NEW p \in DroppableIn(PacketsIn(s))
          PROVE  last_dts <= p.dts + PframeDropThreshold
      <3>1. PICK i \in 1 .. Len(s) : p = s[i] /\ p.kind < HIGHEST
          BY <1>1, <2>3 DEF DroppableIn, PacketsIn
      <3>2. i \in Droppable(s)
          BY <1>1, <3>1 DEF Droppable
      <3>3. first \in Droppable(s) /\ first <= i
          BY <2>1, <2>2, <3>2, LeastIs
      <3>4. first \in 1 .. Len(s)
          BY <1>1, <3>3 DEF Droppable
      <3>5. s[first].dts <= p.dts
        <4>1. CASE first = i
            BY <1>1, <3>1, <4>1
        <4>2. CASE first # i
          <5>1. first < i
              BY <3>1, <3>3, <3>4, <4>2
          <5>2. s[first].dts < s[i].dts
              BY <1>1, <3>1, <3>4, <5>1, Zenon DEF Sorted
          <5>3. QED
              BY <1>1, <3>1, <3>4, <5>2
        <4>3. QED
            BY <4>1, <4>2
      <3>6. BufferDuration(s) = last_dts - s[first].dts
          BY <2>2 DEF BufferDuration
      <3>7. ~(last_dts - s[first].dts > PframeDropThreshold)
          BY <1>4, <3>2, <3>6
      <3>8. QED
          BY <1>1, <1>2, <3>1, <3>4, <3>5, <3>7
    <2>4. QED
        BY <1>4, <2>3 DEF Longest
  <1>5. QED
      BY <1>3, <1>4 DEF CheckToDropFrames

\* What is dropped leaves the others as far apart as they were.
LEMMA DroppingKeepsSpaced ==
  ASSUME NEW line, \A p \in line : p.kind \in 0 .. 4,
         NEW priority \in {0, HIGH, HIGHEST}, Spaced(line),
         NEW left, left = {p \in line : p.kind >= priority}
  PROVE  Spaced(left) /\ DroppableIn(left) \subseteq DroppableIn(line)
  <1>1. DroppableIn(left) \subseteq DroppableIn(line)
      BY DEF DroppableIn
  <1>2. ASSUME NEW p \in Counted(left)
        PROVE  \/ \E q \in left : /\ q.kind \in Referred
                                  /\ p.dts < q.dts /\ q.dts <= p.dts + Gap
               \/ last_dts < p.dts + Gap /\ QuietSince(p.dts)
    <2>1. p \in Counted(line)
        BY <1>1 DEF Counted
    <2>2. PICK d \in DroppableIn(left) : d \in line
        BY DEF Counted, DroppableIn
    <2>3. priority # HIGHEST
        BY <2>2 DEF DroppableIn, HIGHEST
    <2>4. \A q \in line : q.kind \in Referred => q \in left
        BY <2>3 DEF Referred, HIGH, HIGHEST
    <2>5. QED
        BY <2>1, <2>4 DEF Spaced
  <1>3. QED
      BY <1>1, <1>2 DEF Spaced

-----------------------------------------------------------------------------
(* The send queue: its length after each step                               *)

\* A step that neither makes a packet nor puts one into the queue or takes one
\* out.
LEMMA LengthLeftAlone ==
  ASSUME BacklogInv,
         UNCHANGED <<packets, min_priority, last_dts, encoder, made>>,
         data'.at = "lock" => data.at = "lock",
         Accepting' => Accepting /\ InHand' = InHand
  PROVE  BacklogInv'
  <1>1. Line' = Line
      BY DEF Line
  <1>2. \A t : QuietSince(t) => QuietSince(t)'
      BY DEF QuietSince
  <1>3. InGroup'
      BY DEF BacklogInv, InGroup, Since
  <1>4. Spaced(Line)'
      BY <1>1, <1>2 DEF BacklogInv, Spaced
  <1>5. \A time : Longest(Line, time)' = Longest(Line, time)
      BY <1>1 DEF Longest
  <1>6. QED
      BY <1>1, <1>2, <1>3, <1>4, <1>5 DEF BacklogInv

\* The packets made since the last frame that others are predicted from.
LEMMA MadeSince ==
  ASSUME QueueInv, InGroup, encoder.anchor # 0
  PROVE  made < encoder.anchor + Gap
  <1>1. PICK a \in 1 .. Len(Group), d \in Nat : Since(a, d)
      BY DEF InGroup
  <1>2. d + 1 <= Gap /\ Gap \in Nat
      BY <1>1, GapIs DEF Since
  <1>3. made \in Nat /\ encoder.anchor \in Nat /\ d = made - encoder.anchor
      BY <1>1 DEF QueueInv, QueueTyped, Since
  <1>4. QED
      BY <1>2, <1>3

\* The packet in hand is made soon after the time before which the last such
\* frame was.
LEMMA InHandSoon ==
  ASSUME QueueInv, InGroup, data.at = "lock", ~disconnected,
         NEW t \in Nat, QuietSince(t)
  PROVE  /\ made <= t + Gap
         /\ ~InHand => made < t + Gap /\ encoder.anchor \in 1 .. t
  <1>1. Accepting
      BY DEF Accepting
  <1>2. made \in Nat /\ Gap \in Nat
      BY GapIs DEF QueueInv, QueueTyped
  <1>3. CASE InHand
      BY <1>1, <1>3 DEF QuietSince
  <1>4. CASE ~InHand
    <2>1. encoder.anchor \in 1 .. t
        BY <1>1, <1>4 DEF QuietSince
    <2>2. made < encoder.anchor + Gap
        BY <2>1, MadeSince
    <2>3. QED
        BY <1>2, <1>4, <2>1, <2>2
  <1>5. QED
      BY <1>3, <1>4

\* The encoders make the next packet of the group.
LEMMA LengthStreamData ==
  ASSUME QueueInv, BacklogInv, StreamData
  PROVE  BacklogInv'
  <1> DEFINE kind == Group[encoder.next]
             L == Len(Group)
  <1>1. /\ data.at = "idle" /\ made' = made + 1
        /\ encoder' = NextFrames(kind, made + 1)
        /\ \/ data' = data /\ (disconnected \/ ~rtmp_active)
           \/ /\ data'.at = "lock" /\ data'.packet.kind = kind
              /\ ~disconnected /\ rtmp_active
        /\ UNCHANGED <<packets, min_priority, last_dts, disconnected,
                       rtmp_active>>
      BY DEF StreamData, queueVars, With
  <1>2. /\ made \in Nat /\ encoder.anchor \in Nat
        /\ encoder.anchor <= made /\ L \in Nat
        /\ encoder.next \in 1 .. L /\ Group[1] = HIGHEST
        /\ encoder.anchor = 0 => encoder.next = 1
      BY RtmpQueueAssumption DEF QueueInv, QueueTyped, InOrder
  <1>3. /\ encoder'.anchor = IF kind \in Referred THEN made + 1
                             ELSE encoder.anchor
        /\ encoder'.next = IF encoder.next = L THEN 1 ELSE encoder.next + 1
      BY <1>1 DEF NextFrames, Referred
  <1>4. encoder'.anchor # 0
      BY <1>2, <1>3 DEF Referred
  <1>5. InGroup'
    <2>1. CASE kind \in Referred
      <3>1. PICK n \in 1 .. L : n = encoder.next
          BY <1>2
      <3>2. /\ n + 0 = n /\ n + 1 .. n + 0 = {} /\ n <= L
            /\ made' - encoder'.anchor = 0
            /\ encoder'.next = IF n = L THEN 1 ELSE n + 1
          BY <1>1, <1>2, <1>3, <2>1, <3>1
      <3>3. Since(n, 0)'
          BY <2>1, <3>1, <3>2 DEF Since
      <3>4. QED
          BY <1>4, <3>3 DEF InGroup
    <2>2. CASE kind \notin Referred
      <3>1. PICK a \in 1 .. L, d \in Nat : Since(a, d)
          BY <1>3, <1>4, <2>2 DEF BacklogInv, InGroup
      <3>2. /\ d = made - encoder.anchor /\ Group[a] \in Referred
            /\ a + d <= L /\ \A b \in a + 1 .. a + d : Group[b] \notin Referred
            /\ encoder.next = IF a + d = L THEN 1 ELSE a + d + 1
          BY <3>1 DEF Since
      <3>3. a + d # L /\ encoder.next = a + d + 1
          BY <1>2, <2>2, <3>2 DEF Referred
      <3>4. /\ d + 1 = made' - encoder'.anchor /\ a + (d + 1) <= L
            /\ encoder'.next = IF a + (d + 1) = L THEN 1 ELSE a + (d + 1) + 1
        <4>1. /\ made' = made + 1 /\ encoder'.anchor = encoder.anchor
              /\ encoder'.next = IF a + d + 1 = L THEN 1 ELSE a + d + 2
            BY <1>1, <1>2, <1>3, <2>2, <3>3
        <4>2. d + 1 = made' - encoder'.anchor
          <5>1. /\ made \in Nat /\ encoder.anchor \in Nat
                /\ d = made - encoder.anchor
              BY <1>2, <3>2
          <5>2. made' = made + 1 /\ encoder'.anchor = encoder.anchor
              BY <4>1
          <5>3. \A m, n \in Nat : d = m - n => d + 1 = (m + 1) - n
              OBVIOUS
          <5>4. QED
              BY Zenon, <5>1, <5>2, <5>3
        <4>3. /\ a \in Nat /\ d \in Nat /\ L \in Nat
              /\ a + d <= L /\ a + d # L
            BY <1>2, <3>2, <3>3
        <4>4. a + (d + 1) = a + d + 1 /\ a + d + 2 = a + (d + 1) + 1
            BY <4>3
        <4>5. a + (d + 1) <= L
            BY <4>3
        <4>6. QED
            BY <4>1, <4>2, <4>4, <4>5
      <3>5. ASSUME NEW b \in a + 1 .. a + (d + 1)
            PROVE  Group[b] \notin Referred
        <4>1. b \in a + 1 .. a + d \/ b = a + d + 1
            OBVIOUS
        <4>2. CASE b \in a + 1 .. a + d
            BY <3>2, <4>2
        <4>3. CASE b = a + d + 1
            BY <2>2, <3>3, <4>3
        <4>4. QED
            BY <4>1, <4>2, <4>3
      <3>6. Since(a, d + 1)'
          BY <3>2, <3>4, <3>5 DEF Since
      <3>7. QED
          BY <1>4, <3>6 DEF InGroup
    <2>3. QED
        BY <2>1, <2>2
  <1>6. ASSUME NEW t \in Nat, QuietSince(t) PROVE QuietSince(t)'
    <2>1. SUFFICES ASSUME Accepting'
                   PROVE  IF InHand' THEN made + 1 <= t + Gap
                          ELSE encoder'.anchor \in 1 .. t
        BY <1>1 DEF QuietSince
    <2>2. ~disconnected /\ rtmp_active /\ data'.packet.kind = kind
        BY <1>1, <2>1 DEF Accepting
    <2>3. encoder.anchor \in 1 .. t
        BY <1>1, <1>6, <2>2 DEF QuietSince, Accepting, InHand
    <2>4. made < encoder.anchor + Gap
        BY <2>3, MadeSince DEF BacklogInv
    <2>5. InHand' <=> kind \in Referred
        BY <1>1, <2>2 DEF InHand
    <2>6. Gap \in Nat
        BY GapIs
    <2>7. QED
        BY <1>2, <1>3, <2>3, <2>4, <2>5, <2>6
  <1>7. Line' = Line /\ last_dts \in Nat /\ \A p \in Line : p.dts \in Nat
      BY <1>1, LineTyped DEF Line, QueueInv, QueueTyped
  <1>8. Spaced(Line)'
    <2>1. \A p \in Counted(Line) : p.dts \in Nat
        BY <1>7 DEF Counted
    <2>2. QED
        BY <1>1, <1>6, <1>7, <2>1 DEF BacklogInv, Spaced
  <1>9. \A time : Longest(Line, time)' = Longest(Line, time)
      BY <1>1, <1>7 DEF Longest
  <1>10. QED
      BY <1>1, <1>5, <1>6, <1>7, <1>8, <1>9 DEF BacklogInv

\* The first packet is taken out: what others rely on comes behind them.
LEMMA LengthGetNextPacket ==
  ASSUME QueueInv, BacklogInv, GetNextPacket
  PROVE  BacklogInv'
  <1>1. UNCHANGED <<min_priority, last_dts, disconnected, rtmp_active, data,
                    encoder, made>>
      BY DEF GetNextPacket, encoderVars
  <1>2. /\ Accepting' = Accepting /\ InHand' = InHand
        /\ \A t : QuietSince(t)' = QuietSince(t)
      BY <1>1 DEF Accepting, InHand, QuietSince
  <1>3. CASE packets = <<>>
    <2>1. packets' = packets
        BY <1>3 DEF GetNextPacket
    <2>2. QED
        BY <1>1, <1>2, <2>1, LengthLeftAlone
  <1>4. CASE packets # <<>>
    <2>1. packets' = Tail(packets)
        BY <1>4 DEF GetNextPacket
    <2>2. packets \in Seq(PacketType) /\ Sorted(packets)
        BY DEF QueueInv, QueueTyped, InOrder
    <2>3. PICK head : head = Head(packets)
        OBVIOUS
    <2>4. /\ Line = Line' \cup {head} /\ head \in Line
          /\ \A q \in Line' : head.dts < q.dts
          /\ Len(packets') = Len(packets) - 1 /\ Len(packets) \in Nat
        BY <1>4, <2>1, <2>2, <2>3, PacketTaken DEF Line
    <2>5. \A p \in Line : p.dts \in Nat
        BY LineTyped
    <2>6. DroppableIn(Line') \subseteq DroppableIn(Line)
        BY <2>4 DEF DroppableIn
    <2>7. ASSUME NEW p \in Counted(Line')
          PROVE  \/ \E q \in Line' : /\ q.kind \in Referred
                                     /\ p.dts < q.dts /\ q.dts <= p.dts + Gap
                 \/ last_dts < p.dts + Gap /\ QuietSince(p.dts)
      <3>1. p \in Counted(Line) /\ p \in Line'
          BY <2>4, <2>6 DEF Counted
      <3>2. CASE \E q \in Line : /\ q.kind \in Referred
                                 /\ p.dts < q.dts /\ q.dts <= p.dts + Gap
        <4>1. PICK q \in Line : /\ q.kind \in Referred
                                /\ p.dts < q.dts /\ q.dts <= p.dts + Gap
            BY <3>2
        <4>2. head.dts < p.dts
            BY <2>4, <3>1
        <4>3. q # head
            BY <2>4, <2>5, <3>1, <4>1, <4>2
        <4>4. QED
            BY <2>4, <4>1, <4>3
      <3>3. QED
          BY <3>1, <3>2 DEF BacklogInv, Spaced
    <2>8. Spaced(Line)'
        BY <1>1, <1>2, <2>7 DEF Spaced
    <2>9. InGroup'
        BY <1>1 DEF BacklogInv, InGroup, Since
    <2>10. \A time : Longest(Line, time) => Longest(Line, time)'
        BY <1>1, <2>6 DEF Longest
    <2>11. Len(packets') >= 5 => Len(packets) >= 5
        BY <2>4
    <2>12. (Len(packets) >= 5 => Longest(Line, PframeDropThreshold + Gap))'
        BY <2>10, <2>11 DEF BacklogInv
    <2>13. DroppableIn(Line') # {} => min_priority' <= HIGH
                                      /\ QuietSince(last_dts)'
        BY <1>1, <1>2, <2>6 DEF BacklogInv
    <2>14. QED
        BY <2>8, <2>9, <2>12, <2>13 DEF BacklogInv
  <1>5. QED
      BY <1>3, <1>4

\* Four gaps are no more than the threshold and one.
LEMMA FourGapsFit ==
  ASSUME 3 * Gap <= PframeDropThreshold
  PROVE  4 * Gap <= PframeDropThreshold + Gap
  <1>1. Gap \in Nat /\ PframeDropThreshold \in Nat
      BY GapIs, RtmpQueueAssumption
  <1>2. QED
      BY <1>1

\* Audio is added: the last four packets had no time to be too many.
LEMMA LengthAddAudio ==
  ASSUME QueueInv, BacklogInv, 3 * Gap <= PframeDropThreshold,
         data.at = "lock", ~disconnected, NEW p, p = data.packet,
         p.kind = Audio, packets' = Append(packets, p), data' = At("post"),
         UNCHANGED <<min_priority, last_dts, disconnected, rtmp_active,
                     encoder, made>>
  PROVE  BacklogInv'
  <1>1. /\ packets \in Seq(PacketType) /\ p \in PacketType
        /\ Sorted(packets) /\ last_dts \in Nat /\ Len(packets) \in Nat
      BY DEF QueueInv, QueueTyped, InOrder
  <1>2. Line' = Line \cup {p} /\ Len(packets') = Len(packets) + 1
      BY <1>1, PacketAppended DEF Line
  <1>3. \A q \in Line : q.dts \in Nat
      BY LineTyped
  <1>4. /\ DroppableIn(Line') = DroppableIn(Line)
        /\ Counted(Line') = Counted(Line)
    <2>1. DroppableIn(Line') = DroppableIn(Line)
        BY <1>2 DEF DroppableIn, Audio, HIGHEST
    <2>2. QED
        BY <1>2, <2>1 DEF Counted
  <1>5. /\ ~InHand /\ ~InHand' /\ Accepting /\ data'.at # "lock"
        /\ \A t : QuietSince(t) => QuietSince(t)'
    <2>1. ~InHand /\ ~InHand' /\ Accepting /\ data'.at # "lock"
        BY DEF InHand, Accepting, Audio, Referred, HIGH, HIGHEST, At
    <2>2. QED
        BY <2>1 DEF QuietSince
  <1>6. InGroup'
      BY <1>5 DEF BacklogInv, InGroup, Since
  <1>7. Spaced(Line)'
    <2>1. \A x \in Counted(Line) : \/ \E q \in Line' :
                                          /\ q.kind \in Referred
                                          /\ x.dts < q.dts
                                          /\ q.dts <= x.dts + Gap
                                   \/ last_dts < x.dts + Gap
                                      /\ QuietSince(x.dts)'
        BY <1>2, <1>5 DEF BacklogInv, Spaced
    <2>2. QED
        BY <1>4, <2>1 DEF Spaced
  <1>8. ASSUME Len(packets') >= 5
        PROVE  Longest(Line, PframeDropThreshold + Gap)
    <2>1. CASE Len(packets) >= 5
        BY <2>1 DEF BacklogInv
    <2>2. CASE ~(Len(packets) >= 5)
      <3>1. Len(packets) <= 4
          BY <1>1, <2>2
      <3>2. PICK end \in Nat : end = last_dts
          BY <1>1
      <3>3. PICK gap \in Nat : gap = Gap
          BY GapIs
      <3>4. \A x \in Counted(Line) :
                \/ \E q \in Line : /\ q.kind \in Referred
                                   /\ x.dts < q.dts /\ q.dts <= x.dts + gap
                \/ end <= x.dts + gap
        <4>1. \A x \in Counted(Line) : x.dts \in Nat
            BY <1>3 DEF Counted
        <4>2. QED
            BY <3>2, <3>3, <4>1 DEF BacklogInv, Spaced
      <3>5. \A x \in DroppableIn(Line) : end <= x.dts + 4 * gap
          BY <1>1, <3>1, <3>4, FourGaps DEF Line
      <3>6. 4 * gap <= PframeDropThreshold + gap
          BY <3>3, FourGapsFit
      <3>7. \A x \in DroppableIn(Line) : x.dts \in Nat
          BY <1>3 DEF DroppableIn
      <3>8. PframeDropThreshold \in Nat /\ 4 * gap \in Nat
          BY RtmpQueueAssumption
      <3>9. \A x \in DroppableIn(Line) :
                end <= x.dts + (PframeDropThreshold + gap)
          BY <3>5, <3>6, <3>7, <3>8
      <3>10. QED
          BY <3>2, <3>3, <3>9 DEF Longest
    <2>3. QED
        BY <2>1, <2>2
  <1>9. (Len(packets) >= 5 => Longest(Line, PframeDropThreshold + Gap))'
      BY <1>4, <1>8 DEF Longest
  <1>10. (DroppableIn(Line) # {} => min_priority <= HIGH
                                    /\ QuietSince(last_dts))'
      BY <1>4, <1>5 DEF BacklogInv, QuietSince
  <1>11. QED
      BY <1>6, <1>7, <1>9, <1>10 DEF BacklogInv

\* A frame is added to what drop_frames has left.
LEMMA LengthAddVideo ==
  ASSUME QueueInv, BacklogInv, 3 * Gap <= PframeDropThreshold,
         data.at = "lock", ~disconnected, NEW p, p = data.packet,
         p.kind # Audio,
         NEW queue \in Seq(PacketType), Sorted(queue),
         PacketsIn(queue) \subseteq Line, Spaced(PacketsIn(queue)),
         Len(queue) >= 5 => Longest(PacketsIn(queue), PframeDropThreshold),
         DroppableIn(PacketsIn(queue)) # {} => QuietSince(last_dts),
         packets' = Append(queue, p), data' = At("post"),
         min_priority' = 0, last_dts' = p.dts,
         UNCHANGED <<disconnected, rtmp_active, encoder, made>>
  PROVE  BacklogInv'
  <1> DEFINE line == PacketsIn(queue)
  <1>1. /\ p \in PacketType /\ p.dts = made /\ made \in Nat /\ last_dts \in Nat
        /\ \A q \in line : q.dts \in Nat /\ q.dts < made
        /\ Len(queue) \in Nat /\ p.kind \in 0 .. 4
        /\ encoder.anchor \in 1 .. made /\ InGroup
    <2>1. \A q \in Line : q.dts \in Nat
        BY LineTyped
    <2>2. /\ p \in PacketType /\ p.dts = made /\ made \in Nat
          /\ last_dts \in Nat /\ \A q \in Line : q.dts < made
          /\ encoder.anchor \in Nat /\ encoder.anchor <= made
        BY DEF QueueInv, QueueTyped, InOrder
    <2>3. InGroup /\ encoder.anchor # 0
        BY DEF BacklogInv, InGroup
    <2>4. p.kind \in 0 .. 4
        BY <2>2 DEF PacketType, Audio
    <2>5. encoder.anchor \in 1 .. made
        BY <2>2, <2>3
    <2>6. QED
        BY <2>1, <2>2, <2>3, <2>4, <2>5
  <1>2. Line' = line \cup {p} /\ Len(packets') = Len(queue) + 1
      BY <1>1, PacketAppended DEF Line
  <1>3. Gap \in Nat \ {0} /\ PframeDropThreshold \in Nat
      BY GapIs, RtmpQueueAssumption
  <1>4. /\ Accepting /\ ~InHand' /\ data'.at # "lock"
        /\ InHand <=> p.kind \in Referred
      BY DEF Accepting, InHand, At
  <1>5. ASSUME NEW t \in Nat, encoder.anchor \in 1 .. t
        PROVE  QuietSince(t)'
      BY <1>4, <1>5 DEF QuietSince
  <1> HIDE DEF line
  <1>6. InGroup'
      BY <1>1, <1>4 DEF InGroup, Since
  <1>7. ASSUME NEW x \in Counted(line)
        PROVE  \/ \E q \in line : /\ q.kind \in Referred
                                  /\ x.dts < q.dts /\ q.dts <= x.dts + Gap
               \/ /\ p.kind \in Referred
                  /\ x.dts < p.dts /\ p.dts <= x.dts + Gap
               \/ p.dts < x.dts + Gap /\ QuietSince(x.dts)'
    <2>1. x \in line /\ x.dts \in Nat /\ x.dts < made
        BY <1>1 DEF Counted
    <2>2. CASE QuietSince(x.dts)
      <3>1. /\ made <= x.dts + Gap
            /\ ~InHand => made < x.dts + Gap /\ encoder.anchor \in 1 .. x.dts
          BY <1>1, <2>1, <2>2, InHandSoon
      <3>2. QED
          BY <1>1, <1>4, <1>5, <2>1, <3>1
    <2>3. QED
        BY <2>2 DEF Spaced, line
  <1>8. ASSUME NEW x \in Counted(Line')
        PROVE  \/ \E q \in Line' : /\ q.kind \in Referred
                                   /\ x.dts < q.dts /\ q.dts <= x.dts + Gap
               \/ last_dts' < x.dts + Gap /\ QuietSince(x.dts)'
    <2>1. CASE x = p
      <3>1. last_dts' < x.dts + Gap
          BY <1>1, <1>3, <2>1
      <3>2. QED
          BY <1>1, <1>5, <2>1, <3>1
    <2>2. CASE x # p
      <3>1. x \in line /\ x.kind # Audio
          BY <1>2, <2>2 DEF Counted
      <3>2. PICK q \in DroppableIn(Line') : q.dts <= x.dts
          BY DEF Counted
      <3>3. q # p
          BY <1>1, <3>1, <3>2
      <3>4. x \in Counted(line)
          BY <1>2, <3>1, <3>2, <3>3 DEF Counted, DroppableIn
      <3>5. QED
          BY <1>2, <1>7, <3>4
    <2>3. QED
        BY <2>1, <2>2
  <1>9. Spaced(Line)'
      BY <1>8 DEF Spaced
  <1>10. ASSUME Len(packets') >= 5, NEW y \in DroppableIn(line)
         PROVE  made <= y.dts + (PframeDropThreshold + Gap)
    <2>1. y.dts \in Nat
        BY <1>1 DEF DroppableIn
    <2>2. CASE Len(queue) >= 5
      <3>1. last_dts <= y.dts + PframeDropThreshold
          BY <2>2 DEF Longest, line
      <3>2. QuietSince(last_dts)
          BY <1>10 DEF line
      <3>3. made <= last_dts + Gap
          BY <1>1, <3>2, InHandSoon
      <3>4. QED
          BY <1>1, <1>3, <2>1, <3>1, <3>3
    <2>3. CASE ~(Len(queue) >= 5)
      <3>1. Len(queue) <= 4
          BY <1>1, <2>3
      <3>2. PICK gap \in Nat : gap = Gap
          BY <1>3
      <3>3. \A x \in Counted(line) :
                \/ \E q \in line : /\ q.kind \in Referred
                                   /\ x.dts < q.dts /\ q.dts <= x.dts + gap
                \/ made <= x.dts + gap
        <4>1. \A x \in Counted(line) : x.dts \in Nat
            BY <1>1 DEF Counted
        <4>2. QED
            BY <1>1, <1>7, <3>2, <4>1
      <3>4. made <= y.dts + 4 * gap
        <4>1. \A x \in DroppableIn(line) : made <= x.dts + 4 * gap
            BY <1>1, <3>1, <3>3, FourGaps DEF line
        <4>2. QED
            BY <1>10, <4>1
      <3>5. 4 * gap <= PframeDropThreshold + gap
          BY <3>2, FourGapsFit
      <3>6. 4 * gap \in Nat
          OBVIOUS
      <3>7. QED
          BY <1>1, <1>3, <2>1, <3>2, <3>4, <3>5, <3>6
    <2>4. QED
        BY <2>2, <2>3
  <1>11. (Len(packets) >= 5 => Longest(Line, PframeDropThreshold + Gap))'
    <2>1. SUFFICES ASSUME Len(packets') >= 5, NEW y \in DroppableIn(Line')
                   PROVE  made <= y.dts + (PframeDropThreshold + Gap)
        BY <1>1 DEF Longest
    <2>2. CASE y = p
        BY <1>1, <1>3, <2>2
    <2>3. CASE y # p
        BY <1>2, <1>10, <2>1, <2>3 DEF DroppableIn
    <2>4. QED
        BY <2>2, <2>3
  <1>12. (min_priority <= HIGH /\ QuietSince(last_dts))'
    <2>1. QuietSince(made)'
        BY <1>1, <1>5
    <2>2. QED
        BY <1>1, <2>1 DEF HIGH, QuietSince
  <1>13. QED
      BY <1>6, <1>9, <1>11, <1>12 DEF BacklogInv

\* What rtmp_stream_data does under the mutex.
LEMMA LengthAddPacket ==
  ASSUME QueueInv, BacklogInv, 3 * Gap <= PframeDropThreshold, AddPacket
  PROVE  BacklogInv'
  <1> DEFINE p == data.packet
  <1>1. /\ data.at = "lock" /\ packets \in Seq(PacketType) /\ Sorted(packets)
        /\ min_priority \in {0, HIGH, HIGHEST} /\ last_dts \in Nat
        /\ p.kind \in 0 .. 4 /\ Len(packets) \in Nat
        /\ UNCHANGED <<disconnected, rtmp_active, encoder, made>>
    <2>1. p \in PacketType
        BY DEF QueueInv, QueueTyped
    <2>2. p.kind \in 0 .. 4
        BY <2>1 DEF PacketType, Audio
    <2>3. QED
        BY <2>2 DEF QueueInv, QueueTyped, InOrder, AddPacket, encoderVars
  <1>2. CASE /\ disconnected /\ data' = At("idle")
             /\ UNCHANGED <<packets, min_priority, last_dts>>
    <2>1. ~Accepting' /\ data'.at # "lock"
        BY <1>1, <1>2 DEF Accepting, At
    <2>2. QED
        BY <1>1, <1>2, <2>1, LengthLeftAlone
  <1>3. CASE ~disconnected /\ p.kind = Audio /\ AddAudioPacket(p)
    <2>1. /\ packets' = Append(packets, p) /\ data' = At("post")
          /\ UNCHANGED <<min_priority, last_dts>>
        BY <1>3 DEF AddAudioPacket
    <2> HIDE DEF p
    <2>2. QED
        BY <1>1, <1>3, <2>1, LengthAddAudio DEF p
  <1>4. CASE ~disconnected /\ p.kind # Audio /\ AddVideoPacket(p)
    <2> DEFINE before == [packets |-> packets, min_priority |-> min_priority]
               Queues == [packets : Seq(PacketType),
                          min_priority : {0, HIGH, HIGHEST}]
               first == CheckToDropFrames(before, FALSE)
               queue == CheckToDropFrames(first, TRUE)
    <2>1. /\ before \in Queues
          /\ before.packets = packets /\ before.min_priority = min_priority
        BY <1>1
    <2>2. \/ /\ p.kind < queue.min_priority
             /\ packets' = queue.packets
             /\ min_priority' = queue.min_priority
             /\ data' = At("idle") /\ last_dts' = last_dts
          \/ /\ ~(p.kind < queue.min_priority)
             /\ packets' = Append(queue.packets, p)
             /\ min_priority' = 0
             /\ data' = At("post") /\ last_dts' = p.dts
        BY <1>4 DEF AddVideoPacket
    <2> HIDE DEF before
    <2>3. PICK priority \in {0, HIGH, HIGHEST} :
                   Dropped(before, queue, priority)
        BY <1>1, <2>1, QueueChecked
    <2>4. first \in Queues /\ Sorted(first.packets)
      <3>1. \E one \in {0, HIGH} : Dropped(before, first, one)
                                   /\ first \in Queues
          BY <1>1, <2>1, CheckedOnce
      <3>2. QED
          BY <3>1 DEF Dropped
    <2> HIDE DEF first
    <2>5. Len(queue.packets) >= 5 =>
              Longest(PacketsIn(queue.packets), PframeDropThreshold)
        BY <1>1, <2>4, CheckedLast
    <2> HIDE DEF queue
    <2>6. /\ queue.packets \in Seq(PacketType) /\ Sorted(queue.packets)
          /\ PacketsIn(queue.packets) = {q \in Line : q.kind >= priority}
          /\ queue.min_priority = IF min_priority < priority THEN priority
                                  ELSE min_priority
        BY <2>1, <2>3 DEF Dropped, Line
    <2> DEFINE line == PacketsIn(queue.packets)
    <2>7. line \subseteq Line /\ Spaced(line)
          /\ DroppableIn(line) \subseteq DroppableIn(Line)
      <3>1. \A q \in Line : q.kind \in 0 .. 4
          BY LineTyped
      <3>2. Spaced(Line)
          BY DEF BacklogInv
      <3>3. QED
          BY <2>6, <3>1, <3>2, DroppingKeepsSpaced
    <2>8. DroppableIn(line) # {} => /\ QuietSince(last_dts)
                                    /\ queue.min_priority <= HIGH
      <3>1. SUFFICES ASSUME NEW d \in DroppableIn(line)
                     PROVE  QuietSince(last_dts) /\ queue.min_priority <= HIGH
          OBVIOUS
      <3>2. QuietSince(last_dts) /\ min_priority <= HIGH
          BY <2>7 DEF BacklogInv
      <3>3. priority # HIGHEST
          BY <2>6, LineTyped DEF DroppableIn, HIGHEST
      <3>4. QED
          BY <1>1, <2>6, <3>2, <3>3 DEF HIGH, HIGHEST
    <2> HIDE DEF line
    <2>9. CASE /\ ~(p.kind < queue.min_priority)
               /\ packets' = Append(queue.packets, p)
               /\ min_priority' = 0
               /\ data' = At("post") /\ last_dts' = p.dts
      <3> HIDE DEF p
      <3>1. QED
          BY <1>1, <1>4, <2>5, <2>6, <2>7, <2>8, <2>9, LengthAddVideo
          DEF p, line
    <2>10. CASE /\ p.kind < queue.min_priority
                /\ packets' = queue.packets
                /\ min_priority' = queue.min_priority
                /\ data' = At("idle") /\ last_dts' = last_dts
      <3>1. Line' = line /\ data'.at # "lock" /\ ~InHand' /\ Accepting
          BY <1>1, <1>4, <2>10 DEF Line, line, At, InHand, Accepting
      <3>2. InGroup'
          BY <1>1, <3>1 DEF BacklogInv, InGroup, Since
      <3>3. (Len(packets) >= 5 => Longest(Line, PframeDropThreshold + Gap))'
        <4>1. SUFFICES ASSUME Len(queue.packets) >= 5,
                              NEW y \in DroppableIn(line)
                       PROVE  last_dts <= y.dts + (PframeDropThreshold + Gap)
            BY <2>10, <3>1 DEF Longest
        <4>2. last_dts <= y.dts + PframeDropThreshold
            BY <2>5, <4>1 DEF Longest, line
        <4>3. y.dts \in Nat /\ Gap \in Nat /\ PframeDropThreshold \in Nat
            BY <2>7, LineTyped, GapIs, RtmpQueueAssumption DEF DroppableIn
        <4>4. QED
            BY <1>1, <4>2, <4>3
      <3>4. ASSUME DroppableIn(line) # {}
            PROVE  ~InHand /\ \A t : QuietSince(t) => QuietSince(t)'
        <4>1. p.kind < HIGH
          <5>1. queue.min_priority <= HIGH /\ queue.min_priority \in Nat
              BY <1>1, <2>6, <2>8, <3>4 DEF HIGH, HIGHEST
          <5>2. QED
              BY <1>1, <2>10, <5>1 DEF HIGH
        <4>2. ~InHand
            BY <1>1, <4>1 DEF InHand, Referred, HIGH, HIGHEST
        <4>3. QED
            BY <1>1, <3>1, <4>2 DEF QuietSince
      <3>5. Spaced(Line)'
        <4>1. ASSUME NEW x \in Counted(line)
              PROVE  \/ \E q \in line : /\ q.kind \in Referred
                                        /\ x.dts < q.dts
                                        /\ q.dts <= x.dts + Gap
                     \/ last_dts < x.dts + Gap /\ QuietSince(x.dts)'
          <5>1. DroppableIn(line) # {}
              BY DEF Counted
          <5>2. QED
              BY <2>7, <3>4, <5>1 DEF Spaced
        <4>2. QED
            BY <2>10, <3>1, <4>1 DEF Spaced
      <3>6. (DroppableIn(Line) # {} => min_priority <= HIGH
                                       /\ QuietSince(last_dts))'
          BY <2>8, <2>10, <3>1, <3>4 DEF QuietSince
      <3>7. QED
          BY <3>2, <3>3, <3>5, <3>6 DEF BacklogInv
    <2>11. QED
        BY <2>2, <2>9, <2>10
  <1>5. QED
      BY <1>2, <1>3, <1>4 DEF AddPacket, queueVars

\* The queue is emptied, at the end and for a new connection.
LEMMA LengthEmptied ==
  ASSUME QueueInv, BacklogInv, FreePackets \/ Connect
  PROVE  BacklogInv'
  <1>1. Line' = {} /\ Len(packets') = 0
      BY DEF FreePackets, Connect, Line, PacketsIn
  <1>2. InGroup'
    <2>1. CASE FreePackets
        BY <2>1 DEF FreePackets, encoderVars, BacklogInv, InGroup, Since
    <2>2. CASE Connect
      <3>1. encoder'.anchor = 0 /\ data' = data /\ data.at = "idle"
          BY <2>2 DEF Connect, NoFrames, QueueInv, InOrder
      <3>2. QED
          BY <3>1 DEF InGroup
    <2>3. QED
        BY <2>1, <2>2
  <1>3. DroppableIn(Line') = {} /\ Counted(Line') = {}
      BY <1>1 DEF DroppableIn, Counted
  <1>4. QED
      BY <1>1, <1>2, <1>3 DEF BacklogInv, Spaced

\* Nothing was made before the first connection.
LEMMA InitBacklogInv ==
  ASSUME RtmpInit
  PROVE  BacklogInv
  <1>1. Line = {} /\ Len(packets) = 0
      BY DEF RtmpInit, Line, PacketsIn
  <1>2. encoder.anchor = 0 /\ data.at = "idle"
      BY DEF RtmpInit, NoFrames, At
  <1>3. DroppableIn(Line) = {} /\ Counted(Line) = {}
      BY <1>1 DEF DroppableIn, Counted
  <1>4. QED
      BY <1>1, <1>2, <1>3 DEF BacklogInv, Spaced, InGroup

\* Every step keeps the queue short.
LEMMA NextBacklogInv ==
  ASSUME QueueInv, BacklogInv, 3 * Gap <= PframeDropThreshold,
         [RtmpNext]_rtmpVars
  PROVE  BacklogInv'
  <1>1. ASSUME UNCHANGED <<packets, min_priority, last_dts, encoder, made>>,
               data' = data \/ (data.at = "post" /\ data' = At("idle")),
               disconnected' = disconnected \/ disconnected',
               rtmp_active' = rtmp_active \/ ~rtmp_active'
        PROVE  BacklogInv'
    <2>1. data'.at = "lock" => data' = data
        BY <1>1 DEF At
    <2>2. Accepting' => Accepting /\ InHand' = InHand
        BY <1>1, <2>1 DEF Accepting, InHand, At
    <2>3. QED
        BY <1>1, <2>1, <2>2, LengthLeftAlone
  <1>2. CASE RtmpData
    <2>1. CASE Post
        BY <1>1, <2>1 DEF Post, queueVars, encoderVars
    <2>2. QED
        BY <1>2, <2>1, LengthStreamData, LengthAddPacket DEF RtmpData
  <1>3. CASE RtmpSend
    <2>1. CASE Wake \/ Shutdown \/ ReportEnd \/ EndSending
        BY <1>1, <2>1
        DEF Wake, Shutdown, ReportEnd, EndSending, queueVars, encoderVars
    <2>2. CASE SendPacket
        BY <1>1, <2>2 DEF SendPacket, queueVars, encoderVars
    <2>3. QED
        BY <1>3, <2>1, <2>2, LengthGetNextPacket, LengthEmptied DEF RtmpSend
  <1>4. CASE CaptureEnds
      BY <1>1, <1>4 DEF CaptureEnds, queueVars
  <1>5. CASE RtmpStops
      BY <1>1, <1>5 DEF RtmpStops, RtmpStop, queueVars, encoderVars
  <1>6. CASE Connect
      BY <1>6, LengthEmptied
  <1>7. CASE UNCHANGED rtmpVars
      BY <1>1, <1>7 DEF rtmpVars, queueVars, encoderVars
  <1>8. QED
      BY <1>2, <1>3, <1>4, <1>5, <1>6, <1>7 DEF RtmpNext

\* The queue stays as BacklogInv says, if four frames that are never dropped
\* for the first threshold are made within the second.
THEOREM BacklogInvHolds ==
  ASSUME 3 * Gap <= PframeDropThreshold
  PROVE  RtmpSpec => []BacklogInv
  <1>1. RtmpInit => BacklogInv
      BY InitBacklogInv
  <1>2. QueueInv /\ BacklogInv /\ [RtmpNext]_rtmpVars => BacklogInv'
      BY NextBacklogInv
  <1>3. QED
      BY <1>1, <1>2, QueueInvHolds, PTL DEF RtmpSpec

\* However long the network is stuck, the frames that wait are not older than
\* the threshold of p-frames and the time up to the next frame that is kept.
THEOREM BacklogIsBounded ==
  ASSUME 3 * Gap <= PframeDropThreshold
  PROVE  RtmpSpec => []BacklogBounded
  <1>1. QueueInv /\ BacklogInv => BacklogBounded
    <2> SUFFICES ASSUME QueueInv, BacklogInv,
                        Len(packets) >= 5, Droppable(packets) # {}
                 PROVE  BufferDuration(packets) <= PframeDropThreshold + Gap
        BY DEF BacklogBounded
    <2>1. packets \in Seq(PacketType) /\ last_dts \in Nat
        BY DEF QueueInv, QueueTyped
    <2>2. /\ DOMAIN packets = 1 .. Len(packets)
          /\ \A i \in 1 .. Len(packets) : /\ packets[i].dts \in Nat
                                          /\ packets[i].kind \in 0 .. 4
        BY <2>1, PacketsTyped
    <2>3. Droppable(packets) \in SUBSET Nat
        BY <2>2 DEF Droppable
    <2>4. PICK first : first = Min(Droppable(packets))
        OBVIOUS
    <2>5. first \in Droppable(packets)
        BY <2>3, <2>4, LeastIs
    <2>6. first \in 1 .. Len(packets) /\ packets[first].kind < HIGHEST
        BY <2>2, <2>5 DEF Droppable
    <2>7. packets[first] \in DroppableIn(Line)
        BY <2>2, <2>6 DEF DroppableIn, Line, PacketsIn
    <2>8. last_dts <= packets[first].dts + (PframeDropThreshold + Gap)
        BY <2>7 DEF BacklogInv, Longest
    <2>9. BufferDuration(packets) = last_dts - packets[first].dts
        BY <2>4 DEF BufferDuration
    <2>10. Gap \in Nat /\ PframeDropThreshold \in Nat
        BY GapIs, RtmpQueueAssumption
    <2>11. QED
        BY <2>1, <2>2, <2>6, <2>8, <2>9, <2>10
  <1>2. QED
      BY <1>1, QueueInvHolds, BacklogInvHolds, PTL

-----------------------------------------------------------------------------
(* The delay: the inductive invariant                                       *)

Queued == \E i \in DOMAIN delay_data : delay_data[i] = "start"
StartsOf(e) == e \in Encoders /\ at[e] = "start"
Starting == \E e \in Encoders : StartsOf(e)
Waiting == reconnecter = "wait"
Stopping == \E c \in Callers : at[c] \in {"joining", "stop", "halt"}

\* The connection that is there was told to stop: it is not the next start's.
Left == stream = "none" \/ (stream = "streaming" /\ stream_stop)

DelayTyped ==
    /\ delay_data \in Seq({"start", "stop", "packet"})
    /\ delay_active \in BOOLEAN /\ delay_capturing \in BOOLEAN
    /\ output_active \in BOOLEAN /\ output_data_active \in BOOLEAN
    /\ output_reconnecting \in BOOLEAN /\ output_stopped \in BOOLEAN
    /\ stream_stop \in BOOLEAN /\ stopped_by_force \in BOOLEAN
    /\ delay_preserve \in BOOLEAN
    /\ hooked \in SUBSET Encoders
    /\ delay_restart_refs \in Nat /\ runs \in Nat /\ losses \in Nat
    /\ output_retries \in 0 .. Retries
    /\ at \in [Callers -> {"idle", "pop", "start", "join", "joining", "stop",
                            "halt"}]
    /\ stream \in {"none", "connecting", "streaming"}
    /\ ender \in {"none", "unhook"} /\ reconnecter \in {"none", "wait"}

\* An encoder's thread is in process_delay only while the encoder is attached,
\* it is attached only while the output is active, and so is the delay, until
\* the capture's end has begun.
Attached ==
    /\ \A e \in Encoders : at[e] # "idle" => e \in hooked
    /\ hooked # {} => output_active
    /\ delay_active =>
           output_active /\ output_data_active /\ ender = "none"
    /\ ~output_active => delay_data = <<>> /\ delay_restart_refs = 0

\* A run queues one start, before anything else; whoever carries out a command
\* is alone with it; and a start is carried out while the delay lasts and the
\* user forces no stop.
OneStart ==
    /\ \A i \in DOMAIN delay_data : delay_data[i] = "start" => i = 1
    /\ at[User] \in {"idle", "join", "joining", "stop", "halt"}
    /\ \A e, f \in Encoders :
           at[e] = "start" /\ f # e => at[f] \in {"idle", "pop"}
    /\ Starting \/ stream = "connecting" => delay_active /\ at[User] = "idle"
    /\ Waiting => output_reconnecting /\ stream = "none"

\* While the delay lasts its start is in one place: in the queue, taken out of
\* it, with the reconnect thread, or carried out; or a call that stops the
\* output has cancelled it and is about to end the delay.
StartsCounted ==
    delay_active =>
        /\ Queued \/ Starting =>
               delay_restart_refs = 1 /\ ~Waiting /\ Left
        /\ Starting => ~Queued
        /\ Waiting => delay_restart_refs = 1
        /\ ~Queued /\ ~Starting /\ ~Waiting =>
               \/ delay_restart_refs = 0 /\ stream # "none"
               \/ delay_restart_refs = 1 /\ stream = "none" /\ Stopping

\* The stream that a delay leaves behind was told to stop, or is about to be.
StreamEnds ==
    /\ ~delay_active => Left \/ at[User] = "halt"
    /\ delay_active /\ stream = "streaming" /\ ~stream_stop => delay_capturing

DelayInv == DelayTyped /\ Attached /\ OneStart /\ StartsCounted /\ StreamEnds

\* The user is no encoder.
LEMMA CallersApart ==
  /\ User \in Callers /\ User \notin Encoders
  /\ \A e \in Encoders : e \in Callers /\ e # User
  BY DelayedOutputAssumption DEF User, Callers

Places == {"idle", "pop", "start", "join", "joining", "stop", "halt"}

\* A move takes one caller from one place to another.
LEMMA OneMoves ==
  ASSUME DelayTyped, NEW c \in Callers, NEW from, NEW to \in Places,
         Moves(c, from, to)
  PROVE  /\ at' \in [Callers -> Places]
         /\ at[c] = from /\ at'[c] = to
         /\ \A d \in Callers : d # c => at'[d] = at[d]
  BY DEF DelayTyped, Places, Moves

\* What StartsCounted speaks of is as it was if its variables are.
LEMMA PlacesLeftAlone ==
  /\ at' = at => /\ \A e : StartsOf(e)' = StartsOf(e)
                 /\ Starting' = Starting /\ Stopping' = Stopping
  /\ delay_data' = delay_data => Queued' = Queued
  /\ reconnecter' = reconnecter => Waiting' = Waiting
  /\ UNCHANGED <<stream, stream_stop>> => Left' = Left
  <1>1. ASSUME at' = at
        PROVE  /\ \A e : StartsOf(e)' = StartsOf(e)
               /\ Starting' = Starting /\ Stopping' = Stopping
      BY <1>1 DEF StartsOf, Starting, Stopping
  <1>2. ASSUME delay_data' = delay_data PROVE Queued' = Queued
      BY <1>2 DEF Queued
  <1>3. ASSUME reconnecter' = reconnecter PROVE Waiting' = Waiting
      BY <1>3 DEF Waiting
  <1>4. ASSUME UNCHANGED <<stream, stream_stop>> PROVE Left' = Left
      BY <1>4 DEF Left
  <1>5. QED
      BY <1>1, <1>2, <1>3, <1>4

\* A move that neither begins nor ends a start leaves the starts as they were.
LEMMA StartsLeftAlone ==
  ASSUME DelayTyped, NEW c \in Callers, NEW from, NEW to \in Places,
         Moves(c, from, to), from # "start" \/ c = User,
         to # "start" \/ c = User
  PROVE  Starting' = Starting
  <1>1. \A e \in Encoders : at'[e] = "start" <=> at[e] = "start"
      BY OneMoves, CallersApart
  <1>2. QED
      BY <1>1 DEF Starting, StartsOf

\* The end of a capture, and of its delay if the delay does not begin again.
LEMMA CaptureEnded ==
  ASSUME DelayTyped, Attached, NEW signal \in BOOLEAN,
         NEW is_delayed \in BOOLEAN, is_delayed => delay_active,
         NEW refs \in Nat, EndCapture(signal, is_delayed, refs)
  PROVE  /\ delay_active' = (is_delayed /\ refs > 0)
         /\ delay_restart_refs' = refs
         /\ delay_capturing' \in BOOLEAN /\ output_stopped' \in BOOLEAN
         /\ output_data_active' \in BOOLEAN /\ ender' \in {"none", "unhook"}
         /\ delay_active' => UNCHANGED <<output_data_active, ender>>
  <1> DEFINE again == DelayedCapture /\ is_delayed /\ refs > 0
  <1>1. is_delayed => DelayedCapture
      BY DEF DelayTyped, Attached, DelayedCapture
  <1>2. DelayedCapture \in BOOLEAN /\ again \in BOOLEAN
      BY DEF DelayTyped, DelayedCapture
  <1>3. /\ delay_active' = (is_delayed /\ (~DelayedCapture \/ again))
        /\ delay_capturing' =
               (delay_capturing /\ ~(DelayedCapture /\ is_delayed))
        /\ delay_restart_refs' = refs
        /\ output_stopped' = (output_stopped \/ again
                                 \/ (~DelayedCapture /\ signal))
        /\ DetachIf(DelayedCapture /\ ~again)
      BY DEF EndCapture
  <1>4. delay_active' = (is_delayed /\ refs > 0)
      BY <1>1, <1>3
  <1>5. output_data_active' \in BOOLEAN /\ ender' \in {"none", "unhook"}
      BY <1>3 DEF DetachIf, DelayTyped
  <1>6. delay_active' => UNCHANGED <<output_data_active, ender>>
      BY <1>1, <1>3, <1>4 DEF DetachIf
  <1>7. delay_capturing' \in BOOLEAN /\ output_stopped' \in BOOLEAN
      BY <1>2, <1>3
  <1>8. QED
      BY <1>3, <1>4, <1>5, <1>6, <1>7

\* A connection that ends by itself ends the delay, or the start to come is
\* counted and the reconnect thread has it.
LEMMA Reported ==
  ASSUME DelayInv, NEW code \in {"success", "error", "disconnected"},
         Report(code)
  PROVE  /\ output_retries' \in 0 .. Retries
         /\ output_reconnecting' \in BOOLEAN
         /\ delay_capturing' \in BOOLEAN /\ output_stopped' \in BOOLEAN
         /\ output_data_active' \in BOOLEAN /\ ender' \in {"none", "unhook"}
         /\ delay_restart_refs' \in Nat
         /\ ~delay_active => delay_restart_refs' = delay_restart_refs
         /\ delay_active' => UNCHANGED <<output_data_active, ender>>
         /\ \/ /\ ~delay_active' /\ reconnecter' = reconnecter
               /\ code = "success" =>
                      output_reconnecting' = output_reconnecting
            \/ /\ code # "success" /\ delay_active' = delay_active
               /\ delay_active =>
                      delay_restart_refs' = delay_restart_refs + 1
               /\ reconnecter = "none" /\ reconnecter' = "wait"
               /\ output_reconnecting' = TRUE
  <1> DEFINE refs == IF delay_active THEN delay_restart_refs + 1
                     ELSE delay_restart_refs
             tried == IF output_reconnecting THEN output_retries ELSE 0
  <1>1. DelayTyped /\ Attached /\ refs \in Nat /\ Retries \in Nat
      BY DelayedOutputAssumption DEF DelayInv, DelayTyped
  <1>2. delay_active => refs = delay_restart_refs + 1 /\ refs > 0
      BY DEF DelayInv, DelayTyped
  <1>3. ~delay_active => refs = delay_restart_refs
      OBVIOUS
  <1> HIDE DEF refs
  <1>4. CASE code # "success" /\ Reconnect(refs)
    <2>1. /\ tried < Retries /\ EndCapture(FALSE, delay_active, refs)
          /\ output_reconnecting' = TRUE /\ output_retries' = tried + 1
          /\ reconnecter = "none" /\ reconnecter' = "wait"
        BY <1>4 DEF Reconnect
    <2>2. output_retries' \in 0 .. Retries
      <3>1. tried \in 0 .. Retries
          BY <1>1 DEF DelayTyped
      <3>2. QED
          BY <1>1, <2>1, <3>1
    <2>3. delay_active \in BOOLEAN
        BY <1>1 DEF DelayTyped
    <2>4. /\ delay_active' = (delay_active /\ refs > 0)
          /\ delay_restart_refs' = refs
          /\ delay_capturing' \in BOOLEAN /\ output_stopped' \in BOOLEAN
          /\ output_data_active' \in BOOLEAN /\ ender' \in {"none", "unhook"}
          /\ delay_active' => UNCHANGED <<output_data_active, ender>>
        BY <1>1, <2>1, <2>3, CaptureEnded
    <2>5. delay_active' = delay_active
        BY <1>2, <2>3, <2>4
    <2>6. QED
        BY <1>1, <1>2, <1>3, <1>4, <2>1, <2>2, <2>4, <2>5
  <1>5. CASE code # "success" /\ AbandonDelayed(refs)
    <2>1. DelayedCapture \in BOOLEAN
        BY <1>1 DEF DelayTyped, DelayedCapture
    <2>2. output_data_active' \in BOOLEAN /\ ender' \in {"none", "unhook"}
        BY <1>1, <1>5 DEF AbandonDelayed, DetachIf, DelayTyped
    <2>3. QED
        BY <1>1, <1>3, <1>5, <2>1, <2>2 DEF AbandonDelayed, DelayTyped
  <1>6. CASE /\ EndCapture(TRUE, FALSE, delay_restart_refs)
             /\ UNCHANGED <<output_reconnecting, output_retries, reconnecter>>
    <2>1. delay_restart_refs \in Nat
        BY <1>1 DEF DelayTyped
    <2>2. /\ delay_active' = (FALSE /\ delay_restart_refs > 0)
          /\ delay_restart_refs' = delay_restart_refs
          /\ delay_capturing' \in BOOLEAN /\ output_stopped' \in BOOLEAN
          /\ output_data_active' \in BOOLEAN /\ ender' \in {"none", "unhook"}
          /\ delay_active' => UNCHANGED <<output_data_active, ender>>
        BY <1>1, <1>6, <2>1, CaptureEnded
    <2>3. QED
        BY <1>1, <1>6, <2>1, <2>2 DEF DelayTyped
  <1>7. QED
      BY <1>4, <1>5, <1>6 DEF Report, refs

\* An entry that is no start adds none.
LEMMA EntryBehind ==
  ASSUME NEW queue \in Seq({"start", "stop", "packet"}),
         NEW entry \in {"stop", "packet"}
  PROVE  /\ Append(queue, entry) \in Seq({"start", "stop", "packet"})
         /\ \A i : /\ i \in DOMAIN Append(queue, entry)
                   /\ Append(queue, entry)[i] = "start"
                   <=> i \in DOMAIN queue /\ queue[i] = "start"
  OBVIOUS

\* An entry that is no start, behind what is there.
LEMMA EntryAdded ==
  ASSUME DelayInv, NEW entry \in {"stop", "packet"}, output_active,
         delay_data' = Append(delay_data, entry),
         UNCHANGED <<delay_active, delay_capturing, delay_restart_refs,
                     output_active, output_data_active, output_reconnecting,
                     output_retries, output_stopped, hooked, at, stream,
                     stream_stop, ender, reconnecter, runs, losses,
                     stopped_by_force, delay_preserve>>
  PROVE  DelayInv'
  <1>1. delay_data \in Seq({"start", "stop", "packet"})
      BY DEF DelayInv, DelayTyped
  <1>2. /\ delay_data' \in Seq({"start", "stop", "packet"})
        /\ \A i : i \in DOMAIN delay_data' /\ delay_data'[i] = "start" <=>
                  i \in DOMAIN delay_data /\ delay_data[i] = "start"
      BY <1>1, EntryBehind
  <1>3. \A i \in DOMAIN delay_data' : delay_data'[i] = "start" =>
            i \in DOMAIN delay_data /\ delay_data[i] = "start"
      BY <1>2
  <1>4. Queued' = Queued
      BY <1>2 DEF Queued
  <1>5. /\ Starting' = Starting /\ Stopping' = Stopping /\ Waiting' = Waiting
        /\ Left' = Left
      BY PlacesLeftAlone
  <1>6. DelayTyped'
      BY <1>2 DEF DelayInv, DelayTyped
  <1>7. Attached'
      BY DEF DelayInv, Attached
  <1>8. OneStart'
      BY <1>3, <1>5 DEF DelayInv, OneStart
  <1>9. StartsCounted'
      BY <1>4, <1>5 DEF DelayInv, StartsCounted
  <1>10. StreamEnds'
      BY <1>5 DEF DelayInv, StreamEnds
  <1>11. QED
      BY <1>6, <1>7, <1>8, <1>9, <1>10 DEF DelayInv

\* A call that goes on and changes nothing else the invariant speaks of: it
\* becomes one that stops the output only where no start is carried out.
LEMMA CallGoesOn ==
  ASSUME DelayInv, DelayTyped',
         NEW c \in Callers, NEW from, NEW to \in Places, Moves(c, from, to),
         UNCHANGED <<delay_data, delay_active, delay_capturing,
                     delay_restart_refs, output_active, output_data_active,
                     output_reconnecting, hooked, stream, stream_stop, ender,
                     reconnecter>>,
         from \notin {"start", "halt"}, to # "start",
         c # User => /\ from = "idle" => c \in hooked
                     /\ from \in {"idle", "pop"} => to \in {"idle", "pop"},
         c = User => /\ to # "pop"
                     /\ from # "idle" \/ (stream # "connecting" /\ ~Starting),
         from \in {"joining", "stop", "halt"} =>
             to \in {"joining", "stop", "halt"}
  PROVE  DelayInv'
  <1>1. /\ at' \in [Callers -> Places] /\ at[c] = from /\ at'[c] = to
        /\ \A d \in Callers : d # c => at'[d] = at[d]
      BY OneMoves DEF DelayInv
  <1>2. Starting' = Starting /\ Queued' = Queued /\ Waiting' = Waiting
        /\ Left' = Left
      BY StartsLeftAlone, PlacesLeftAlone DEF DelayInv
  <1>3. Stopping => Stopping'
      BY <1>1 DEF Stopping
  <1>4. Attached'
      BY <1>1, CallersApart DEF DelayInv, Attached
  <1>5. OneStart'
    <2>1. at'[User] \in {"idle", "join", "joining", "stop", "halt"}
        BY <1>1, CallersApart DEF DelayInv, OneStart, Places
    <2>2. ASSUME NEW e \in Encoders, NEW f \in Encoders,
                 at'[e] = "start", f # e
          PROVE  at'[f] \in {"idle", "pop"}
        BY <1>1, <2>2, CallersApart DEF DelayInv, OneStart
    <2>3. ASSUME Starting \/ stream = "connecting"
          PROVE  delay_active /\ at'[User] = "idle"
        BY <1>1, <2>3, CallersApart DEF DelayInv, OneStart
    <2>4. QED
        BY <1>2, <2>1, <2>2, <2>3 DEF DelayInv, OneStart
  <1>6. StartsCounted'
      BY <1>2, <1>3 DEF DelayInv, StartsCounted
  <1>7. StreamEnds'
      BY <1>1, <1>2, CallersApart DEF DelayInv, StreamEnds
  <1>8. QED
      BY <1>4, <1>5, <1>6, <1>7 DEF DelayInv

\* ForceStopDelayed, ActuallyStop, Joined and CallStop keep the invariant.
LEMMA StopBegunKept ==
  ASSUME DelayRaces = {}, DelayInv, ForceStopDelayed
  PROVE  DelayInv'
  <1>1. /\ stream # "connecting" /\ \A e \in Encoders : at[e] # "start"
        /\ Moves(User, "idle", "join")
        /\ UNCHANGED <<delayVars, phaseVars, output_stopped, hooked,
                       connectionVars, helperVars, boundVars>>
      BY DEF ForceStopDelayed
  <1>2. ~Starting
      BY <1>1 DEF Starting, StartsOf
  <1>3. "join" \in Places /\ User \in Callers
      BY CallersApart DEF Places
  <1>4. at' \in [Callers -> Places]
      BY <1>1, <1>3, OneMoves DEF DelayInv
  <1>5. DelayTyped'
      BY <1>1, <1>4 DEF DelayInv, DelayTyped, Places, delayVars, phaseVars,
                        connectionVars, helperVars, boundVars
  <1>6. QED
      BY <1>1, <1>2, <1>3, <1>5, CallGoesOn
      DEF delayVars, phaseVars, connectionVars, helperVars

\* obs_output_actual_stop: in each of its callers, the join and the call.
LEMMA StopCalledKept ==
  ASSUME DelayInv, NEW c \in Callers,
         ActuallyStop(c) \/ Joined(c) \/ CallStop(c)
  PROVE  DelayInv'
  <1>1. PICK from \in {"join", "joining", "stop"},
             to \in {"joining", "stop", "halt", "pop"} :
            /\ at[c] = from /\ at' = [at EXCEPT ![c] = to]
            /\ to = "pop" => c # User /\ from = "join"
            /\ output_stopped' \in BOOLEAN
            /\ UNCHANGED <<delayVars, phaseVars, hooked, connectionVars,
                           helperVars, boundVars>>
    <2>1. CASE ActuallyStop(c)
        BY <2>1 DEF ActuallyStop, DelayInv, DelayTyped
    <2>2. CASE Joined(c)
        BY <2>2 DEF Joined, Moves, DelayInv, DelayTyped
    <2>3. CASE CallStop(c)
        BY <2>3 DEF CallStop, Moves, DelayInv, DelayTyped
    <2>4. QED
        BY <2>1, <2>2, <2>3
  <1>2. Moves(c, from, to) /\ to \in Places
      BY <1>1 DEF Moves, Places
  <1>3. at' \in [Callers -> Places]
      BY <1>2, OneMoves DEF DelayInv
  <1>4. DelayTyped'
      BY <1>1, <1>3 DEF DelayInv, DelayTyped, Places, delayVars, phaseVars,
                        connectionVars, helperVars, boundVars
  <1>5. QED
      BY <1>1, <1>2, <1>4, CallGoesOn
      DEF delayVars, phaseVars, connectionVars, helperVars

\* The first start of a run is counted and queued, in front of everything.
LEMMA StartDelayKept ==
  ASSUME DelayInv, StartDelay
  PROVE  DelayInv'
  <1>1. /\ at[User] = "idle" /\ runs' = runs + 1
        /\ ~output_active /\ ~output_reconnecting /\ ender = "none"
        /\ delay_data' = Append(delay_data, "start")
        /\ delay_restart_refs' = delay_restart_refs + 1
        /\ delay_active' = TRUE /\ hooked' = Encoders
        /\ delay_preserve' \in BOOLEAN
        /\ output_active' = TRUE /\ output_data_active' = TRUE
        /\ stopped_by_force' = FALSE
        /\ UNCHANGED <<delay_capturing, output_reconnecting, output_retries,
                       output_stopped, at, stream, stream_stop, ender,
                       reconnecter, losses>>
      BY DEF StartDelay, connectionVars, helperVars
  <1>2. /\ delay_data = <<>> /\ delay_restart_refs = 0 /\ ~delay_active
        /\ hooked = {}
      BY <1>1 DEF DelayInv, DelayTyped, Attached
  <1>3. delay_data' = <<"start">> /\ delay_restart_refs' = 1
      BY <1>1, <1>2
  <1>4. \A e \in Encoders : at[e] = "idle"
      BY <1>2 DEF DelayInv, Attached
  <1>5. ~Starting /\ ~Waiting /\ Left /\ stream # "connecting"
      BY <1>1, <1>2, <1>4
      DEF Starting, StartsOf, Waiting, DelayInv, OneStart, StreamEnds
  <1>6. ~Starting' /\ ~Waiting' /\ Left' /\ Queued'
    <2>1. 1 \in DOMAIN <<"start">> /\ <<"start">>[1] = "start"
        OBVIOUS
    <2>2. Queued'
        BY <1>3, <2>1 DEF Queued
    <2>3. QED
        BY <1>1, <1>5, <2>2, PlacesLeftAlone
  <1>7. DelayTyped'
    <2>1. delay_data' \in Seq({"start", "stop", "packet"})
        BY <1>3
    <2>2. hooked' \in SUBSET Encoders /\ runs' \in Nat
        BY <1>1 DEF DelayInv, DelayTyped
    <2>3. delay_restart_refs' \in Nat
        BY <1>3
    <2>4. QED
        BY <1>1, <2>1, <2>2, <2>3 DEF DelayInv, DelayTyped
  <1>8. Attached'
      BY <1>1, <1>4 DEF Attached
  <1>9. OneStart'
    <2>1. \A i \in DOMAIN delay_data' : i = 1
        BY <1>3
    <2>2. QED
        BY <1>1, <1>4, <1>5, <1>6, <2>1 DEF OneStart
  <1>10. StartsCounted'
      BY <1>3, <1>6 DEF StartsCounted
  <1>11. StreamEnds'
      BY <1>1, <1>5 DEF StreamEnds, Left
  <1>12. QED
      BY <1>7, <1>8, <1>9, <1>10, <1>11 DEF DelayInv

\* A stop is queued behind what is there.
LEMMA StopDelayedKept ==
  ASSUME DelayInv, StopDelayed
  PROVE  DelayInv'
  <1>1. /\ output_active /\ delay_data' = Append(delay_data, "stop")
        /\ UNCHANGED <<delay_active, delay_capturing, delay_restart_refs,
                       output_active, output_data_active, output_reconnecting,
                       output_retries, output_stopped, hooked, at, stream,
                       stream_stop, ender, reconnecter, runs, losses,
                       stopped_by_force, delay_preserve>>
      BY DEF StopDelayed, phaseVars, connectionVars, helperVars, boundVars
  <1>2. QED
      BY <1>1, EntryAdded

\* A forced stop ends the delay: what was to come is thrown away, and the
\* stream, if there is one, is stopped next.
LEMMA EndDelayKept ==
  ASSUME DelayInv, EndDelay
  PROVE  DelayInv'
  <1> DEFINE to == IF delay_capturing THEN "halt" ELSE "idle"
  <1>1. /\ delay_active /\ Moves(User, "stop", to)
        /\ delay_active' = FALSE /\ delay_capturing' = FALSE
        /\ output_stopped' = TRUE /\ DetachIf(DelayedCapture)
        /\ stopped_by_force' = ~delay_capturing
        /\ UNCHANGED <<delay_data, delay_restart_refs, output_active,
                       output_reconnecting, output_retries, hooked, stream,
                       stream_stop, reconnecter, runs, losses, delay_preserve>>
      BY DEF EndDelay, connectionVars
  <1>2. to \in Places /\ to # "start" /\ User \in Callers
      BY CallersApart DEF Places
  <1>3. /\ at' \in [Callers -> Places] /\ at[User] = "stop" /\ at'[User] = to
        /\ \A d \in Callers : d # User => at'[d] = at[d]
      BY <1>1, <1>2, OneMoves DEF DelayInv
  <1>4. /\ Starting' = Starting /\ Queued' = Queued /\ Waiting' = Waiting
        /\ Left' = Left
      BY <1>1, <1>2, StartsLeftAlone, PlacesLeftAlone DEF DelayInv
  <1>5. output_data_active' \in BOOLEAN /\ ender' \in {"none", "unhook"}
      BY <1>1 DEF DetachIf, DelayInv, DelayTyped
  <1>6. ~Starting /\ stream # "connecting"
      BY <1>3 DEF DelayInv, OneStart
  <1>7. DelayTyped'
      BY <1>1, <1>3, <1>5 DEF DelayInv, DelayTyped, Places
  <1>8. Attached'
      BY <1>1, <1>3, CallersApart DEF DelayInv, Attached
  <1>9. OneStart'
      BY <1>1, <1>3, <1>4, <1>6, CallersApart DEF DelayInv, OneStart
  <1>10. StartsCounted' /\ StreamEnds'
    <2>1. ~delay_capturing => Left
        BY <1>1, <1>6 DEF DelayInv, StreamEnds, DelayTyped, Left
    <2>2. QED
        BY <1>1, <1>3, <1>4, <2>1 DEF StartsCounted, StreamEnds
  <1>11. QED
      BY <1>7, <1>8, <1>9, <1>10 DEF DelayInv

\* The stream is told to stop, or its end is reported, and the delay is over.
LEMMA HaltStreamKept ==
  ASSUME DelayInv, NEW c \in Callers, HaltStream(c)
  PROVE  DelayInv'
  <1> DEFINE to == Returned(c)
  <1>1. /\ stream # "connecting" /\ Moves(c, "halt", to)
        /\ stopped_by_force' \in BOOLEAN
        /\ UNCHANGED <<hooked, stream, runs, losses, delay_preserve>>
      BY DEF HaltStream, DelayInv, DelayTyped
  <1>2. /\ to \in {"idle", "pop"} /\ to \in Places
        /\ c = User => to = "idle"
        /\ c # User => to = "pop"
      BY DEF Returned, Places
  <1>3. /\ at' \in [Callers -> Places] /\ at[c] = "halt" /\ at'[c] = to
        /\ \A d \in Callers : d # c => at'[d] = at[d]
      BY <1>1, <1>2, OneMoves DEF DelayInv
  <1>4. Starting' = Starting
      BY <1>1, <1>2, StartsLeftAlone DEF DelayInv
  <1>5. ~Starting /\ stream \in {"none", "streaming"}
    <2>1. CASE c = User
        BY <1>1, <1>3, <2>1 DEF DelayInv, DelayTyped, OneStart
    <2>2. CASE c # User
      <3>1. c \in Encoders
          BY <2>2 DEF Callers, User
      <3>2. ~Starting
          BY <1>3, <3>1 DEF Starting, StartsOf, DelayInv, OneStart
      <3>3. QED
          BY <1>1, <3>2 DEF DelayInv, DelayTyped
    <2>3. QED
        BY <2>1, <2>2
  <1>6. \A e \in Encoders : at'[e] # "idle" => e \in hooked
      BY <1>2, <1>3, CallersApart DEF DelayInv, Attached
  <1>7. /\ at'[User] \in {"idle", "join", "joining", "stop", "halt"}
        /\ \A e, f \in Encoders :
               at'[e] = "start" /\ f # e => at'[f] \in {"idle", "pop"}
      BY <1>2, <1>3, CallersApart DEF DelayInv, OneStart
  <1>8. CASE /\ stream = "streaming" /\ stream_stop' = TRUE
             /\ UNCHANGED <<delayVars, phaseVars, output_stopped, helperVars>>
    <2>1. Left' /\ Queued' = Queued /\ Waiting' = Waiting
        BY <1>1, <1>8, PlacesLeftAlone DEF Left, delayVars, helperVars
    <2>2. DelayTyped'
        BY <1>1, <1>3, <1>8
        DEF DelayInv, DelayTyped, Places, delayVars, phaseVars, helperVars
    <2>3. Attached'
        BY <1>1, <1>6, <1>8
        DEF DelayInv, Attached, delayVars, phaseVars, helperVars
    <2>4. OneStart'
        BY <1>1, <1>4, <1>5, <1>7, <1>8, <2>1
        DEF DelayInv, OneStart, delayVars, phaseVars, helperVars
    <2>5. StartsCounted'
        BY <1>1, <1>4, <1>5, <1>8, <2>1
        DEF DelayInv, StartsCounted, delayVars, phaseVars, helperVars, Left
    <2>6. StreamEnds'
        BY <1>1, <1>8, <2>1 DEF DelayInv, StreamEnds, delayVars
    <2>7. QED
        BY <2>2, <2>3, <2>4, <2>5, <2>6 DEF DelayInv
  <1>9. CASE /\ stream = "none" /\ Report("success")
             /\ UNCHANGED <<delay_data, output_active, stream_stop>>
    <2>1. /\ output_retries' \in 0 .. Retries
          /\ output_reconnecting' = output_reconnecting
          /\ delay_capturing' \in BOOLEAN /\ output_stopped' \in BOOLEAN
          /\ output_data_active' \in BOOLEAN /\ ender' \in {"none", "unhook"}
          /\ delay_restart_refs' \in Nat
          /\ ~delay_active => delay_restart_refs' = delay_restart_refs
          /\ ~delay_active' /\ reconnecter' = reconnecter
        BY <1>9, Reported
    <2>2. delay_active' = FALSE
        BY <1>9 DEF Report, EndCapture, DelayInv, DelayTyped
    <2>3. Left' = Left /\ Queued' = Queued /\ Waiting' = Waiting
        BY <1>1, <1>9, <2>1, PlacesLeftAlone
    <2>4. DelayTyped'
        BY <1>1, <1>3, <1>9, <2>1, <2>2 DEF DelayInv, DelayTyped, Places
    <2>5. Attached'
        BY <1>1, <1>6, <1>9, <2>1, <2>2 DEF DelayInv, Attached
    <2>6. OneStart'
        BY <1>1, <1>4, <1>5, <1>7, <1>9, <2>1, <2>3 DEF DelayInv, OneStart
    <2>7. StartsCounted' /\ StreamEnds'
        BY <1>1, <1>9, <2>2 DEF StartsCounted, StreamEnds, Left
    <2>8. QED
        BY <2>4, <2>5, <2>6, <2>7 DEF DelayInv
  <1>10. QED
      BY <1>8, <1>9 DEF HaltStream

-----------------------------------------------------------------------------
(* The delay: the encoders' threads                                         *)

\* process_delay: a packet is queued.
LEMMA ProcessDelayKept ==
  ASSUME DelayInv, NEW e \in Encoders, ProcessDelay(e)
  PROVE  DelayInv'
  <1>1. /\ e \in hooked /\ Moves(e, "idle", "pop")
        /\ \/ delay_data' = Append(delay_data, "packet")
           \/ delay_data' = delay_data
        /\ UNCHANGED <<delay_active, delay_capturing, delay_restart_refs,
                       output_active, output_data_active, output_reconnecting,
                       output_retries, output_stopped, hooked, stream,
                       stream_stop, ender, reconnecter, runs, losses,
                       stopped_by_force, delay_preserve>>
      BY DEF ProcessDelay, phaseVars, connectionVars, helperVars, boundVars
  <1>2. output_active /\ e \in Callers /\ e # User /\ "pop" \in Places
      BY <1>1, CallersApart DEF DelayInv, Attached, Places
  <1>3. /\ at' \in [Callers -> Places] /\ at[e] = "idle" /\ at'[e] = "pop"
        /\ \A d \in Callers : d # e => at'[d] = at[d]
      BY <1>1, <1>2, OneMoves DEF DelayInv
  <1>4. /\ delay_data' \in Seq({"start", "stop", "packet"})
        /\ \A i : i \in DOMAIN delay_data' /\ delay_data'[i] = "start" <=>
                  i \in DOMAIN delay_data /\ delay_data[i] = "start"
    <2>1. delay_data \in Seq({"start", "stop", "packet"})
        BY DEF DelayInv, DelayTyped
    <2>2. CASE delay_data' = Append(delay_data, "packet")
        BY <2>1, <2>2, EntryBehind
    <2>3. CASE delay_data' = delay_data
        BY <2>1, <2>3
    <2>4. QED
        BY <1>1, <2>2, <2>3
  <1>5. Queued' = Queued
      BY <1>4 DEF Queued
  <1>6. /\ Starting' = Starting /\ Waiting' = Waiting /\ Left' = Left
      BY <1>1, <1>2, StartsLeftAlone, PlacesLeftAlone DEF DelayInv
  <1>7. Stopping => Stopping'
      BY <1>3 DEF Stopping
  <1>8. DelayTyped'
      BY <1>1, <1>3, <1>4 DEF DelayInv, DelayTyped, Places
  <1>9. Attached'
      BY <1>1, <1>2, <1>3, CallersApart DEF DelayInv, Attached
  <1>10. OneStart'
    <2>1. /\ at'[User] = at[User]
          /\ \A d, f \in Encoders :
                 at'[d] = "start" /\ f # d => at'[f] \in {"idle", "pop"}
        BY <1>2, <1>3, CallersApart DEF DelayInv, OneStart
    <2>2. \A i \in DOMAIN delay_data' : delay_data'[i] = "start" => i = 1
        BY <1>4 DEF DelayInv, OneStart
    <2>3. QED
        BY <1>1, <1>6, <2>1, <2>2 DEF DelayInv, OneStart
  <1>11. StartsCounted'
      BY <1>1, <1>5, <1>6, <1>7 DEF DelayInv, StartsCounted
  <1>12. StreamEnds'
      BY <1>1, <1>2, <1>3, <1>6, CallersApart DEF DelayInv, StreamEnds
  <1>13. QED
      BY <1>8, <1>9, <1>10, <1>11, <1>12 DEF DelayInv

\* Nothing more is old enough, and the call of the encoder ends.
LEMMA DeliveredKept ==
  ASSUME DelayInv, NEW e \in Encoders, Delivered(e)
  PROVE  DelayInv'
  <1>1. /\ Moves(e, "pop", "idle")
        /\ UNCHANGED <<delayVars, phaseVars, output_stopped, hooked,
                       connectionVars, helperVars, boundVars>>
      BY DEF Delivered
  <1>2. e \in Callers /\ e # User /\ "idle" \in Places
      BY CallersApart DEF Places
  <1>3. at' \in [Callers -> Places]
      BY <1>1, <1>2, OneMoves DEF DelayInv
  <1>4. DelayTyped'
      BY <1>1, <1>3 DEF DelayInv, DelayTyped, Places, delayVars, phaseVars,
                        connectionVars, helperVars, boundVars
  <1>5. QED
      BY <1>1, <1>2, <1>4, CallGoesOn
      DEF delayVars, phaseVars, connectionVars, helperVars

\* The oldest entry is taken out.  A start goes to the thread that takes it,
\* and what is left has none; a stop is begun.
LEMMA PopPacketKept ==
  ASSUME DelayRaces = {}, DelayInv, NEW e \in Encoders, PopPacket(e)
  PROVE  DelayInv'
  <1> DEFINE to == CASE Head(delay_data) = "packet" -> "pop"
                     [] Head(delay_data) = "start"  -> "start"
                     [] Head(delay_data) = "stop"   -> "join"
  <1>1. /\ MayPop /\ Moves(e, "pop", to) /\ delay_data' = Tail(delay_data)
        /\ UNCHANGED <<delay_active, delay_capturing, delay_restart_refs,
                       output_active, output_data_active, output_reconnecting,
                       output_retries, output_stopped, hooked, stream,
                       stream_stop, ender, reconnecter, runs, losses,
                       stopped_by_force, delay_preserve>>
      BY DEF PopPacket, phaseVars, connectionVars, helperVars, boundVars
  <1>2. /\ delay_data \in Seq({"start", "stop", "packet"})
        /\ Len(delay_data) \in Nat /\ Len(delay_data) > 1
      BY <1>1 DEF MayPop, DelayInv, DelayTyped
  <1>3. /\ 1 \in DOMAIN delay_data /\ Head(delay_data) = delay_data[1]
        /\ delay_data[1] \in {"start", "stop", "packet"}
        /\ delay_data' \in Seq({"start", "stop", "packet"})
        /\ \A i \in DOMAIN delay_data' :
               i + 1 \in DOMAIN delay_data /\ i \in Nat \ {0}
               /\ delay_data'[i] = delay_data[i + 1]
      BY <1>1, <1>2
  <1>4. ~Queued'
      BY <1>3 DEF Queued, DelayInv, OneStart
  <1>5. e \in Callers /\ e # User /\ to \in {"pop", "start", "join"}
      BY <1>3, CallersApart
  <1>6. to \in Places
      BY <1>5 DEF Places
  <1> HIDE DEF to
  <1>7. /\ at' \in [Callers -> Places] /\ at[e] = "pop" /\ at'[e] = to
        /\ \A d \in Callers : d # e => at'[d] = at[d]
      BY <1>1, <1>5, <1>6, OneMoves DEF DelayInv
  <1>8. Waiting' = Waiting /\ Left' = Left
      BY <1>1, PlacesLeftAlone
  <1>9. DelayTyped'
      BY <1>1, <1>3, <1>7 DEF DelayInv, DelayTyped, Places
  <1>10. Attached'
    <2>1. output_active
        BY <1>5, <1>7 DEF DelayInv, Attached
    <2>2. QED
        BY <1>1, <1>5, <1>7, <2>1, CallersApart DEF DelayInv, Attached
  <1>11. Stopping => Stopping'
      BY <1>7 DEF Stopping
  <1>12. at'[User] = at[User]
      BY <1>5, <1>7, CallersApart
  <1>13. StreamEnds'
      BY <1>1, <1>8, <1>12 DEF DelayInv, StreamEnds
  <1>14. to # "pop" => \A f \in Encoders : at[f] \in {"idle", "pop"}
      BY <1>1, <1>3 DEF MayPop, to
  <1>15. \A i \in DOMAIN delay_data' : delay_data'[i] = "start" => i = 1
      BY <1>4 DEF Queued
  <1>16. \A d, f \in Encoders :
             at'[d] = "start" /\ f # d => at'[f] \in {"idle", "pop"}
      BY <1>5, <1>7, <1>14, CallersApart DEF DelayInv, OneStart
  <1>17. CASE to = "start"
    <2>1. /\ delay_data[1] = "start" /\ delay_active /\ at[User] = "idle"
          /\ Queued
        BY <1>1, <1>3, <1>17 DEF to, MayPop, MayConnect, Queued
    <2>2. Starting'
        BY <1>5, <1>7, <1>17 DEF Starting, StartsOf
    <2>3. OneStart'
        BY <1>1, <1>8, <1>12, <1>15, <1>16, <2>1 DEF DelayInv, OneStart
    <2>4. StartsCounted'
        BY <1>1, <1>4, <1>8, <2>1, <2>2 DEF DelayInv, StartsCounted
    <2>5. QED
        BY <1>9, <1>10, <1>13, <2>3, <2>4 DEF DelayInv
  <1>18. CASE to # "start"
    <2>1. Starting' = Starting
        BY <1>1, <1>5, <1>6, <1>18, StartsLeftAlone DEF DelayInv
    <2>2. delay_data[1] # "start"
        BY <1>3, <1>18 DEF to
    <2>3. ~Queued
        BY <1>3, <2>2 DEF Queued, DelayInv, OneStart
    <2>4. OneStart'
        BY <1>1, <1>8, <1>12, <1>15, <1>16, <2>1 DEF DelayInv, OneStart
    <2>5. StartsCounted'
        BY <1>1, <1>4, <1>8, <1>11, <2>1, <2>3 DEF DelayInv, StartsCounted
    <2>6. QED
        BY <1>9, <1>10, <1>13, <2>4, <2>5 DEF DelayInv
  <1>19. QED
      BY <1>17, <1>18

\* What was counted is carried out.
LEMMA DelayedStartKept ==
  ASSUME DelayInv, NEW e \in Encoders, DelayedStart(e)
  PROVE  DelayInv'
  <1>1. /\ Moves(e, "start", "pop")
        /\ stream' = "connecting"
        /\ delay_restart_refs' = Lower(delay_restart_refs)
        /\ UNCHANGED <<delay_data, delay_active, delay_capturing,
                       output_active, output_data_active, output_reconnecting,
                       output_retries, output_stopped, hooked, stream_stop,
                       ender, reconnecter, runs, losses, stopped_by_force,
                       delay_preserve>>
      BY DEF DelayedStart, ActuallyStart, phaseVars, helperVars, boundVars
  <1>2. e \in Callers /\ e # User /\ "pop" \in Places
      BY CallersApart DEF Places
  <1>3. /\ at' \in [Callers -> Places] /\ at[e] = "start" /\ at'[e] = "pop"
        /\ \A d \in Callers : d # e => at'[d] = at[d]
      BY <1>1, <1>2, OneMoves DEF DelayInv
  <1>4. Starting
      BY <1>3 DEF Starting, StartsOf
  <1>5. /\ delay_active /\ at[User] = "idle" /\ delay_restart_refs = 1
        /\ ~Waiting /\ ~Queued
      BY <1>4 DEF DelayInv, OneStart, StartsCounted
  <1>6. delay_restart_refs' = 0
      BY <1>1, <1>5 DEF Lower
  <1>7. ~Starting'
      BY <1>3, CallersApart DEF Starting, StartsOf, DelayInv, OneStart
  <1>8. ~Queued' /\ ~Waiting'
      BY <1>1, <1>5, PlacesLeftAlone
  <1>9. at'[User] = "idle"
      BY <1>2, <1>3, <1>5, CallersApart
  <1>10. DelayTyped'
      BY <1>1, <1>3, <1>6 DEF DelayInv, DelayTyped, Places
  <1>11. Attached'
      BY <1>1, <1>2, <1>3, <1>5, CallersApart DEF DelayInv, Attached
  <1>12. OneStart'
    <2>1. \A d \in Encoders : at'[d] # "start"
        BY <1>7 DEF Starting, StartsOf
    <2>2. QED
        BY <1>1, <1>5, <1>7, <1>8, <1>9, <2>1 DEF DelayInv, OneStart
  <1>13. StartsCounted' /\ StreamEnds'
      BY <1>1, <1>5, <1>6, <1>7, <1>8 DEF StartsCounted, StreamEnds
  <1>14. QED
      BY <1>10, <1>11, <1>12, <1>13 DEF DelayInv

-----------------------------------------------------------------------------
(* The delay: the stream, the end of the capture and the reconnect thread   *)

\* A stream that was not told to stop ends, and the delay with it, or the
\* reconnect thread has the next start.
LEMMA StreamEndKept ==
  ASSUME DelayInv, NEW code \in {"error", "disconnected"}, Report(code),
         ~Left, stream' = "none",
         UNCHANGED <<delay_data, output_active, hooked, at, stream_stop>>,
         runs' = runs, losses' \in Nat, delay_preserve' = delay_preserve,
         stopped_by_force' = stopped_by_force
  PROVE  DelayInv'
  <1>1. code \in {"success", "error", "disconnected"} /\ code # "success"
      OBVIOUS
  <1>2. /\ output_retries' \in 0 .. Retries
        /\ output_reconnecting' \in BOOLEAN
        /\ delay_capturing' \in BOOLEAN /\ output_stopped' \in BOOLEAN
        /\ output_data_active' \in BOOLEAN /\ ender' \in {"none", "unhook"}
        /\ delay_restart_refs' \in Nat
        /\ ~delay_active => delay_restart_refs' = delay_restart_refs
        /\ delay_active' => UNCHANGED <<output_data_active, ender>>
        /\ \/ ~delay_active' /\ reconnecter' = reconnecter
           \/ /\ delay_active' = delay_active
              /\ delay_active =>
                     delay_restart_refs' = delay_restart_refs + 1
              /\ reconnecter = "none" /\ reconnecter' = "wait"
              /\ output_reconnecting' = TRUE
      BY <1>1, Reported
  <1>3. ~Waiting
      BY DEF DelayInv, OneStart, Left
  <1>4. delay_active =>
            delay_restart_refs = 0 /\ ~Queued /\ ~Starting
      BY <1>3 DEF DelayInv, StartsCounted, Left
  <1>5. Starting' = Starting /\ Queued' = Queued /\ Left'
      BY PlacesLeftAlone DEF Left
  <1>6. /\ delay_active' \in BOOLEAN
        /\ delay_active' => delay_active
        /\ reconnecter' \in {"none", "wait"}
        /\ reconnecter' = "wait" => output_reconnecting' = TRUE
        /\ delay_active' => /\ reconnecter' = "wait"
                            /\ delay_restart_refs' = 1
    <2>1. delay_active' \in BOOLEAN
        BY DEF Report, Reconnect, AbandonDelayed, EndCapture, DelayInv,
               DelayTyped, DelayedCapture
    <2>2. QED
        BY <1>2, <1>3, <1>4, <2>1 DEF Waiting, DelayInv, DelayTyped
  <1>7. ~Starting
      BY <1>4 DEF DelayInv, OneStart
  <1>8. DelayTyped'
      BY <1>2, <1>6 DEF DelayInv, DelayTyped
  <1>9. Attached'
      BY <1>2, <1>6 DEF DelayInv, Attached
  <1>10. OneStart'
      BY <1>5, <1>6, <1>7 DEF DelayInv, OneStart, Waiting
  <1>11. StartsCounted'
      BY <1>4, <1>5, <1>6, <1>7 DEF StartsCounted, Waiting
  <1>12. StreamEnds'
      BY <1>5 DEF StreamEnds
  <1>13. QED
      BY <1>8, <1>9, <1>10, <1>11, <1>12 DEF DelayInv

\* The stream reports that it could not connect, or that it was lost.
LEMMA StreamBreaksKept ==
  ASSUME DelayInv, StreamFails \/ StreamLost
  PROVE  DelayInv'
  <1>1. PICK code \in {"error", "disconnected"} :
            /\ Report(code) /\ ~Left /\ stream' = "none" /\ losses' \in Nat
            /\ UNCHANGED <<delay_data, output_active, hooked, at, stream_stop,
                           runs, delay_preserve, stopped_by_force>>
    <2>1. losses \in Nat /\ losses + 1 \in Nat
        BY DEF DelayInv, DelayTyped
    <2>2. CASE StreamFails
        BY <2>1, <2>2 DEF StreamFails, Left, boundVars
    <2>3. CASE StreamLost
        BY <2>1, <2>3 DEF StreamLost, Left
    <2>4. QED
        BY <2>2, <2>3
  <1>2. QED
      BY <1>1, StreamEndKept

\* While the delay lasts, what is connected carries on its capture; after it
\* nothing is being connected.
LEMMA StreamConnectsKept ==
  ASSUME DelayInv, StreamConnects
  PROVE  DelayInv'
  <1>1. /\ stream = "connecting" /\ stream' = "streaming"
        /\ UNCHANGED <<delay_data, delay_restart_refs, output_retries, at,
                       output_stopped, stream_stop, ender, reconnecter, runs,
                       losses, stopped_by_force, delay_preserve>>
      BY DEF StreamConnects, helperVars, boundVars
  <1>2. /\ delay_active /\ at[User] = "idle" /\ ~Left /\ ~Waiting
      BY <1>1 DEF DelayInv, OneStart, Left
  <1>3. /\ delay_capturing' = TRUE
        /\ output_reconnecting' \in {output_reconnecting, FALSE}
        /\ UNCHANGED <<delay_active, output_active, output_data_active, hooked>>
    <2>1. output_active /\ delay_capturing \in BOOLEAN
        BY <1>2 DEF DelayInv, Attached, DelayTyped
    <2>2. QED
        BY <1>2, <2>1 DEF StreamConnects
  <1>4. /\ Starting' = Starting /\ Queued' = Queued /\ Waiting' = Waiting
        /\ Stopping' = Stopping
      BY <1>1, PlacesLeftAlone
  <1>5. /\ ~Starting /\ ~Queued /\ delay_restart_refs = 0
      BY <1>1, <1>2 DEF DelayInv, StartsCounted
  <1>6. DelayTyped'
      BY <1>1, <1>3, ZenonT(30) DEF DelayInv, DelayTyped
  <1>7. Attached'
      BY <1>1, <1>3 DEF DelayInv, Attached
  <1>8. OneStart'
      BY <1>1, <1>2, <1>3, <1>4, <1>5 DEF DelayInv, OneStart
  <1>9. StartsCounted' /\ StreamEnds'
      BY <1>1, <1>2, <1>3, <1>4, <1>5 DEF StartsCounted, StreamEnds
  <1>10. QED
      BY <1>6, <1>7, <1>8, <1>9 DEF DelayInv

\* The thread that sends ends: if no start is to come that is the end of the
\* delay, otherwise the delay goes on with that start.
LEMMA StreamStopsKept ==
  ASSUME DelayInv, StreamStops
  PROVE  DelayInv'
  <1>1. /\ stream = "streaming" /\ stream_stop
        /\ stream' = "none" /\ stream_stop' = FALSE
        /\ EndCapture(TRUE, delay_active, delay_restart_refs)
        /\ UNCHANGED <<delay_data, output_active, output_reconnecting,
                       output_retries, hooked, at, reconnecter, runs, losses,
                       stopped_by_force, delay_preserve>>
      BY DEF StreamStops, boundVars
  <1>2. /\ delay_active' = (delay_active /\ delay_restart_refs > 0)
        /\ delay_restart_refs' = delay_restart_refs
        /\ delay_capturing' \in BOOLEAN /\ output_stopped' \in BOOLEAN
        /\ output_data_active' \in BOOLEAN /\ ender' \in {"none", "unhook"}
        /\ delay_active' => UNCHANGED <<output_data_active, ender>>
      BY <1>1, CaptureEnded DEF DelayInv, DelayTyped
  <1>3. /\ Starting' = Starting /\ Queued' = Queued /\ Waiting' = Waiting
        /\ Stopping' = Stopping /\ Left'
      BY <1>1, PlacesLeftAlone DEF Left
  <1>4. /\ ~Waiting
        /\ delay_active => delay_restart_refs \in {0, 1}
        /\ delay_active /\ delay_restart_refs = 0 => ~Queued /\ ~Starting
        /\ delay_active /\ delay_restart_refs = 1 => Queued \/ Starting
        /\ Starting => delay_active
      BY <1>1 DEF DelayInv, OneStart, StartsCounted
  <1>5. /\ delay_active' \in BOOLEAN /\ delay_active' => delay_active
        /\ delay_active' <=> delay_active /\ (Queued \/ Starting)
    <2>1. delay_active \in BOOLEAN
        BY DEF DelayInv, DelayTyped
    <2>2. /\ delay_active /\ (Queued \/ Starting) =>
                 delay_restart_refs = 1 /\ delay_restart_refs > 0
          /\ delay_active /\ ~(Queued \/ Starting) =>
                 delay_restart_refs = 0 /\ ~(delay_restart_refs > 0)
        BY <1>4
    <2>3. QED
        BY <1>2, <2>1, <2>2
  <1>6. DelayTyped'
      BY <1>1, <1>2, <1>5 DEF DelayInv, DelayTyped
  <1>7. Attached'
      BY <1>1, <1>2, <1>5 DEF DelayInv, Attached
  <1>8. OneStart'
      BY <1>1, <1>3, <1>4, <1>5 DEF DelayInv, OneStart
  <1>9. StartsCounted' /\ StreamEnds'
      BY <1>1, <1>2, <1>3, <1>4, <1>5 DEF DelayInv, StartsCounted, StreamEnds
  <1>10. QED
      BY <1>6, <1>7, <1>8, <1>9 DEF DelayInv

\* The encoders are detached and the queue is thrown away, after the delay.
LEMMA CaptureEndKept ==
  ASSUME DelayInv, (\E e \in Encoders : Detach(e)) \/ EndDelayedCapture
  PROVE  DelayInv'
  <1>1. ender = "unhook" /\ ~delay_active /\ ~Starting /\ stream # "connecting"
    <2>1. ender = "unhook"
        BY DEF Detach, EndDelayedCapture
    <2>2. QED
        BY <2>1 DEF DelayInv, Attached, OneStart
  <1>2. CASE \E e \in Encoders : Detach(e)
    <2>1. PICK e \in Encoders :
              /\ at[e] = "idle" /\ hooked' = hooked \ {e}
              /\ UNCHANGED <<delayVars, phaseVars, output_stopped, at,
                             connectionVars, helperVars, boundVars>>
        BY <1>2 DEF Detach
    <2>2. Starting' = Starting /\ Waiting' = Waiting /\ Left' = Left
        BY <2>1, PlacesLeftAlone DEF delayVars, connectionVars, helperVars
    <2>3. hooked' \in SUBSET Encoders
        BY <2>1 DEF DelayInv, DelayTyped
    <2>4. DelayTyped'
        BY <2>1, <2>3
        DEF DelayInv, DelayTyped, delayVars, phaseVars, connectionVars,
            helperVars, boundVars
    <2>5. Attached'
        BY <2>1 DEF DelayInv, Attached, delayVars, phaseVars, helperVars
    <2>6. OneStart'
        BY <2>1, <2>2
        DEF DelayInv, OneStart, delayVars, phaseVars, connectionVars
    <2>7. StartsCounted' /\ StreamEnds'
        BY <1>1, <2>1, <2>2
        DEF DelayInv, StartsCounted, StreamEnds, delayVars
    <2>8. QED
        BY <2>4, <2>5, <2>6, <2>7 DEF DelayInv
  <1>3. CASE EndDelayedCapture
    <2>1. /\ ender' = "none" /\ hooked = {}
          /\ delay_data' = <<>> /\ delay_restart_refs' = 0
          /\ output_active' = FALSE /\ output_stopped' = TRUE
          /\ UNCHANGED <<delay_active, delay_capturing, output_data_active,
                         output_reconnecting, output_retries, hooked, at,
                         stream, stream_stop, reconnecter, runs, losses,
                         stopped_by_force, delay_preserve>>
        BY <1>3 DEF EndDelayedCapture, connectionVars, boundVars
    <2>2. Starting' = Starting /\ Waiting' = Waiting /\ Left' = Left
        BY <2>1, PlacesLeftAlone
    <2>3. DelayTyped'
      <3>1. /\ delay_data' \in Seq({"start", "stop", "packet"})
            /\ delay_restart_refs' \in Nat
          BY <2>1
      <3>2. QED
          BY <2>1, <3>1 DEF DelayInv, DelayTyped
    <2>4. Attached'
        BY <1>1, <2>1 DEF DelayInv, Attached
    <2>5. OneStart'
        BY <2>1, <2>2 DEF DelayInv, OneStart
    <2>6. StartsCounted' /\ StreamEnds'
        BY <1>1, <2>1, <2>2 DEF DelayInv, StartsCounted, StreamEnds
    <2>7. QED
        BY <2>3, <2>4, <2>5, <2>6 DEF DelayInv
  <1>4. QED
      BY <1>2, <1>3

\* The reconnect thread carries out the start it has, or leaves it to the call
\* that cancelled it.
LEMMA ReconnectKept ==
  ASSUME DelayRaces = {}, DelayInv, ReconnectStarts \/ ReconnectCancelled
  PROVE  DelayInv'
  <1>1. /\ Waiting /\ stream = "none" /\ reconnecter' = "none"
        /\ UNCHANGED <<delay_data, delay_active, delay_capturing,
                       output_active, output_data_active, output_retries,
                       output_stopped, hooked, at, stream_stop, ender, runs,
                       losses, stopped_by_force, delay_preserve>>
      BY DEF ReconnectStarts, ReconnectCancelled, ActuallyStart, Waiting,
             DelayInv, OneStart, delayVars, phaseVars, connectionVars,
             boundVars
  <1>2. /\ Starting' = Starting /\ Queued' = Queued /\ Stopping' = Stopping
        /\ ~Waiting' /\ Left
      BY <1>1, PlacesLeftAlone DEF Waiting, Left
  <1>3. delay_active => ~Starting /\ ~Queued /\ delay_restart_refs = 1
      BY <1>1 DEF DelayInv, StartsCounted
  <1>4. ~Starting
      BY <1>3 DEF DelayInv, OneStart
  <1>5. CASE ReconnectStarts
    <2>1. /\ delay_active /\ at[User] = "idle" /\ stream' = "connecting"
          /\ output_reconnecting' = output_reconnecting
          /\ delay_restart_refs' = Lower(delay_restart_refs)
        BY <1>5
        DEF ReconnectStarts, ActuallyStart, MayConnect, phaseVars
    <2>2. delay_restart_refs' = 0
        BY <1>3, <2>1 DEF Lower
    <2>3. DelayTyped'
        BY <1>1, <2>1, <2>2 DEF DelayInv, DelayTyped
    <2>4. Attached'
        BY <1>1, <2>1, <2>2 DEF DelayInv, Attached
    <2>5. OneStart'
        BY <1>1, <1>2, <2>1 DEF DelayInv, OneStart
    <2>6. StartsCounted' /\ StreamEnds'
        BY <1>1, <1>2, <1>3, <2>1, <2>2 DEF StartsCounted, StreamEnds
    <2>7. QED
        BY <2>3, <2>4, <2>5, <2>6 DEF DelayInv
  <1>6. CASE ReconnectCancelled
    <2>1. /\ output_reconnecting' = FALSE
          /\ UNCHANGED <<delay_restart_refs, stream>>
          /\ \E c \in Callers : at[c] = "joining"
        BY <1>6 DEF ReconnectCancelled, delayVars, connectionVars
    <2>2. Stopping /\ Left' = Left
        BY <1>1, <2>1, PlacesLeftAlone DEF Stopping
    <2>3. DelayTyped'
        BY <1>1, <2>1 DEF DelayInv, DelayTyped
    <2>4. Attached'
        BY <1>1, <2>1 DEF DelayInv, Attached
    <2>5. OneStart'
        BY <1>1, <1>2, <2>1 DEF DelayInv, OneStart
    <2>6. StartsCounted' /\ StreamEnds'
        BY <1>1, <1>2, <1>3, <2>1, <2>2 DEF DelayInv, StartsCounted, StreamEnds
    <2>7. QED
        BY <2>3, <2>4, <2>5, <2>6 DEF DelayInv
  <1>7. QED
      BY <1>5, <1>6

-----------------------------------------------------------------------------
(* The delay: the theorem                                                   *)

\* An output that was never started has no delay data.
LEMMA InitDelayInv ==
  ASSUME DelayedInit
  PROVE  DelayInv
  <1>1. DelayTyped
    <2>1. /\ delay_data \in Seq({"start", "stop", "packet"})
          /\ delay_restart_refs \in Nat /\ runs \in Nat /\ losses \in Nat
        BY DEF DelayedInit
    <2>2. output_retries \in 0 .. Retries /\ hooked \in SUBSET Encoders
        BY DelayedOutputAssumption DEF DelayedInit
    <2>3. at \in [Callers -> {"idle", "pop", "start", "join", "joining",
                              "stop", "halt"}]
        BY DEF DelayedInit
    <2>4. QED
        BY <2>1, <2>2, <2>3 DEF DelayedInit, DelayTyped
  <1>2. ~Starting /\ ~Waiting /\ Left /\ delay_active = FALSE
      BY CallersApart DEF DelayedInit, Starting, StartsOf, Waiting, Left
  <1>3. Attached /\ OneStart
      BY <1>2, CallersApart DEF DelayedInit, Attached, OneStart
  <1>4. StartsCounted /\ StreamEnds
      BY <1>2 DEF DelayedInit, StartsCounted, StreamEnds
  <1>5. QED
      BY <1>1, <1>3, <1>4 DEF DelayInv

\* Every step keeps the invariant when none of the races happens.
LEMMA NextDelayInv ==
  ASSUME DelayRaces = {}, DelayInv, [DelayedNext]_delayedVars
  PROVE  DelayInv'
  <1>1. CASE StartDelay \/ StopDelayed \/ ForceStopDelayed \/ EndDelay
      BY <1>1, StartDelayKept, StopDelayedKept, StopBegunKept, EndDelayKept
  <1>2. ASSUME NEW c \in Callers, Call(c) PROVE DelayInv'
      BY <1>2, StopCalledKept, HaltStreamKept DEF Call
  <1>3. ASSUME NEW e \in Encoders, ProcessDelay(e) \/ EncoderStep(e)
        PROVE  DelayInv'
      BY <1>3, ProcessDelayKept, PopPacketKept, DeliveredKept, DelayedStartKept
      DEF EncoderStep
  <1>4. CASE (\E e \in Encoders : Detach(e)) \/ EndDelayedCapture
      BY <1>4, CaptureEndKept
  <1>5. CASE StreamFails \/ StreamConnects \/ StreamLost \/ StreamStops
      BY <1>5, StreamBreaksKept, StreamConnectsKept, StreamStopsKept
  <1>6. CASE ReconnectStarts \/ ReconnectCancelled
      BY <1>6, ReconnectKept
  <1>7. CASE UNCHANGED delayedVars
    <2>1. UNCHANGED <<delay_data, delay_active, delay_capturing,
                      delay_restart_refs, output_active, output_data_active,
                      output_reconnecting, output_retries, output_stopped,
                      hooked, at, stream, stream_stop, ender, reconnecter,
                      runs, losses, stopped_by_force, delay_preserve>>
        BY <1>7 DEF delayedVars, delayVars, phaseVars, connectionVars,
                    helperVars, boundVars
    <2>2. /\ Starting' = Starting /\ Queued' = Queued /\ Waiting' = Waiting
          /\ Stopping' = Stopping /\ Left' = Left
        BY <2>1, PlacesLeftAlone
    <2>3. DelayTyped' /\ Attached'
        BY <2>1 DEF DelayInv, DelayTyped, Attached
    <2>4. OneStart' /\ StartsCounted' /\ StreamEnds'
        BY <2>1, <2>2 DEF DelayInv, OneStart, StartsCounted, StreamEnds
    <2>5. QED
        BY <2>3, <2>4 DEF DelayInv
  <1>8. QED
      BY <1>1, <1>2, <1>3, <1>4, <1>5, <1>6, <1>7 DEF DelayedNext

\* The delay, its start and whoever carries it out are always as DelayInv says.
THEOREM DelayInvHolds ==
  ASSUME DelayRaces = {}
  PROVE  DelayedSpec => []DelayInv
  <1>1. DelayedInit => DelayInv
      BY InitDelayInv
  <1>2. DelayInv /\ [DelayedNext]_delayedVars => DelayInv'
      BY NextDelayInv
  <1>3. QED
      BY <1>1, <1>2, PTL DEF DelayedSpec

\* What StartsToCome counts, while the start is in at most one place.
LEMMA StartsInOnePlace ==
  ASSUME DelayInv, delay_active
  PROVE  StartsToCome = IF Queued \/ Starting \/ Waiting THEN 1 ELSE 0
  <1> DEFINE queued == {i \in DOMAIN delay_data : delay_data[i] = "start"}
             starting == {e \in Encoders : at[e] = "start"}
  <1>1. Cardinality(queued) = IF Queued THEN 1 ELSE 0
    <2>1. CASE Queued
      <3>1. queued = {1}
          BY <2>1 DEF Queued, DelayInv, OneStart
      <3>2. QED
          BY <2>1, <3>1, FS_Singleton
    <2>2. CASE ~Queued
      <3>1. queued = {}
          BY <2>2 DEF Queued
      <3>2. QED
          BY <2>2, <3>1, FS_EmptySet
    <2>3. QED
        BY <2>1, <2>2
  <1>2. Cardinality(starting) = IF Starting THEN 1 ELSE 0
    <2>1. CASE Starting
      <3>1. PICK e \in Encoders : at[e] = "start"
          BY <2>1 DEF Starting, StartsOf
      <3>2. starting = {e}
          BY <3>1 DEF DelayInv, OneStart
      <3>3. QED
          BY <2>1, <3>2, FS_Singleton
    <2>2. CASE ~Starting
      <3>1. starting = {}
          BY <2>2 DEF Starting, StartsOf
      <3>2. QED
          BY <2>2, <3>1, FS_EmptySet
    <2>3. QED
        BY <2>1, <2>2
  <1>3. /\ Starting => ~Queued
        /\ Queued \/ Starting => ~Waiting
      BY DEF DelayInv, StartsCounted
  <1> HIDE DEF queued, starting
  <1>4. StartsToCome = Cardinality(queued) + Cardinality(starting)
                           + (IF Waiting THEN 1 ELSE 0)
      BY DEF StartsToCome, queued, starting, Waiting
  <1>5. QED
      BY <1>1, <1>2, <1>3, <1>4

\* While the delay lasts and no call stops the output, the starts that are to
\* come are as many as are counted, whatever is lost, retried and stopped
\* meanwhile: no stream ends with the next one's start thrown away, and no
\* encoder runs on for a start that does not come.
THEOREM StartsAreCounted ==
  ASSUME DelayRaces = {}
  PROVE  DelayedSpec => []RefsCountStarts
  <1>1. DelayInv => RefsCountStarts
    <2> SUFFICES ASSUME DelayInv, delay_active, NobodyStops
                 PROVE  delay_restart_refs = StartsToCome
        BY DEF RefsCountStarts
    <2>1. StartsToCome = IF Queued \/ Starting \/ Waiting THEN 1 ELSE 0
        BY StartsInOnePlace
    <2>2. ~Stopping
        BY DEF Stopping, NobodyStops
    <2>3. QED
        BY <2>1, <2>2 DEF DelayInv, StartsCounted
  <1>2. QED
      BY <1>1, DelayInvHolds, PTL

\* The queue holds packets and commands, the threads are where their code can
\* be, and no more reconnects are tried than reconnect_retry_max.
THEOREM DelayTypedHolds ==
  ASSUME DelayRaces = {}
  PROVE  DelayedSpec => []DelayedTypeOK
  <1>1. DelayInv => DelayedTypeOK
      BY DEF DelayInv, DelayTyped, DelayedTypeOK
  <1>2. QED
      BY <1>1, DelayInvHolds, PTL

\* Once a forced stop has ended, and until the next start, the output does not
\* come back, if no connection is being made when the stop is forced; DelayRaces
\* has the case in which it does.
THEOREM ForcedStopStays ==
  ASSUME DelayRaces = {}
  PROVE  DelayedSpec => ForceStopIsFinal
  <1>1. ASSUME DelayInv, [DelayedNext]_delayedVars,
               stopped_by_force /\ stopped_by_force' /\ AtRestDelayed
        PROVE  ~output_active'
    <2>1. stream # "connecting"
        BY <1>1 DEF DelayInv, OneStart, Attached, AtRestDelayed
    <2>2. stream # "connecting" /\ ~output_active
        BY <1>1, <2>1 DEF AtRestDelayed
    <2>3. CASE StartDelay
        BY <1>1, <2>3 DEF StartDelay
    <2>4. CASE EndDelayedCapture
        BY <2>4 DEF EndDelayedCapture
    <2>5. CASE output_active' = output_active
        BY <2>2, <2>5
    <2>6. QED
        BY <1>1, <2>2, <2>3, <2>4, <2>5
        DEF DelayedNext, StopDelayed, ForceStopDelayed, EndDelay, Call,
            ActuallyStop, Joined, CallStop, HaltStream, ProcessDelay,
            EncoderStep, PopPacket, Delivered, DelayedStart, Detach,
            StreamFails, StreamConnects, StreamLost, StreamStops,
            ReconnectStarts, ReconnectCancelled, phaseVars, delayedVars
  <1>2. QED
      BY <1>1, DelayInvHolds, PTL DEF DelayedSpec, ForceStopIsFinal
====
